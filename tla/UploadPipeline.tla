--------------------------- MODULE UploadPipeline ---------------------------
(***************************************************************************)
(* One upload job from end to end: the client loop of the recorder worker  *)
(* (BrokerUploader::upload, retried by UploadQueue::run) against the       *)
(* broker's upload sessions of module UploadSession.  The network may lose *)
(* a request or a reply; a reply that comes after its timeout is lost to   *)
(* the client while the broker still works on the request.  The worker may *)
(* crash; what it keeps is the job as last saved.                          *)
(***************************************************************************)
EXTENDS UploadSession, FiniteSets

CONSTANTS
  Chunk,          \* chunk_size of the client
  NetworkRetries, \* network_retries of GET and PUT: 2 in the source
  MaxAttempts,    \* attempts after which run() gives up: 7 in the source
  MaxFaults,      \* bound: network errors, restarts and crashes in a run
  NoSession,      \* an empty upload id
  NoCall          \* no request is outstanding

ASSUME PipelineAssumption ==
  /\ Chunk \in Nat \ {0} /\ NetworkRetries \in Nat /\ MaxAttempts \in Nat /\ MaxFaults \in Nat
  /\ NoSession \notin Sessions /\ NoCall \notin Handlers

VARIABLES
  job,     \* the queue's entry, as saved: what became of it, attempts, upload_id
  client,  \* the progress of upload()
  faults,  \* history: faults so far
  mishaps  \* history: what went wrong so far, of the kinds in Mishap

clientVars == <<job, client, faults, mishaps>>
vars == <<sessionVars, clientVars>>

JobType == [status: {"queued", "uploaded", "rejected", "gave up"},
            attempts: 0..MaxAttempts, uploadId: Sessions \cup {NoSession}]
\* pc: between attempts, at the GET, the POST or the loop of PUTs; call is the request
\* the client waits for; guessed: the offset is the client's own count.
ClientType == [pc: {"idle", "get", "post", "put"}, session: Sessions \cup {NoSession},
               offset: Offset, call: Handlers \cup {NoCall}, retries: 0..NetworkRetries,
               guessed: BOOLEAN]
\* lost: a reply of the broker, or an id it gave, did not reach the client; garbled: a reply
\* came without a readable body; refused: the broker refused a request for good; unable:
\* the client could not go on by itself; forgotten: a failed attempt dropped the upload id;
\* crashed: the worker did.
Mishap == {"lost", "garbled", "refused", "unable", "forgotten", "crashed"}

PipelineTypeOK ==
  /\ TypeOK
  /\ job \in JobType /\ client \in ClientType
  /\ faults \in 0..MaxFaults
  /\ mishaps \subseteq Mishap

IdleClient == [pc |-> "idle", session |-> NoSession, offset |-> 0,
               call |-> NoCall, retries |-> 0, guessed |-> FALSE]

PipelineInit ==
  /\ SessionInit
  /\ job = [status |-> "queued", attempts |-> 0, uploadId |-> NoSession]
  /\ client = IdleClient
  /\ faults = 0
  /\ mishaps = {}

Fault == faults < MaxFaults /\ faults' = faults + 1
Note(mishap) == mishaps' = mishaps \cup {mishap}
-----------------------------------------------------------------------------
(* How an attempt ends: the result of upload(), recorded by run() *)

Settle(status) ==
  /\ job' = [job EXCEPT !.status = status]
  /\ client' = IdleClient

\* Variant: the attempt is not counted.
RetryUncounted(session) ==
  /\ job' = [job EXCEPT !.uploadId = session]
  /\ client' = IdleClient

\* Variant: the upload id is forgotten.
RetryAfresh(session) ==
  /\ job' = IF job.attempts >= MaxAttempts
            THEN [job EXCEPT !.status = "gave up"]
            ELSE [job EXCEPT !.attempts = @ + 1, !.uploadId = NoSession]
  /\ client' = IdleClient

\* A retryable failure: the upload id is kept for the next attempt.
Retry(session) ==
  /\ job' = IF job.attempts >= MaxAttempts
            THEN [job EXCEPT !.status = "gave up"]
            ELSE [job EXCEPT !.attempts = @ + 1, !.uploadId = session]
  /\ client' = IdleClient

-----------------------------------------------------------------------------
(* The client *)

\* run() picks the job when it is due.
Picked == client.pc = "idle" /\ job.status = "queued"

Begin ==
  /\ Picked
  /\ client' = [IdleClient EXCEPT !.pc = IF job.uploadId = NoSession THEN "post" ELSE "get",
                                  !.session = job.uploadId]
  /\ UNCHANGED <<sessionVars, job, faults, mishaps>>

\* The attempt ends before it takes over the upload id: for good, when uploads are not
\* configured or the recording is gone, or when WinHTTP fails; then no id is kept.
BeginFails ==
  /\ Picked
  /\ \/ Settle("rejected") /\ Note("unable")
     \/ Retry(NoSession) /\ IF job.uploadId = NoSession THEN UNCHANGED mishaps
                             ELSE Note("forgotten")
  /\ UNCHANGED <<sessionVars, faults>>

\* POST /v1/uploads is never repeated by the client itself; the reply may be lost, or come
\* without a readable id.
CreateSession ==
  /\ client.pc = "post"
  /\ \E s \in Sessions :
       /\ Initialize(s)
       /\ \/ /\ client' = [client EXCEPT !.pc = "put", !.session = s, !.offset = 0]
             /\ UNCHANGED <<job, faults, mishaps>>
          \/ Fault /\ Note("lost") /\ Retry(NoSession)
          \/ Fault /\ Note("garbled") /\ Settle("rejected")

\* No session: the daily limit or an unavailable broker, else for good.
CreateFails ==
  /\ client.pc = "post"
  /\ \/ Retry(NoSession) /\ UNCHANGED mishaps
     \/ Settle("rejected") /\ Note("refused")
  /\ UNCHANGED <<sessionVars, faults>>

SendGet ==
  /\ client.pc = "get" /\ client.call = NoCall
  /\ \E h \in Handlers :
       /\ Status(h, client.session) \/ Expired(h, client.session)
       /\ client' = [client EXCEPT !.call = h]
  /\ UNCHANGED <<job, faults, mishaps>>

ChunkEnd == IF client.offset + Chunk > Total THEN Total ELSE client.offset + Chunk

SendPut ==
  /\ client.pc = "put" /\ client.call = NoCall /\ client.offset < Total
  /\ LET s == client.session
         length == ChunkEnd - client.offset
         header == [start |-> client.offset, end |-> ChunkEnd - 1, total |-> Total]
     IN \E h \in Handlers :
          /\ \/ Expired(h, s) \/ AnswerChunk(h, s, header, length)
             \/ ForwardChunk(h, s, header, length)
          /\ client' = [client EXCEPT !.call = h]
  /\ UNCHANGED <<job, faults, mishaps>>

\* The loop ends without a url.
EndOfFile ==
  /\ client.pc = "put" /\ client.call = NoCall /\ client.offset >= Total
  /\ Settle("rejected")
  /\ UNCHANGED <<sessionVars, faults, mishaps>>

\* Before it sends a chunk the loop looks at the stop token and reads the recording.
AtChunk == /\ client.pc = "put" /\ client.call = NoCall /\ client.retries = 0
           /\ client.offset < Total

Cancelled ==
  /\ AtChunk
  /\ Fault
  /\ Retry(client.session)
  /\ UNCHANGED <<sessionVars, mishaps>>

ReadFails ==
  /\ AtChunk
  /\ Settle("rejected") /\ Note("unable")
  /\ UNCHANGED <<sessionVars, faults>>

Answer == handler[client.call].reply
HasReply == client.call # NoCall /\ handler[client.call].pc = "replied"
Take == handler' = [handler EXCEPT ![client.call] = Idle]
        /\ UNCHANGED <<store, alarm, expired, opened, youtube, overlapped>>

\* A body that is cut off is taken for an empty one.
ReadBody(readable) ==
  IF readable THEN UNCHANGED <<faults, mishaps>> ELSE Fault /\ Note("garbled")

ReplyToGet ==
  /\ client.pc = "get" /\ HasReply
  /\ \E readable \in BOOLEAN :
       /\ ReadBody(readable)
       /\ \/ Answer.status = 200 /\ readable /\ Answer.url /\ Settle("uploaded")
          \/ /\ Answer.status = 200 /\ ~(readable /\ Answer.url)
             /\ client' = [client EXCEPT !.pc = "put", !.call = NoCall, !.retries = 0,
                              !.offset = IF readable THEN Answer.nextOffset ELSE 0]
             /\ UNCHANGED job
          \/ /\ Answer.status = 410 /\ readable
             /\ client' = [client EXCEPT !.pc = "post", !.session = NoSession,
                                         !.call = NoCall, !.retries = 0]
             /\ UNCHANGED job
  /\ Take

\* Variant: the client trusts its own count instead of the broker's offset.
NextOffsetOwn(reply, readable) == ChunkEnd

NextOffset(reply, readable) == IF readable THEN reply.nextOffset ELSE ChunkEnd

\* Variant: the file counts as uploaded when its last chunk was accepted.
SucceedsAtEnd(reply) ==
  reply.status = 200 \/ (reply.status = 308 /\ ChunkEnd = Total)

Succeeds(reply) == reply.status = 200

\* Variant: a 502 of the broker is not retried.
RetryableStatusFew(status) == status = 503

RetryableStatus(status) == status \in {502, 503}

\* A 200 without a readable url does not count as a success; other errors need no body.
ReplyToPut ==
  /\ client.pc = "put" /\ HasReply
  /\ \E readable \in BOOLEAN :
       /\ ReadBody(readable)
       /\ readable \/ Answer.status \in {200, 308}
       /\ IF Succeeds(Answer) THEN Settle(IF readable THEN "uploaded" ELSE "rejected")
          ELSE IF Answer.status = 308
          THEN /\ client' = [client EXCEPT !.offset = NextOffset(Answer, readable),
                                !.guessed = ~readable, !.call = NoCall, !.retries = 0]
               /\ UNCHANGED job
          ELSE IF RetryableStatus(Answer.status) THEN Retry(client.session)
          ELSE Settle("rejected")
  /\ Take

\* request() repeats a GET or PUT that has failed on the network.
Resend ==
  IF client.retries < NetworkRetries
  THEN /\ client' = [client EXCEPT !.call = NoCall, !.retries = @ + 1]
       /\ UNCHANGED job
  ELSE Retry(client.session)

LoseReply == mishaps' = mishaps \cup (IF client.call = NoCall THEN {} ELSE {"lost"})

\* The send fails, or the reply is lost or comes too late.
NetworkError ==
  /\ client.pc \in {"get", "put"}
  /\ client.pc = "put" => client.offset < Total
  /\ Fault /\ LoseReply
  /\ Resend
  /\ UNCHANGED sessionVars

\* The object has died with the request.
ConnectionDied ==
  /\ client.call # NoCall /\ handler[client.call] = Idle
  /\ Resend
  /\ UNCHANGED <<sessionVars, faults, mishaps>>

\* The broker or its platform answers without the object: 5xx, when there is no access
\* token or the object cannot be reached, or for good, as 401 for another key.
NotServed ==
  /\ client.pc \in {"get", "put"} /\ client.call = NoCall
  /\ client.pc = "put" => client.offset < Total
  /\ UNCHANGED sessionVars

Unavailable == NotServed /\ Fault /\ Retry(client.session) /\ UNCHANGED mishaps
Refused == NotServed /\ Settle("rejected") /\ Note("refused") /\ UNCHANGED faults

Crash ==
  /\ client.pc # "idle"
  /\ Fault
  /\ client' = IdleClient
  /\ mishaps' = mishaps \cup (IF client.call = NoCall THEN {"crashed"} ELSE {"crashed", "lost"})
  /\ UNCHANGED <<sessionVars, job>>

Client ==
  \/ Begin \/ BeginFails \/ CreateSession \/ CreateFails \/ SendGet \/ SendPut
  \/ EndOfFile \/ Cancelled \/ ReadFails \/ ReplyToGet \/ ReplyToPut \/ NetworkError
  \/ ConnectionDied \/ Unavailable \/ Refused \/ Crash

-----------------------------------------------------------------------------
\* The broker and YouTube go on, whether or not the client waits for the reply.
Broker ==
  /\ \/ \E h \in Handlers : YouTubeAnswers(h) \/ Finish(h)
     \/ \E h \in Handlers : h # client.call /\ Close(h)
     \/ \E s \in Sessions : Expire(s) \/ Alarm(s)
  /\ UNCHANGED clientVars

\* Bounded as a fault.
BrokerRestart ==
  /\ \E s \in Sessions : Restart(s)
  /\ Fault
  /\ UNCHANGED <<job, client, mishaps>>

PipelineNext == Client \/ Broker \/ BrokerRestart

\* Threads run, every request is answered or times out; nothing is assumed of expiry,
\* restarts and faults.
PipelineFairness ==
  /\ WF_vars(Begin \/ BeginFails) /\ WF_vars(CreateSession \/ CreateFails)
  /\ WF_vars(SendGet) /\ WF_vars(SendPut) /\ WF_vars(EndOfFile)
  /\ WF_vars(ReplyToGet) /\ WF_vars(ReplyToPut)
  /\ WF_vars(ConnectionDied)
  /\ \A h \in Handlers :
       WF_vars((YouTubeAnswers(h) \/ Finish(h) \/ (h # client.call /\ Close(h)))
               /\ UNCHANGED clientVars)

PipelineSpec == PipelineInit /\ [][PipelineNext]_vars /\ PipelineFairness

-----------------------------------------------------------------------------
(* Properties *)

Published == {s \in Sessions : youtube[s].published}

\* The client never goes on behind a byte that YouTube lacks: whatever was lost, retried
\* or overlapped, its offset is within what its session has stored, unless it had to count
\* by itself after a 308 without a readable offset (BrokerUploader.cpp:164-165, 198).
ClientNotAhead ==
  client.pc = "put" /\ ~client.guessed => client.offset <= youtube[client.session].stored

SomeExpired == \E s \in Sessions : expired[s]

\* A job is dropped as rejected only for a reason: the broker refused a request for good,
\* the client could not go on by itself, a session expired, or a reply got lost or came
\* without its body.  Without those, chunks are never out of sequence and the loop never
\* ends without a url, whatever is retried, restarted or has crashed
\* (BrokerUploader.cpp:183-202, UploadQueue.cpp:75).
RejectionExplained ==
  job.status = "rejected" =>
    SomeExpired \/ mishaps \cap {"refused", "unable", "lost", "garbled"} # {}

\* One recording makes one video, unless a reply was lost, a session expired, the worker
\* crashed before it saved the upload id, or an attempt that failed before
\* BrokerUploader.cpp:158 made the queue forget it (UploadQueue.cpp:75).
SingleVideo ==
  Cardinality(Published) > 1 =>
    SomeExpired \/ mishaps \cap {"lost", "crashed", "forgotten"} # {}

\* The job is settled at last, one way or the other (UploadQueue.cpp:68-78).
JobSettles == <>(job.status # "queued")

\* Seen from outside, the pipeline is the ledger of one recording.
PipelineLedger == INSTANCE UploadLedger
  WITH Files <- {"recording"},
       status <- [f \in {"recording"} |->
                    IF job.status \in {"rejected", "gave up"} THEN "dropped" ELSE job.status],
       published <- IF Published = {} THEN {} ELSE {"recording"}

\* The job stays queued until it is settled once, as uploaded only when a video exists.
PipelineLedgerSpec ==
  [][PipelineLedger!Next]_<<job.status, Published>>

\* A job is not rejected while its session lives, unless the broker refused it, the client
\* could not go on or read a reply, or two PUTs overlapped: PRIVACY.md:7 says that the
\* session is kept "so interrupted uploads can resume".
InterruptedUploadsResume ==
  job.status = "rejected" =>
    \/ mishaps \cap {"refused", "unable", "garbled"} # {}
    \/ \E s \in Sessions : expired[s] \/ overlapped[s]
=============================================================================
