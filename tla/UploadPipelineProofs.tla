------------------------ MODULE UploadPipelineProofs ------------------------
(***************************************************************************)
(* Proofs about one upload job from end to end, for any number of          *)
(* sessions, requests, bytes, retries and failures.  The broker's part is  *)
(* a behaviour of UploadSession, so that what is proved there holds here;  *)
(* the rest is what the client knows of it.                                *)
(***************************************************************************)
EXTENDS UploadPipeline, UploadSessionProofs, FiniteSetTheorems

\* The client works on a queued job; at the GET and the PUTs it has a session that was
\* opened, and the request it waits for, if it still runs, is of that session.  A PUT that
\* is answered with 200 comes with the url.
ClientInv ==
  /\ client.pc # "idle" => job.status = "queued"
  /\ client.pc \in {"idle", "post"} => client.call = NoCall
  /\ client.pc \in {"get", "put"} => client.session \in opened
  /\ job.uploadId # NoSession => job.uploadId \in opened
  /\ client.call # NoCall /\ handler[client.call] # Idle =>
       handler[client.call].session = client.session
  /\ client.pc = "get" /\ client.call # NoCall =>
       handler[client.call].pc \notin {"upstream", "answered"}
  /\ client.pc = "put" /\ HasReply /\ Answer.status = 200 => Answer.url

\* As long as no session has expired, all that were opened have their state, and the client
\* is not told that one is gone.
AliveInv ==
  (\A s \in Sessions : ~expired[s]) =>
    /\ \A s \in opened : store[s] # NoState
    /\ client.pc \in {"get", "put"} /\ HasReply => Answer.status # 410

\* Every reply came with its body, and all sessions live.
Calm == mishaps \cap {"lost", "garbled"} = {} /\ \A s \in Sessions : ~expired[s]

\* A stored offset is the end of the file only with the url.
TailInv ==
  /\ \A s \in opened : store[s] # NoState /\ store[s].nextOffset = Total => store[s].url
  /\ \A h \in Handlers : handler[h].pc = "answered" /\ handler[h].status = "incomplete"
                          => handler[h].header + 1 < Total

\* Then the request of the client is the only one; the broker's state is what a GET is
\* answered and what the next PUT starts from; and no PUT is answered with what makes the
\* client give up.
LoneRequest == \A h \in Handlers : h # client.call => handler[h] = Idle

GetInSequence ==
  client.pc = "get" /\ HasReply =>
    /\ Answer.status = 200
    /\ Answer.nextOffset = store[client.session].nextOffset
    /\ Answer.url = store[client.session].url

PutInSequence ==
  client.pc = "put" =>
    IF HasReply
    THEN /\ Answer.status \in {200, 308, 502, 503}
         /\ Answer.status = 308 =>
              /\ Answer.nextOffset = store[client.session].nextOffset
              /\ ~store[client.session].url
    ELSE /\ client.offset = store[client.session].nextOffset
         /\ ~store[client.session].url
         /\ client.call = NoCall \/ handler[client.call] = Idle
            \/ handler[client.call].state = store[client.session]

InSequence == Calm => LoneRequest /\ GetInSequence /\ PutInSequence

\* Nothing made the client lose a session, and all sessions live.
Kept == mishaps \cap {"lost", "crashed", "forgotten"} = {} /\ \A s \in Sessions : ~expired[s]

\* Then one session is opened at most, and the client or its job has it.
OneSession ==
  Kept =>
    /\ \A s \in opened, t \in opened : s = t
    /\ client.pc = "post" => opened = {}
    /\ client.pc = "idle" /\ job.status = "queued" => opened \subseteq {job.uploadId}
    /\ client.pc \in {"get", "put"} => opened \subseteq {client.session}

PublishedOpened == \A s \in Sessions : youtube[s].published => s \in opened

-----------------------------------------------------------------------------
(* What the steps do to requests *)

LEMMA CallFacts ==
  ASSUME PipelineTypeOK, ClientInv
  PROVE  /\ client \in ClientType /\ job \in JobType /\ TypeOK
         /\ client.call # NoCall => client.call \in Handlers
         /\ client.pc \in {"get", "put"} => client.session \in Sessions
         /\ client.offset \in Nat /\ client.offset <= Total
         /\ HasReply => handler[client.call] \in Replied /\ Answer \in Reply
  BY CallType, SessionAssumption
     DEF PipelineTypeOK, ClientInv, ClientType, TypeOK, HasReply, Answer, Replied, Offset

\* The chunk of a PUT is a well-formed range of the file, within the limit of the client.
LEMMA ChunkRange ==
  ASSUME PipelineTypeOK, ClientInv, client.offset < Total
  PROVE  LET length == ChunkEnd - client.offset
             header == [start |-> client.offset, end |-> ChunkEnd - 1, total |-> Total]
         IN /\ header \in ByteRange /\ length \in Length
            /\ length = header.end - header.start + 1
            /\ length <= Chunk
            /\ ParseContentRange(header) = header /\ header # NoRange
<1>1. client.offset \in Nat /\ Total \in Nat /\ Chunk \in Nat \ {0}
  BY CallFacts, SessionAssumption, PipelineAssumption
<1>2. /\ ChunkEnd \in Nat /\ client.offset < ChunkEnd /\ ChunkEnd <= Total
      /\ ChunkEnd - client.offset <= Chunk
  BY <1>1 DEF ChunkEnd
<1> DEFINE header == [start |-> client.offset, end |-> ChunkEnd - 1, total |-> Total]
<1>3. /\ header.start = client.offset /\ header.end = ChunkEnd - 1 /\ header.total = Total
      /\ header \in [start: Offset, end: Offset, total: {Total, Total + 1}]
  BY <1>1, <1>2 DEF Offset
<1> HIDE DEF header
<1>4. header \in ByteRange
  <2>1. header.start <= header.end /\ header.end < header.total
    BY <1>1, <1>2, <1>3
  <2> QED
    BY <1>3, <2>1 DEF ByteRange
<1>5. ParseContentRange(header) = header /\ header # NoRange
  BY <1>1, <1>2, <1>3 DEF ParseContentRange, NoRange
<1> QED
  BY <1>1, <1>2, <1>3, <1>4, <1>5 DEF Length, header

\* What a request is answered.
Told(h, s, status, offset, url) ==
  handler'[h] = [pc |-> "replied", session |-> s,
                 reply |-> [status |-> status, nextOffset |-> offset, url |-> url]]

\* The two sides of the pipeline: what the broker's steps leave alone, and that the client
\* only starts requests and takes replies.
LEMMA Sides ==
  ASSUME PipelineTypeOK, ClientInv, [PipelineNext]_vars
  PROVE  [Next]_sessionVars
<1>1. CASE CreateSession
  BY <1>1 DEF CreateSession, Next
<1>2. CASE SendGet
  <2>1. PICK h \in Handlers : Status(h, client.session) \/ Expired(h, client.session)
    BY <1>2 DEF SendGet
  <2>2. client.session \in Sessions
    BY <1>2, CallFacts DEF SendGet
  <2> QED
    BY <2>1, <2>2 DEF Next, Receive
<1>3. CASE SendPut
  <2> DEFINE header == [start |-> client.offset, end |-> ChunkEnd - 1, total |-> Total]
             length == ChunkEnd - client.offset
  <2>1. PICK h \in Handlers :
          \/ Expired(h, client.session) \/ AnswerChunk(h, client.session, header, length)
          \/ ForwardChunk(h, client.session, header, length)
    BY <1>3 DEF SendPut
  <2>2. client.session \in Sessions
    BY <1>3, CallFacts DEF SendPut
  <2>3. header \in ByteRange /\ length \in Length
    BY <1>3, ChunkRange DEF SendPut
  <2> HIDE DEF header, length
  <2>4. Receive(h, client.session)
    BY <2>1, <2>3 DEF Receive, Header
  <2> QED
    BY <2>2, <2>4 DEF Next
<1>4. CASE ReplyToGet \/ ReplyToPut
  <2>1. HasReply /\ Take
    BY <1>4 DEF ReplyToGet, ReplyToPut
  <2>2. client.call \in Handlers /\ Close(client.call)
    BY <2>1, CallFacts DEF HasReply, Take, Close
  <2> QED
    BY <2>2 DEF Next
<1>5. CASE \/ Begin \/ BeginFails \/ CreateFails \/ EndOfFile \/ Cancelled \/ ReadFails
           \/ NetworkError \/ ConnectionDied \/ Unavailable \/ Refused \/ Crash
  BY <1>5 DEF Begin, BeginFails, CreateFails, EndOfFile, Cancelled, ReadFails, NetworkError,
              ConnectionDied, Unavailable, Refused, NotServed, Crash
<1>6. CASE Broker \/ BrokerRestart
  BY <1>6 DEF Broker, BrokerRestart, Next
<1>7. CASE UNCHANGED vars
  BY <1>7 DEF vars
<1> QED
  BY <1>1, <1>2, <1>3, <1>4, <1>5, <1>6, <1>7 DEF PipelineNext, Client

\* A step of the broker, whatever it is, leaves the client alone and takes each request at
\* most one stage further, or ends it.
LEMMA BrokerCall ==
  ASSUME PipelineTypeOK, Broker \/ BrokerRestart
  PROVE  /\ UNCHANGED <<job, client, mishaps, opened>>
         /\ faults' \in {faults, faults + 1} /\ faults' \in 0..MaxFaults
         /\ \A s \in Sessions : expired[s] => expired'[s]
         /\ \A c \in Handlers :
              \/ handler'[c] = handler[c]
              \/ /\ handler'[c] = Idle
                 /\ c # client.call \/ handler[c].pc \in {"upstream", "answered"}
              \/ /\ handler[c].pc = "upstream" /\ handler'[c].pc = "answered"
                 /\ handler'[c].session = handler[c].session
                 /\ handler'[c].state = handler[c].state
              \/ /\ handler[c].pc = "answered" /\ handler'[c].pc = "replied"
                 /\ handler'[c].session = handler[c].session
                 /\ handler'[c].reply.status \in {200, 308, 502, 503}
                 /\ handler'[c].reply.status = 200 => handler'[c].reply.url
<1>0. /\ handler \in [Handlers -> Call] /\ faults \in 0..MaxFaults /\ MaxFaults \in Nat
      /\ expired \in [Sessions -> BOOLEAN]
  BY PipelineAssumption DEF PipelineTypeOK, TypeOK
<1>1. CASE Broker
  <2>0. UNCHANGED <<job, client, faults, mishaps>>
    BY <1>1 DEF Broker, clientVars
  <2>1. ASSUME NEW h \in Handlers, YouTubeAnswers(h) PROVE UNCHANGED <<opened, expired>>
    BY <2>1 DEF YouTubeAnswers
  <2>2. ASSUME NEW h \in Handlers, NEW c \in Handlers, YouTubeAnswers(h)
        PROVE  \/ handler'[c] = handler[c]
               \/ /\ handler[c].pc = "upstream" /\ handler'[c].pc = "answered"
                  /\ handler'[c].session = handler[c].session
                  /\ handler'[c].state = handler[c].state
    BY <1>0, <2>2 DEF YouTubeAnswers
  <2>3. ASSUME NEW h \in Handlers, Finish(h) PROVE UNCHANGED <<opened, expired>>
    BY <2>3 DEF Finish, FinishIncomplete, FinishComplete, FinishFailed
  <2>4. ASSUME NEW h \in Handlers, NEW c \in Handlers, Finish(h)
        PROVE  \/ handler'[c] = handler[c]
               \/ /\ handler[c].pc = "answered" /\ handler'[c].pc = "replied"
                  /\ handler'[c].session = handler[c].session
                  /\ handler'[c].reply.status \in {200, 308, 502, 503}
                  /\ handler'[c].reply.status = 200 => handler'[c].reply.url
    BY <1>0, <2>4 DEF Finish, FinishIncomplete, FinishComplete, FinishFailed, ReplyWith
  <2>5. ASSUME NEW h \in Handlers, NEW c \in Handlers, h # client.call, Close(h)
        PROVE  /\ \/ handler'[c] = handler[c]
                  \/ handler'[c] = Idle /\ c # client.call
               /\ UNCHANGED <<opened, expired>>
    BY <1>0, <2>5 DEF Close
  <2>6. ASSUME NEW s \in Sessions, Expire(s) \/ Alarm(s)
        PROVE  /\ UNCHANGED <<opened, handler>>
               /\ \A t \in Sessions : expired[t] => expired'[t]
    BY <1>0, <2>6 DEF Expire, Alarm
  <2> QED
    BY <1>0, <1>1, <2>0, <2>1, <2>2, <2>3, <2>4, <2>5, <2>6 DEF Broker
<1>2. CASE BrokerRestart
  <2>1. /\ UNCHANGED <<opened, expired, job, client, mishaps>>
        /\ faults' = faults + 1 /\ faults' \in 0..MaxFaults
    BY <1>0, <1>2 DEF BrokerRestart, Restart, Fault
  <2>2. \A c \in Handlers :
          \/ handler'[c] = handler[c]
          \/ handler'[c] = Idle /\ handler[c].pc \in {"upstream", "answered"}
    BY <1>0, <1>2 DEF BrokerRestart, Restart, InFlight
  <2> QED
    BY <2>1, <2>2
<1> QED
  BY <1>1, <1>2

\* An attempt ends: the job keeps a session that was opened, and is queued, settled or
\* given up.
LEMMA AttemptEnds ==
  ASSUME PipelineTypeOK, ClientInv, opened \subseteq opened',
         opened \subseteq Sessions, NEW session \in opened \cup {NoSession},
         Retry(session) \/ Settle("uploaded") \/ Settle("rejected")
  PROVE  ClientInv' /\ job' \in JobType /\ client' \in ClientType
<1>1. client' = IdleClient
  BY DEF Retry, Settle
<1>2. client' \in ClientType
  BY <1>1, SessionAssumption, PipelineAssumption DEF ClientType, IdleClient, Offset
<1>3. job \in JobType
  BY DEF PipelineTypeOK
<1>4. job' \in JobType /\ job'.uploadId \in {job.uploadId, session}
  <2>1. CASE Settle("uploaded") \/ Settle("rejected")
    BY <1>3, <2>1 DEF Settle, JobType
  <2>2. CASE Retry(session)
    <3>1. CASE job.attempts >= MaxAttempts
      BY <1>3, <2>2, <3>1 DEF Retry, JobType
    <3>2. CASE ~(job.attempts >= MaxAttempts)
      <4>1. job' = [job EXCEPT !.attempts = @ + 1, !.uploadId = session]
        BY <2>2, <3>2 DEF Retry
      <4>2. job.attempts + 1 \in 0..MaxAttempts /\ session \in Sessions \cup {NoSession}
        <5>1. job.attempts \in 0..MaxAttempts
          BY <1>3 DEF JobType
        <5> QED
          BY <3>2, <5>1, PipelineAssumption
      <4>3. job' \in JobType
        BY <1>3, <4>1, <4>2 DEF JobType
      <4>4. job'.uploadId = session
        BY <1>3, <4>1 DEF JobType
      <4> QED
        BY <4>3, <4>4
    <3> QED
      BY <3>1, <3>2
  <2> QED
    BY <2>1, <2>2
<1>5. ClientInv'
  BY <1>1, <1>4 DEF ClientInv, IdleClient, HasReply
<1> QED
  BY <1>2, <1>4, <1>5

\* The client starts a request for its session.
LEMMA RequestStarts ==
  ASSUME PipelineTypeOK, ClientInv, SendGet \/ SendPut
  PROVE  /\ client.session \in Sessions /\ client.call = NoCall
         /\ UNCHANGED <<job, faults, mishaps, store, alarm, expired, opened, youtube>>
         /\ \E h \in Handlers :
              /\ client' = [client EXCEPT !.call = h] /\ handler[h] = Idle
              /\ \A g \in Handlers \ {h} : handler'[g] = handler[g]
              /\ handler'[h].session = client.session
              /\ client.pc = "get" =>
                   \/ ~Live(client.session) /\ Told(h, client.session, 410, 0, FALSE)
                   \/ Live(client.session) /\ Told(h, client.session, 200,
                        store[client.session].nextOffset, store[client.session].url)
              /\ client.pc = "put" =>
                   \/ ~Live(client.session) /\ Told(h, client.session, 410, 0, FALSE)
                   \/ /\ handler'[h].pc = "replied"
                      /\ handler'[h].reply.status \in {400, 308, 409}
                      /\ Live(client.session)
                      /\ Decision(client.session, [start |-> client.offset,
                           end |-> ChunkEnd - 1, total |-> Total], ChunkEnd - client.offset)
                           # "accept"
                   \/ /\ handler'[h].pc = "upstream" /\ Live(client.session)
                      /\ handler'[h].state = store[client.session]
<1>0. TypeOK /\ client.session \in Sessions
  BY CallFacts DEF SendGet, SendPut
<1>1. CASE SendGet
  <2>1. PICK h \in Handlers : /\ Status(h, client.session) \/ Expired(h, client.session)
                              /\ client' = [client EXCEPT !.call = h]
    BY <1>1 DEF SendGet
  <2>2. /\ handler[h] = Idle /\ \A g \in Handlers \ {h} : handler'[g] = handler[g]
        /\ UNCHANGED <<store, alarm, expired, opened, youtube>>
        /\ \/ ~Live(client.session) /\ Told(h, client.session, 410, 0, FALSE)
           \/ Live(client.session) /\ Told(h, client.session, 200,
                store[client.session].nextOffset, store[client.session].url)
    <3>1. CASE Status(h, client.session)
      BY <1>0, <3>1 DEF Status, Told, ReplyWith, TypeOK
    <3>2. CASE Expired(h, client.session)
      BY <1>0, <3>2 DEF Expired, Told, ReplyWith, TypeOK
    <3> QED
      BY <2>1, <3>1, <3>2
  <2>3. handler'[h].session = client.session
    BY <2>2 DEF Told
  <2> QED
    BY <1>0, <1>1, <2>1, <2>2, <2>3 DEF SendGet
<1>2. CASE SendPut
  <2> DEFINE header == [start |-> client.offset, end |-> ChunkEnd - 1, total |-> Total]
             length == ChunkEnd - client.offset
             s == client.session
  <2>1. PICK h \in Handlers :
          /\ \/ Expired(h, s) \/ AnswerChunk(h, s, header, length)
             \/ ForwardChunk(h, s, header, length)
          /\ client' = [client EXCEPT !.call = h]
    BY <1>2 DEF SendPut
  <2>2. s \in Sessions
    BY <1>0
  <2> HIDE DEF header, length, s
  <2>3. /\ handler[h] = Idle /\ \A g \in Handlers \ {h} : handler'[g] = handler[g]
        /\ UNCHANGED <<store, alarm, expired, opened, youtube>>
        /\ \/ ~Live(s) /\ Told(h, s, 410, 0, FALSE)
           \/ /\ handler'[h].pc = "replied" /\ handler'[h].reply.status \in {400, 308, 409}
              /\ Live(s) /\ handler'[h].session = s /\ Decision(s, header, length) # "accept"
           \/ /\ handler'[h].pc = "upstream" /\ Live(s) /\ handler'[h].session = s
              /\ handler'[h].state = store[s]
    <3>1. CASE Expired(h, s)
      BY <1>0, <2>2, <3>1 DEF Expired, Told, ReplyWith, TypeOK
    <3>2. CASE AnswerChunk(h, s, header, length)
      BY <1>0, <2>2, <3>2 DEF AnswerChunk, ReplyWith, TypeOK
    <3>3. CASE ForwardChunk(h, s, header, length)
      BY <1>0, <2>2, <3>3 DEF ForwardChunk, TypeOK
    <3> QED
      BY <2>1, <3>1, <3>2, <3>3
  <2>4. handler'[h].session = s
    BY <2>3 DEF Told
  <2> USE DEF header, length, s
  <2>5. /\ client.pc = "put" /\ client.call = NoCall
        /\ UNCHANGED <<job, faults, mishaps>>
    BY <1>2 DEF SendPut
  <2> QED
    BY <1>0, <2>1, <2>3, <2>4, <2>5
<1> QED
  BY <1>1, <1>2

\* How the client goes on from the reply to a GET or a PUT, and from one to a GET of a
\* session that is gone.
PutClient(offset, guessed) ==
  [pc |-> "put", session |-> client.session, offset |-> offset, call |-> NoCall,
   retries |-> 0, guessed |-> guessed]
PostClient ==
  [pc |-> "post", session |-> NoSession, offset |-> client.offset, call |-> NoCall,
   retries |-> 0, guessed |-> client.guessed]

\* What a reply leads to: the end of the attempt, or another request, at the offset it
\* tells unless its body was cut off.
LEMMA ReplyTaken ==
  ASSUME PipelineTypeOK, ClientInv, ReplyToGet \/ ReplyToPut
  PROVE  /\ HasReply /\ Take /\ Answer \in Reply
         /\ client.pc \in {"get", "put"} /\ client.session \in opened
         /\ \/ Settle("uploaded") /\ Answer.url
            \/ Settle("rejected") \/ Retry(client.session)
            \/ /\ UNCHANGED job
               /\ \E offset \in Offset, guessed \in BOOLEAN :
                    /\ client' = PutClient(offset, guessed)
                    /\ guessed \/ offset \in {0, Answer.nextOffset}
                    /\ \/ "garbled" \in mishaps'
                       \/ /\ offset = Answer.nextOffset
                          /\ client.pc = "get" => ~Answer.url
                          /\ client.pc = "put" => Answer.status = 308
            \/ UNCHANGED job /\ client' = PostClient /\ client.pc = "get" /\ Answer.status = 410
<1>0. /\ client \in ClientType /\ client.offset \in Nat /\ client.offset <= Total
      /\ 0 \in Offset /\ ChunkEnd \in Offset /\ client.guessed \in BOOLEAN
  <2>1. /\ client \in ClientType /\ client.offset \in Nat /\ client.offset <= Total
    BY CallFacts
  <2> QED
    BY <2>1, SessionAssumption, PipelineAssumption DEF Offset, ChunkEnd, ClientType
<1>1. /\ HasReply /\ Take /\ Answer \in Reply
      /\ client.pc \in {"get", "put"} /\ client.session \in opened
  BY CallFacts DEF ReplyToGet, ReplyToPut, ClientInv
<1>2. Answer.nextOffset \in Offset
  BY <1>1 DEF Reply
<1>3. ASSUME NEW readable \in BOOLEAN, ReadBody(readable)
      PROVE  readable \/ "garbled" \in mishaps'
  BY <1>3 DEF ReadBody, Note
<1>4. CASE ReplyToGet
  <2>1. PICK readable \in BOOLEAN :
          /\ ReadBody(readable)
          /\ \/ Answer.url /\ Settle("uploaded")
             \/ /\ ~(readable /\ Answer.url) /\ UNCHANGED job
                /\ client' = [client EXCEPT !.pc = "put", !.call = NoCall, !.retries = 0,
                                 !.offset = IF readable THEN Answer.nextOffset ELSE 0]
             \/ /\ Answer.status = 410 /\ UNCHANGED job
                /\ client' = [client EXCEPT !.pc = "post", !.session = NoSession,
                                            !.call = NoCall, !.retries = 0]
    BY <1>4 DEF ReplyToGet
  <2>2. client.pc = "get"
    BY <1>4 DEF ReplyToGet
  <2>3. CASE /\ ~(readable /\ Answer.url) /\ UNCHANGED job
             /\ client' = [client EXCEPT !.pc = "put", !.call = NoCall, !.retries = 0,
                              !.offset = IF readable THEN Answer.nextOffset ELSE 0]
    <3> DEFINE offset == IF readable THEN Answer.nextOffset ELSE 0
    <3>1. client' = PutClient(offset, client.guessed)
      BY <1>0, <2>3 DEF ClientType, PutClient
    <3>2. offset \in Offset /\ offset \in {0, Answer.nextOffset}
      BY <1>0, <1>2
    <3>3. \/ "garbled" \in mishaps'
          \/ offset = Answer.nextOffset /\ ~Answer.url
      BY <1>3, <2>1, <2>3
    <3> HIDE DEF offset
    <3> QED
      BY <1>0, <1>1, <2>2, <2>3, <3>1, <3>2, <3>3
  <2>4. CASE /\ Answer.status = 410 /\ UNCHANGED job
             /\ client' = [client EXCEPT !.pc = "post", !.session = NoSession,
                                         !.call = NoCall, !.retries = 0]
    <3>1. client' = PostClient
      BY <1>0, <2>4 DEF ClientType, PostClient
    <3> QED
      BY <1>1, <2>2, <2>4, <3>1
  <2> QED
    BY <1>1, <2>1, <2>3, <2>4
<1>5. CASE ReplyToPut
  <2>1. PICK readable \in BOOLEAN :
          /\ ReadBody(readable)
          /\ IF Succeeds(Answer) THEN Settle(IF readable THEN "uploaded" ELSE "rejected")
             ELSE IF Answer.status = 308
             THEN /\ client' = [client EXCEPT !.offset = NextOffset(Answer, readable),
                                   !.guessed = ~readable, !.call = NoCall, !.retries = 0]
                  /\ UNCHANGED job
             ELSE IF RetryableStatus(Answer.status) THEN Retry(client.session)
             ELSE Settle("rejected")
    BY <1>5 DEF ReplyToPut
  <2>2. client.pc = "put"
    BY <1>5 DEF ReplyToPut
  <2>3. CASE Succeeds(Answer)
    <3>1. Answer.url
      BY <1>1, <2>2, <2>3 DEF ClientInv, Succeeds
    <3> QED
      BY <1>1, <2>1, <2>3, <3>1
  <2>4. CASE ~Succeeds(Answer) /\ Answer.status # 308
    BY <1>1, <2>1, <2>4
  <2>5. CASE ~Succeeds(Answer) /\ Answer.status = 308
    <3> DEFINE offset == NextOffset(Answer, readable)
               guessed == ~readable
    <3>0. /\ client' = [client EXCEPT !.offset = offset, !.guessed = guessed, !.call = NoCall,
                                      !.retries = 0]
          /\ UNCHANGED job
      BY <2>1, <2>5
    <3> HIDE DEF guessed, offset
    <3>1. client' = PutClient(offset, guessed) /\ UNCHANGED job
      BY <1>0, <2>2, <3>0 DEF ClientType, PutClient
    <3> USE DEF guessed, offset
    <3>2. offset \in Offset /\ (readable => offset = Answer.nextOffset)
      BY <1>0, <1>2 DEF NextOffset
    <3>3. readable \/ "garbled" \in mishaps'
      BY <1>3, <2>1
    <3> HIDE DEF offset
    <3>4. (~readable) \in BOOLEAN /\ (~readable \/ offset \in {0, Answer.nextOffset})
      BY <3>2
    <3>5. \/ "garbled" \in mishaps'
          \/ offset = Answer.nextOffset /\ client.pc # "get" /\ Answer.status = 308
      BY <2>2, <2>5, <3>2, <3>3
    <3> QED
      BY <1>1, <3>1, <3>2, <3>4, <3>5
  <2> QED
    BY <2>3, <2>4, <2>5
<1> QED
  BY <1>4, <1>5

\* What went wrong stays on record, and faults are counted up to their bound.
LEMMA HistoryGrows ==
  ASSUME PipelineTypeOK, [PipelineNext]_vars
  PROVE  /\ mishaps \subseteq mishaps' /\ mishaps' \subseteq Mishap
         /\ faults' \in 0..MaxFaults
<1>0. faults \in 0..MaxFaults /\ mishaps \subseteq Mishap
  BY DEF PipelineTypeOK
<1>1. ASSUME Fault PROVE faults' \in 0..MaxFaults
  BY <1>0, <1>1, PipelineAssumption DEF Fault
<1>2. ASSUME NEW mishap \in Mishap, Note(mishap)
      PROVE  mishaps \subseteq mishaps' /\ mishaps' \subseteq Mishap
  BY <1>0, <1>2 DEF Note
<1>3. CASE \/ Begin \/ SendGet \/ SendPut \/ EndOfFile \/ Cancelled \/ ConnectionDied
           \/ Unavailable
  BY <1>0, <1>1, <1>3
     DEF Begin, SendGet, SendPut, EndOfFile, Cancelled, ConnectionDied, Unavailable
<1>4. CASE BeginFails \/ CreateFails \/ ReadFails \/ Refused
  <2>1. faults' = faults
    BY <1>4 DEF BeginFails, CreateFails, ReadFails, Refused
  <2>2. UNCHANGED mishaps \/ Note("unable") \/ Note("forgotten") \/ Note("refused")
    BY <1>4 DEF BeginFails, CreateFails, ReadFails, Refused
  <2> QED
    BY <1>0, <1>2, <2>1, <2>2 DEF Mishap
<1>5. CASE CreateSession
  <2>1. \/ UNCHANGED <<faults, mishaps>>
        \/ Fault /\ (Note("lost") \/ Note("garbled"))
    BY <1>5 DEF CreateSession
  <2> QED
    BY <1>0, <1>1, <1>2, <2>1 DEF Mishap
<1>6. CASE ReplyToGet \/ ReplyToPut
  <2>1. \E readable \in BOOLEAN : ReadBody(readable)
    BY <1>6 DEF ReplyToGet, ReplyToPut
  <2>2. UNCHANGED <<faults, mishaps>> \/ (Fault /\ Note("garbled"))
    BY <2>1 DEF ReadBody
  <2> QED
    BY <1>0, <1>1, <1>2, <2>2 DEF Mishap
<1>7. CASE NetworkError \/ Crash
  <2>1. Fault
    BY <1>7 DEF NetworkError, Crash
  <2>2. \E new \in SUBSET {"lost", "crashed"} : mishaps' = mishaps \cup new
    <3>1. CASE NetworkError
      BY <3>1 DEF NetworkError, LoseReply
    <3>2. CASE Crash
      BY <3>2 DEF Crash
    <3> QED
      BY <1>7, <3>1, <3>2
  <2> QED
    BY <1>0, <1>1, <2>1, <2>2 DEF Mishap
<1>8. CASE Broker \/ BrokerRestart
  BY <1>0, <1>8, BrokerCall
<1>9. CASE UNCHANGED vars
  BY <1>0, <1>9 DEF vars, clientVars
<1> QED
  BY <1>3, <1>4, <1>5, <1>6, <1>7, <1>8, <1>9 DEF PipelineNext, Client

-----------------------------------------------------------------------------
(* The client goes with its session *)

\* Types and ClientInv go over every step, and a session that was opened stays so.
LEMMA ClientStep ==
  ASSUME PipelineTypeOK, ClientInv, [PipelineNext]_vars
  PROVE  PipelineTypeOK' /\ ClientInv' /\ opened \subseteq opened'
<1> DEFINE Goal == PipelineTypeOK' /\ ClientInv' /\ opened \subseteq opened'
<1> SUFFICES Goal
  OBVIOUS
<1>0. /\ TypeOK' /\ opened \subseteq Sessions /\ client \in ClientType /\ job \in JobType
      /\ handler \in [Handlers -> Call]
      /\ faults' \in 0..MaxFaults /\ mishaps' \subseteq Mishap
      /\ 0 \in 0..NetworkRetries /\ 0 \in Offset /\ NoCall \notin Handlers
      /\ NoSession \notin Sessions
  BY Sides, TypeStep, CallFacts, HistoryGrows, PipelineAssumption, SessionAssumption
     DEF PipelineTypeOK, TypeOK, Offset
<1>1. ASSUME opened \subseteq opened', client' \in ClientType, job' \in JobType, ClientInv'
      PROVE  Goal
  BY <1>0, <1>1 DEF PipelineTypeOK
<1>2. ASSUME NEW session \in opened \cup {NoSession},
             Retry(session) \/ Settle("uploaded") \/ Settle("rejected"),
             opened \subseteq opened'
      PROVE  Goal
  BY <1>0, <1>1, <1>2, AttemptEnds
<1>4. CASE Begin
  <2>1. /\ client' = [IdleClient EXCEPT !.pc = IF job.uploadId = NoSession THEN "post" ELSE "get",
                                        !.session = job.uploadId]
        /\ UNCHANGED <<sessionVars, job>>
        /\ job.status = "queued"
    BY <1>4 DEF Begin, Picked
  <2>2. /\ client' = [pc |-> IF job.uploadId = NoSession THEN "post" ELSE "get",
                      session |-> job.uploadId, offset |-> 0, call |-> NoCall, retries |-> 0,
                      guessed |-> FALSE]
        /\ job.uploadId \in Sessions \cup {NoSession}
    BY <1>0, <2>1 DEF IdleClient, JobType
  <2>3. client' \in ClientType
    BY <1>0, <2>2 DEF ClientType
  <2>4. /\ client'.pc \in {"get", "post"} /\ client'.call = NoCall
        /\ client'.pc = "get" => client'.session # NoSession /\ client'.session = job.uploadId
    BY <2>2
  <2>5. ClientInv'
    BY <2>1, <2>4 DEF ClientInv, HasReply, sessionVars
  <2> QED
    BY <1>0, <1>1, <2>1, <2>3, <2>5 DEF sessionVars
<1>5. CASE CreateSession
  <2>1. PICK s \in Sessions :
          /\ Initialize(s) /\ client.pc = "post"
          /\ \/ /\ client' = [client EXCEPT !.pc = "put", !.session = s, !.offset = 0]
                /\ UNCHANGED job
             \/ Retry(NoSession) \/ Settle("rejected")
    BY <1>5 DEF CreateSession
  <2>2. opened' = opened \cup {s} /\ UNCHANGED handler
    BY <2>1 DEF Initialize
  <2>3. CASE /\ client' = [client EXCEPT !.pc = "put", !.session = s, !.offset = 0]
             /\ UNCHANGED job
    <3>1. /\ client' = [pc |-> "put", session |-> s, offset |-> 0, call |-> client.call,
                        retries |-> client.retries, guessed |-> client.guessed]
          /\ client.call = NoCall
      BY <1>0, <2>1, <2>3 DEF ClientType, ClientInv
    <3>2. client' \in ClientType
      BY <1>0, <3>1 DEF ClientType
    <3>3. ClientInv'
      BY <2>1, <2>2, <2>3, <3>1 DEF ClientInv, HasReply
    <3> QED
      BY <1>1, <2>2, <2>3, <3>2, <3>3, <1>0
  <2> QED
    BY <1>2, <2>1, <2>2, <2>3
<1>6. CASE BeginFails \/ CreateFails
  BY <1>2, <1>6 DEF BeginFails, CreateFails, sessionVars
<1>7. CASE SendGet \/ SendPut
  <2>1. PICK h \in Handlers :
          /\ client' = [client EXCEPT !.call = h]
          /\ handler'[h].session = client.session
          /\ client.pc = "get" => handler'[h].pc = "replied"
          /\ client.pc = "put" => \/ handler'[h].pc = "upstream"
                                  \/ handler'[h].reply.status # 200
    BY <1>7, RequestStarts DEF Told
  <2>2. /\ UNCHANGED <<job, opened>>
        /\ client.pc \in {"get", "put"}
    BY <1>7, RequestStarts DEF SendGet, SendPut
  <2>3. /\ client' \in ClientType /\ client'.call = h /\ client'.pc = client.pc
        /\ client'.session = client.session
    BY <1>0, <2>1 DEF ClientType
  <2>4. ClientInv'
    BY <2>1, <2>2, <2>3 DEF ClientInv, HasReply, Answer
  <2> QED
    BY <1>0, <1>1, <2>2, <2>3, <2>4
<1>8. CASE EndOfFile \/ Cancelled \/ ReadFails \/ Unavailable \/ Refused
  <2>1. client.session \in opened
    BY <1>8 DEF EndOfFile, Cancelled, ReadFails, AtChunk, Unavailable, Refused, NotServed, ClientInv
  <2>2. UNCHANGED opened /\ (Retry(client.session) \/ Settle("rejected"))
    BY <1>8 DEF EndOfFile, Cancelled, ReadFails, Unavailable, Refused, NotServed, sessionVars
  <2> QED
    BY <1>2, <2>1, <2>2
<1>9. CASE ReplyToGet \/ ReplyToPut
  <2>0. client.session \in opened /\ UNCHANGED opened
    BY <1>9, ReplyTaken DEF Take
  <2>1. CASE Retry(client.session) \/ Settle("uploaded") \/ Settle("rejected")
    BY <1>2, <2>0, <2>1
  <2>2. CASE /\ UNCHANGED job
             /\ \E offset \in Offset, guessed \in BOOLEAN :
                  client' = PutClient(offset, guessed)
    <3>1. /\ client' \in ClientType /\ client'.call = NoCall /\ client'.pc = "put"
          /\ client'.session = client.session
      BY <1>0, <2>0, <2>2 DEF ClientType, PutClient
    <3>2. ClientInv'
      BY <1>9, <2>0, <2>2, <3>1, ReplyTaken DEF ClientInv, HasReply
    <3> QED
      BY <1>0, <1>1, <2>0, <2>2, <3>1, <3>2
  <2>3. CASE UNCHANGED job /\ client' = PostClient
    <3>1. client' \in ClientType /\ client'.call = NoCall /\ client'.pc = "post"
      BY <1>0, <2>3 DEF ClientType, PostClient
    <3>2. ClientInv'
      BY <1>9, <2>0, <2>3, <3>1, ReplyTaken DEF ClientInv, HasReply
    <3> QED
      BY <1>0, <1>1, <2>0, <2>3, <3>1, <3>2
  <2> QED
    BY <1>9, <2>1, <2>2, <2>3, ReplyTaken
<1>10. CASE NetworkError \/ ConnectionDied
  <2>1. /\ Resend /\ client.session \in opened /\ client.pc \in {"get", "put"}
        /\ UNCHANGED <<opened, handler>>
    <3>1. client.pc \in {"idle", "get", "post", "put"}
      BY <1>0 DEF ClientType
    <3> QED
      BY <1>10, <3>1 DEF NetworkError, ConnectionDied, ClientInv, sessionVars
  <2>2. CASE Retry(client.session)
    BY <1>0, <1>2, <2>1, <2>2
  <2>3. CASE /\ client.retries < NetworkRetries /\ UNCHANGED job
             /\ client' = [client EXCEPT !.call = NoCall, !.retries = @ + 1]
    <3>1. client.retries + 1 \in 0..NetworkRetries
      <4>1. client.retries \in 0..NetworkRetries
        BY <1>0 DEF ClientType
      <4> QED
        BY <2>3, <4>1, PipelineAssumption
    <3>2. /\ client' \in ClientType /\ client'.call = NoCall /\ client'.pc = client.pc
          /\ client'.session = client.session
      BY <1>0, <2>3, <3>1 DEF ClientType
    <3>3. ClientInv'
      BY <2>1, <2>3, <3>2 DEF ClientInv, HasReply
    <3> QED
      BY <1>0, <1>1, <2>1, <2>3, <3>2, <3>3
  <2> QED
    BY <2>1, <2>2, <2>3 DEF Resend
<1>11. CASE Crash
  <2>1. client' = IdleClient /\ UNCHANGED <<job, opened, handler>>
    BY <1>11 DEF Crash, sessionVars
  <2>2. client' \in ClientType
    BY <1>0, <2>1 DEF ClientType, IdleClient
  <2>3. ClientInv'
    BY <2>1 DEF ClientInv, IdleClient, HasReply
  <2> QED
    BY <1>0, <1>1, <2>1, <2>2, <2>3
<1>12. CASE Broker \/ BrokerRestart
  <2>1. UNCHANGED <<job, client, opened>>
    BY <1>12, BrokerCall
  <2>2. ClientInv'
    <3>1. CASE client.call = NoCall
      BY <2>1, <3>1 DEF ClientInv, HasReply
    <3>2. CASE client.call \in Handlers
      <4>1. \/ handler'[client.call] = handler[client.call]
            \/ handler'[client.call] = Idle
            \/ /\ handler[client.call].pc = "upstream" /\ handler'[client.call].pc = "answered"
               /\ handler'[client.call].session = handler[client.call].session
            \/ /\ handler[client.call].pc = "answered" /\ handler'[client.call].pc = "replied"
               /\ handler'[client.call].session = handler[client.call].session
               /\ handler'[client.call].reply.status = 200 => handler'[client.call].reply.url
        BY <1>12, <3>2, BrokerCall
      <4> QED
        BY <2>1, <4>1 DEF ClientInv, HasReply, Answer, Idle
    <3> QED
      BY <1>0, <3>1, <3>2 DEF ClientType
  <2> QED
    BY <1>0, <1>1, <2>1, <2>2
<1>13. CASE UNCHANGED vars
  <2>1. ClientInv'
    BY <1>13 DEF vars, clientVars, sessionVars, ClientInv, HasReply, Answer
  <2> QED
    BY <1>0, <1>1, <1>13, <2>1 DEF vars, clientVars, sessionVars
<1> QED
  BY <1>4, <1>5, <1>6, <1>7, <1>8, <1>9, <1>10, <1>11, <1>12, <1>13 DEF PipelineNext, Client

-----------------------------------------------------------------------------
(* The broker of the pipeline *)

LEMMA PipelineStarts ==
  PipelineInit => PipelineTypeOK /\ ClientInv
<1> SUFFICES ASSUME PipelineInit PROVE PipelineTypeOK /\ ClientInv
  OBVIOUS
<1>1. TypeOK /\ opened = {}
  BY SessionAssumption DEF PipelineInit, SessionInit, TypeOK, Call, Idle, State, Offset
<1>2. 0 \in 0..MaxAttempts /\ 0 \in 0..MaxFaults /\ 0 \in 0..NetworkRetries /\ 0 \in Offset
  BY SessionAssumption, PipelineAssumption DEF Offset
<1>3. job \in JobType
  BY <1>2 DEF PipelineInit, JobType
<1>4. client \in ClientType
  BY <1>2 DEF PipelineInit, ClientType, IdleClient
<1>5. ClientInv
  BY DEF PipelineInit, ClientInv, IdleClient, HasReply
<1> QED
  BY <1>1, <1>2, <1>3, <1>4, <1>5 DEF PipelineInit, PipelineTypeOK

\* Every reachable state of the pipeline is well typed; in particular a job is tried no more
\* than MaxAttempts times and a request repeated no more than NetworkRetries times, and the
\* client keeps to the sessions that were opened (UploadQueue.cpp:68-78).
THEOREM PipelineTypeCorrect == PipelineSpec => [](PipelineTypeOK /\ ClientInv)
<1>1. PipelineTypeOK /\ ClientInv /\ [PipelineNext]_vars => PipelineTypeOK' /\ ClientInv'
  BY ClientStep
<1> QED
  BY <1>1, PipelineStarts, PTL DEF PipelineSpec

\* Whatever the client does, the broker sees requests that its sessions are specified for:
\* the pipeline implements UploadSession, and all that is proved of it holds in the
\* pipeline.
THEOREM PipelineImplementsSessions == PipelineSpec => Spec
<1>1. PipelineInit => SessionInit
  BY DEF PipelineInit
<1>2. PipelineTypeOK /\ ClientInv /\ [PipelineNext]_vars => [Next]_sessionVars
  BY Sides
<1> QED
  BY <1>1, <1>2, PipelineTypeCorrect, PTL DEF PipelineSpec, Spec

\* YouTube only gains: what is stored stays, and so does the video.
LEMMA YouTubeGains ==
  ASSUME TypeOK, StoreOK, [Next]_sessionVars, NEW s \in Sessions
  PROVE  /\ youtube[s].stored <= youtube'[s].stored
         /\ youtube[s].published => youtube'[s].published
         /\ youtube[s].stored \in Nat /\ youtube'[s].stored \in Nat
<1>0. TypeOK' /\ youtube[s].stored \in Offset /\ youtube[s].stored \in Nat
  BY TypeStep, SessionAssumption DEF TypeOK, Offset
<1>1. youtube'[s].stored \in Nat
  BY <1>0, SessionAssumption DEF TypeOK, Offset
<1>2. ASSUME NEW h \in Handlers, YouTubeAnswers(h)
      PROVE  /\ youtube[s].stored <= youtube'[s].stored
             /\ youtube[s].published => youtube'[s].published
  <2>1. PICK n \in StorableBy(handler[h].range, youtube[handler[h].session].stored) :
          youtube' = [youtube EXCEPT ![handler[h].session] =
                        [stored |-> n, published |-> n = Total]]
    BY <1>2 DEF YouTubeAnswers
  <2>2. CASE s = handler[h].session
    <3>1. n \in Offset /\ n >= youtube[s].stored
      BY <2>1, <2>2 DEF StorableBy
    <3>2. youtube'[s].stored = n /\ (youtube'[s].published <=> n = Total)
      BY <2>1, <2>2 DEF TypeOK
    <3>3. youtube[s].published => youtube[s].stored = Total
      BY DEF StoreOK
    <3> QED
      BY <1>0, <3>1, <3>2, <3>3, SessionAssumption DEF Offset
  <2>3. CASE s # handler[h].session
    BY <1>0, <2>1, <2>3 DEF TypeOK
  <2> QED
    BY <2>2, <2>3
<1>3. CASE UNCHANGED youtube
  BY <1>0, <1>3
<1>4. (\E h \in Handlers : YouTubeAnswers(h)) \/ UNCHANGED youtube
  <2>1. ASSUME NEW t \in Sessions, Initialize(t) \/ Expire(t) \/ Alarm(t) \/ Restart(t)
        PROVE  UNCHANGED youtube
    BY <2>1 DEF Initialize, Expire, Alarm, Restart
  <2>2. ASSUME NEW h \in Handlers, NEW t \in Sessions, Receive(h, t)
        PROVE  UNCHANGED youtube
    BY <2>2 DEF Receive, Expired, Status, Cancel, AnswerChunk, ForwardChunk
  <2>3. ASSUME NEW h \in Handlers, Finish(h) \/ Close(h) PROVE UNCHANGED youtube
    BY <2>3 DEF Finish, FinishIncomplete, FinishComplete, FinishFailed, Close
  <2> QED
    BY <2>1, <2>2, <2>3 DEF Next, sessionVars
<1> QED
  BY <1>0, <1>1, <1>2, <1>3, <1>4

-----------------------------------------------------------------------------
(* The client's offset *)

\* How the client comes to a PUT: its offset is the old one, or the start of the file, or
\* what the broker has answered, or its own count.
LEMMA OffsetMoves ==
  ASSUME PipelineTypeOK, ClientInv, [PipelineNext]_vars, client'.pc = "put"
  PROVE  \/ /\ client.pc = "put" /\ client'.session = client.session
            /\ client'.offset = client.offset /\ client'.guessed = client.guessed
         \/ /\ HasReply /\ client'.session = client.session /\ UNCHANGED youtube
            /\ client'.offset = Answer.nextOffset
         \/ client'.offset = 0 /\ client'.session \in Sessions
         \/ client'.guessed
<1>0. client \in ClientType
  BY CallFacts
<1>1. \A session : Retry(session) \/ Settle("uploaded") \/ Settle("rejected") => client'.pc = "idle"
  <2>1. IdleClient.pc = "idle"
    BY DEF IdleClient
  <2> QED
    BY <2>1 DEF Retry, Settle
<1>2. CASE Begin \/ Crash
  <2>1. CASE Crash
    BY <2>1 DEF Crash, IdleClient
  <2>2. CASE Begin
    <3>1. client'.pc = IF job.uploadId = NoSession THEN "post" ELSE "get"
      BY <2>2 DEF Begin, IdleClient
    <3> QED
      BY <3>1
  <2> QED
    BY <1>2, <2>1, <2>2
<1>3. CASE CreateSession
  BY <1>0, <1>1, <1>3 DEF CreateSession, ClientType
<1>4. CASE \/ BeginFails \/ CreateFails \/ EndOfFile \/ Cancelled \/ ReadFails
           \/ Unavailable \/ Refused
  BY <1>1, <1>4 DEF BeginFails, CreateFails, EndOfFile, Cancelled, ReadFails, Unavailable, Refused
<1>5. CASE SendGet \/ SendPut
  BY <1>0, <1>5, RequestStarts DEF ClientType
<1>6. CASE ReplyToGet \/ ReplyToPut
  <2>1. /\ HasReply /\ UNCHANGED youtube /\ client.session \in Sessions
    BY <1>6, ReplyTaken, CallFacts DEF Take
  <2>2. PostClient.pc = "post"
    BY DEF PostClient
  <2>3. PICK offset \in Offset, guessed \in BOOLEAN :
          /\ client' = PutClient(offset, guessed)
          /\ guessed \/ offset \in {0, Answer.nextOffset}
    BY <1>1, <1>6, <2>2, ReplyTaken
  <2>4. /\ client'.session = client.session /\ client'.offset = offset
        /\ client'.guessed = guessed
    BY <2>3 DEF PutClient
  <2> QED
    BY <2>1, <2>3, <2>4
<1>8. CASE NetworkError \/ ConnectionDied
  <2>1. Resend
    BY <1>8 DEF NetworkError, ConnectionDied
  <2> QED
    BY <1>0, <1>1, <2>1 DEF Resend, ClientType
<1>9. CASE Broker \/ BrokerRestart
  BY <1>9, BrokerCall
<1>10. CASE UNCHANGED vars
  BY <1>10 DEF vars, clientVars
<1> QED
  BY <1>2, <1>3, <1>4, <1>5, <1>6, <1>8, <1>9, <1>10 DEF PipelineNext, Client

\* The client never goes on behind a byte that YouTube lacks, whatever was lost, cut, retried
\* or overlapped, unless it had to count by itself after a 308 without a readable offset;
\* provided that YouTube stores some of every chunk it answers with 308
\* (BrokerUploader.cpp:164-165, 198).
THEOREM ClientIsNotAhead ==
  ASSUME MayStoreNothing = FALSE
  PROVE  PipelineSpec => []ClientNotAhead
<1>1. PipelineInit => ClientNotAhead
  BY DEF PipelineInit, IdleClient, ClientNotAhead
<1>2. PipelineTypeOK /\ ClientInv /\ NeverAhead /\ ClientNotAhead /\ [PipelineNext]_vars
        => ClientNotAhead'
  <2> SUFFICES ASSUME PipelineTypeOK, ClientInv, NeverAhead, ClientNotAhead,
                      [PipelineNext]_vars, client'.pc = "put", ~client'.guessed
               PROVE  client'.offset <= youtube'[client'.session].stored
    BY DEF ClientNotAhead
  <2>1. TypeOK /\ StoreOK /\ CallsOK /\ [Next]_sessionVars /\ client.offset \in Nat
    BY Sides, CallFacts DEF NeverAhead
  <2>2. CASE /\ client.pc = "put" /\ client'.session = client.session
             /\ client'.offset = client.offset /\ client'.guessed = client.guessed
    <3>1. client.session \in Sessions /\ client.offset <= youtube[client.session].stored
      BY <2>2, CallFacts DEF ClientNotAhead
    <3> QED
      BY <2>1, <2>2, <3>1, YouTubeGains
  <2>3. CASE /\ HasReply /\ client'.session = client.session /\ UNCHANGED youtube
             /\ client'.offset = Answer.nextOffset
    <3>1. /\ client.call \in Handlers /\ handler[client.call].pc = "replied"
          /\ handler[client.call].session = client.session
      BY <2>3, CallFacts DEF HasReply, ClientInv, Idle
    <3>2. Answer.nextOffset <= youtube[client.session].stored
      BY <2>1, <3>1 DEF CallsOK, CallOK, StateOK, Answer, Idle
    <3> QED
      BY <2>3, <3>2
  <2>4. CASE client'.offset = 0 /\ client'.session \in Sessions
    <3>1. youtube'[client'.session].stored \in Nat
      BY <2>1, <2>4, YouTubeGains
    <3> QED
      BY <2>4, <3>1
  <2> QED
    BY <2>2, <2>3, <2>4, OffsetMoves
<1> QED
  BY <1>1, <1>2, PipelineTypeCorrect, PipelineImplementsSessions, NeverAheadInvariant, PTL
     DEF PipelineSpec

-----------------------------------------------------------------------------
(* The ledger *)

\* The job is settled once, as uploaded only when its video exists, and by a step that
\* leaves YouTube alone.
LEMMA StatusMoves ==
  ASSUME PipelineTypeOK, ClientInv, NeverAhead, [PipelineNext]_vars
  PROVE  \/ job'.status = job.status
         \/ /\ job.status = "queued" /\ UNCHANGED youtube
            /\ \/ job'.status \in {"rejected", "gave up"}
               \/ /\ job'.status = "uploaded" /\ client.session \in Sessions
                  /\ youtube[client.session].published
<1>0. job \in JobType /\ (client.pc # "idle" => job.status = "queued")
  BY CallFacts DEF ClientInv
<1>1. \A session : Retry(session) => job'.status = job.status \/ job'.status = "gave up"
  BY <1>0 DEF Retry, JobType
<1>2. \A status : Settle(status) => job'.status = status
  BY <1>0 DEF Settle, JobType
<1>3. CASE Begin \/ Crash \/ Broker \/ BrokerRestart
  BY <1>3, BrokerCall DEF Begin, Crash
<1>4. CASE BeginFails \/ CreateSession \/ CreateFails
  <2>1. job.status = "queued" /\ UNCHANGED youtube
    BY <1>0, <1>4 DEF BeginFails, Picked, CreateSession, CreateFails, Initialize, sessionVars
  <2>2. job' = job \/ Retry(NoSession) \/ Settle("rejected")
    BY <1>4 DEF BeginFails, CreateSession, CreateFails
  <2> QED
    BY <1>1, <1>2, <2>1, <2>2
<1>5. CASE SendGet \/ SendPut
  BY <1>5, RequestStarts
<1>6. CASE \/ EndOfFile \/ Cancelled \/ ReadFails \/ Unavailable \/ Refused
           \/ NetworkError \/ ConnectionDied
  <2>1. client.pc # "idle" /\ UNCHANGED youtube
    BY <1>6 DEF EndOfFile, Cancelled, ReadFails, AtChunk, Unavailable, Refused, NotServed,
                NetworkError, ConnectionDied, sessionVars, ClientInv
  <2>2. job' = job \/ Retry(client.session) \/ Settle("rejected")
    BY <1>6 DEF EndOfFile, Cancelled, ReadFails, Unavailable, Refused, NetworkError,
                ConnectionDied, Resend
  <2> QED
    BY <1>0, <1>1, <1>2, <2>1, <2>2
<1>7. CASE ReplyToGet \/ ReplyToPut
  <2>1. /\ HasReply /\ client.pc \in {"get", "put"} /\ UNCHANGED youtube
        /\ client.session \in Sessions
    BY <1>7, ReplyTaken, CallFacts DEF Take
  <2>2. \/ job' = job \/ Retry(client.session) \/ Settle("rejected")
        \/ Settle("uploaded") /\ Answer.url
    BY <1>7, ReplyTaken
  <2>3. Answer.url => youtube[client.session].published
    <3>1. /\ client.call \in Handlers /\ handler[client.call].pc = "replied"
          /\ handler[client.call].session = client.session
      BY <2>1, CallFacts DEF HasReply, ClientInv, Idle
    <3> QED
      BY <3>1 DEF NeverAhead, CallsOK, CallOK, StateOK, Answer, Idle
  <2> QED
    BY <1>0, <1>1, <1>2, <2>1, <2>2, <2>3
<1>8. CASE UNCHANGED vars
  BY <1>8 DEF vars, clientVars
<1> QED
  BY <1>3, <1>4, <1>5, <1>6, <1>7, <1>8 DEF PipelineNext, Client

\* Seen from outside, every step of client, broker and YouTube is a step of the ledger of
\* one recording, or none.
THEOREM PipelineImplementsLedger == PipelineSpec => PipelineLedgerSpec
<1>1. PipelineTypeOK /\ ClientInv /\ NeverAhead /\ [PipelineNext]_vars =>
        [PipelineLedger!Next]_<<job.status, Published>>
  <2> SUFFICES ASSUME PipelineTypeOK, ClientInv, NeverAhead, [PipelineNext]_vars,
                      <<job.status, Published>>' # <<job.status, Published>>
               PROVE  PipelineLedger!Next
    OBVIOUS
  <2>1. TypeOK /\ StoreOK /\ [Next]_sessionVars /\ job \in JobType
    BY Sides, CallFacts DEF NeverAhead
  <2>2. Published \subseteq Published'
    BY <2>1, YouTubeGains DEF Published
  <2>3. CASE job'.status = job.status
    <3>1. Published' # Published
      BY <2>3
    <3>2. PipelineLedger!Publish("recording")
      BY <2>1, <2>2, <2>3, <3>1 DEF PipelineLedger!Publish, JobType
    <3> QED
      BY <3>2 DEF PipelineLedger!Next
  <2>4. CASE /\ job.status = "queued" /\ UNCHANGED youtube
             /\ job'.status \in {"rejected", "gave up"}
    <3>1. Published' = Published
      BY <2>4 DEF Published
    <3>2. PipelineLedger!Settle("recording")
      BY <2>4, <3>1 DEF PipelineLedger!Settle
    <3> QED
      BY <3>2 DEF PipelineLedger!Next
  <2>5. CASE /\ job.status = "queued" /\ UNCHANGED youtube /\ job'.status = "uploaded"
             /\ client.session \in Sessions /\ youtube[client.session].published
    <3>1. Published' = Published /\ Published # {}
      BY <2>5 DEF Published
    <3>2. PipelineLedger!Settle("recording")
      BY <2>5, <3>1 DEF PipelineLedger!Settle
    <3> QED
      BY <3>2 DEF PipelineLedger!Next
  <2> QED
    BY <2>3, <2>4, <2>5, StatusMoves
<1> QED
  BY <1>1, PipelineTypeCorrect, PipelineImplementsSessions, NeverAheadInvariant, PTL
     DEF PipelineSpec, PipelineLedgerSpec

-----------------------------------------------------------------------------
(* Why a job is rejected *)

\* The steps of the client other than the two that start a request: none is outstanding
\* after them.
ClientMoves ==
  \/ Begin \/ BeginFails \/ CreateSession \/ CreateFails \/ EndOfFile \/ Cancelled
  \/ ReadFails \/ ReplyToGet \/ ReplyToPut \/ NetworkError \/ ConnectionDied \/ Unavailable
  \/ Refused \/ Crash

LEMMA NoRequestLeft ==
  ASSUME PipelineTypeOK, ClientInv,
         ClientMoves
  PROVE  client'.call = NoCall
<1>0. client \in ClientType /\ IdleClient.call = NoCall
  BY CallFacts DEF IdleClient
<1>1. \A session : Retry(session) \/ Settle("uploaded") \/ Settle("rejected") =>
        client'.call = NoCall
  BY <1>0 DEF Retry, Settle
<1>2. CASE Begin
  BY <1>2 DEF Begin, IdleClient
<1>3. CASE CreateSession
  BY <1>0, <1>1, <1>3 DEF CreateSession, ClientType, ClientInv
<1>4. CASE \/ BeginFails \/ CreateFails \/ EndOfFile \/ Cancelled \/ ReadFails
           \/ Unavailable \/ Refused \/ Crash
  BY <1>0, <1>1, <1>4
     DEF BeginFails, CreateFails, EndOfFile, Cancelled, ReadFails, Unavailable, Refused, Crash
<1>5. CASE NetworkError \/ ConnectionDied
  <2>1. Resend
    BY <1>5 DEF NetworkError, ConnectionDied
  <2> QED
    BY <1>0, <1>1, <2>1 DEF Resend, ClientType
<1>6. CASE ReplyToGet \/ ReplyToPut
  <2>1. /\ PostClient.call = NoCall
        /\ \A offset, guessed : PutClient(offset, guessed).call = NoCall
    BY DEF PostClient, PutClient
  <2> QED
    BY <1>1, <1>6, <2>1, ReplyTaken
<1> QED
  BY <1>2, <1>3, <1>4, <1>5, <1>6 DEF ClientMoves

\* The steps of the broker but for the end of a PUT write no state, except that of a
\* session that has expired, and answer nothing.
LEMMA QuietBroker ==
  ASSUME PipelineTypeOK, Broker \/ BrokerRestart, ~\E h \in Handlers : Finish(h)
  PROVE  /\ \A s \in Sessions : store'[s] = store[s] \/ expired[s]
         /\ \A c \in Handlers :
              \/ handler'[c] = handler[c]
              \/ /\ handler'[c] = Idle
                 /\ c # client.call \/ handler[c].pc \in {"upstream", "answered"}
              \/ /\ handler[c].pc = "upstream" /\ handler'[c].pc = "answered"
                 /\ handler'[c].state = handler[c].state
<1>0. handler \in [Handlers -> Call] /\ store \in [Sessions -> State \cup {NoState}]
  BY DEF PipelineTypeOK, TypeOK
<1>1. ASSUME NEW h \in Handlers, YouTubeAnswers(h)
      PROVE  /\ UNCHANGED store
             /\ \A c \in Handlers :
                  \/ handler'[c] = handler[c]
                  \/ /\ handler[c].pc = "upstream" /\ handler'[c].pc = "answered"
                     /\ handler'[c].state = handler[c].state
  BY <1>0, <1>1 DEF YouTubeAnswers
<1>2. ASSUME NEW h \in Handlers, h # client.call, Close(h)
      PROVE  /\ UNCHANGED store
             /\ \A c \in Handlers : \/ handler'[c] = handler[c]
                                    \/ handler'[c] = Idle /\ c # client.call
  BY <1>0, <1>2 DEF Close
<1>3. ASSUME NEW s \in Sessions, Expire(s) \/ Alarm(s)
      PROVE  UNCHANGED handler /\ \A t \in Sessions : store'[t] = store[t] \/ expired[t]
  BY <1>0, <1>3 DEF Expire, Alarm
<1>4. ASSUME NEW s \in Sessions, Restart(s)
      PROVE  /\ UNCHANGED store
             /\ \A c \in Handlers :
                  \/ handler'[c] = handler[c]
                  \/ handler'[c] = Idle /\ handler[c].pc \in {"upstream", "answered"}
  BY <1>0, <1>4 DEF Restart, InFlight
<1> QED
  BY <1>1, <1>2, <1>3, <1>4 DEF Broker, BrokerRestart

\* A session that is opened, or complete, has a state.
LEMMA WrittenState ==
  /\ [nextOffset |-> 0, url |-> FALSE] \in State
  /\ [nextOffset |-> 0, url |-> FALSE] # NoState
  /\ [nextOffset |-> Total, url |-> TRUE] # NoState
<1>1. 0 \in Offset /\ Total \in Offset
  BY SessionAssumption DEF Offset
<1>2. /\ [nextOffset |-> 0, url |-> FALSE] \in State
      /\ [nextOffset |-> Total, url |-> TRUE] \in State
  BY <1>1 DEF State
<1> QED
  BY <1>2, SessionAssumption

\* What the end of a PUT writes and answers.
LEMMA PutEnds ==
  ASSUME PipelineTypeOK, NEW h \in Handlers, Finish(h)
  PROVE  /\ handler[h] \in Answered /\ handler[h].session \in Sessions
         /\ handler[h].pc = "answered" /\ handler'[h].pc = "replied"
         /\ \A s \in Sessions \ {handler[h].session} : store'[s] = store[s]
         /\ \/ /\ FinishComplete(h) /\ handler'[h].reply.status = 200
               /\ store'[handler[h].session] = [nextOffset |-> Total, url |-> TRUE]
               /\ store'[handler[h].session] # NoState
            \/ /\ FinishFailed(h) /\ handler'[h].reply.status \in {502, 503}
               /\ UNCHANGED store
            \/ /\ FinishIncomplete(h) /\ handler'[h].reply.status = 308
               /\ handler[h].status = "incomplete"
               /\ LET offset == NextOffsetFromRange(handler[h].header, handler[h].range.end + 1)
                  IN /\ store'[handler[h].session].nextOffset = offset
                     /\ store'[handler[h].session].url = handler[h].state.url
                     /\ store'[handler[h].session] # NoState
                     /\ handler'[h].reply.nextOffset = offset
<1>1. TypeOK /\ TypeOK'
  <2>1. [Next]_sessionVars /\ TypeOK
    BY DEF Next, PipelineTypeOK
  <2> QED
    BY <2>1, TypeStep
<1>2. /\ handler[h] \in Answered /\ handler[h].session \in Sessions
      /\ handler[h].pc = "answered"
  BY <1>1, CallType DEF Finish, FinishIncomplete, FinishComplete, FinishFailed, Answered
<1> PICK s \in Sessions : s = handler[h].session
  BY <1>2
<1>3. CASE FinishComplete(h)
  BY <1>1, <1>2, <1>3, WrittenState DEF FinishComplete, ReplyWith, TypeOK
<1>4. CASE FinishFailed(h)
  BY <1>1, <1>2, <1>4 DEF FinishFailed, ReplyWith, TypeOK
<1>5. CASE FinishIncomplete(h)
  <2> DEFINE offset == NextOffsetFromRange(handler[h].header, handler[h].range.end + 1)
             st == [handler[h].state EXCEPT !.nextOffset = offset]
  <2>1. /\ store' = [store EXCEPT ![s] = st] /\ ReplyWith(h, s, 308, offset, FALSE)
        /\ handler[h].status = "incomplete"
    BY <1>5 DEF FinishIncomplete
  <2>2. handler[h].state \in State
    BY <1>2 DEF Answered
  <2>3. st.nextOffset = offset /\ st.url = handler[h].state.url
    BY <2>2 DEF State
  <2> HIDE DEF offset, st
  <2>4. /\ handler'[h].pc = "replied" /\ handler'[h].reply.status = 308
        /\ handler'[h].reply.nextOffset = offset
    BY <1>1, <2>1 DEF ReplyWith, TypeOK
  <2>5. store'[s] = st /\ \A t \in Sessions \ {s} : store'[t] = store[t]
    BY <1>1, <2>1 DEF TypeOK
  <2>6. store'[s] # NoState
    <3>1. h \in Handlers /\ offset \in Offset
      BY <1>2, SessionAssumption
         DEF Answered, Accepted, ByteRange, Offset, NextOffsetFromRange, NoHeader, offset
    <3>2. st \in State
      BY <2>2, <3>1 DEF State, st
    <3> QED
      BY <2>5, <3>2, SessionAssumption
  <2> USE DEF offset
  <2> QED
    BY <1>2, <1>5, <2>1, <2>3, <2>4, <2>5, <2>6
<1> QED
  BY <1>3, <1>4, <1>5 DEF Finish

\* What they do to the broker: a session may be opened, a reply is taken.
LEMMA ClientMovesBroker ==
  ASSUME PipelineTypeOK, ClientInv, ClientMoves
  PROVE  /\ UNCHANGED <<expired, youtube>> /\ opened \subseteq opened'
         /\ \/ UNCHANGED <<store, opened>>
            \/ \E s \in Sessions :
                 /\ CreateSession /\ opened' = opened \cup {s}
                 /\ store' = [store EXCEPT ![s] = [nextOffset |-> 0, url |-> FALSE]]
         /\ \/ UNCHANGED handler
            \/ /\ (ReplyToGet \/ ReplyToPut) /\ HasReply
               /\ handler' = [handler EXCEPT ![client.call] = Idle]
<1>1. CASE CreateSession
  BY <1>1 DEF CreateSession, Initialize
<1>2. CASE ReplyToGet \/ ReplyToPut
  BY <1>2 DEF ReplyToGet, ReplyToPut, Take
<1>3. CASE \/ Begin \/ BeginFails \/ CreateFails \/ EndOfFile \/ Cancelled \/ ReadFails
           \/ NetworkError \/ ConnectionDied \/ Unavailable \/ Refused \/ Crash
  BY <1>3 DEF Begin, BeginFails, CreateFails, EndOfFile, Cancelled, ReadFails, NetworkError,
              ConnectionDied, Unavailable, Refused, NotServed, Crash, sessionVars
<1> QED
  BY <1>1, <1>2, <1>3 DEF ClientMoves

\* What went wrong stays on record: if nothing that matters has by now, nothing had before.
LEMMA HistoryStays ==
  ASSUME PipelineTypeOK, ClientInv, [PipelineNext]_vars
  PROVE  /\ mishaps \subseteq mishaps'
         /\ \A s \in Sessions : expired[s] => expired'[s]
         /\ Calm' => Calm
         /\ Kept' => Kept
<1>1. mishaps \subseteq mishaps'
  BY HistoryGrows
<1>2. \A s \in Sessions : expired[s] => expired'[s]
  <2>1. CASE ClientMoves
    BY <2>1, ClientMovesBroker
  <2>2. CASE SendGet \/ SendPut
    BY <2>2, RequestStarts
  <2>3. CASE Broker \/ BrokerRestart
    BY <2>3, BrokerCall
  <2>4. CASE UNCHANGED vars
    BY <2>4 DEF vars, sessionVars
  <2> QED
    BY <2>1, <2>2, <2>3, <2>4 DEF PipelineNext, Client, ClientMoves
<1> QED
  BY <1>1, <1>2 DEF Calm, Kept

\* Sessions that have not expired keep their state.
LEMMA AliveStep ==
  ASSUME PipelineTypeOK, ClientInv, AliveInv, [PipelineNext]_vars
  PROVE  AliveInv'
<1> SUFFICES ASSUME \A s \in Sessions : ~expired'[s]
             PROVE  /\ \A s \in opened' : store'[s] # NoState
                    /\ client'.pc \in {"get", "put"} /\ HasReply' => Answer'.status # 410
  BY DEF AliveInv
<1>1. /\ \A s \in Sessions : ~expired[s]
      /\ \A s \in opened : store[s] # NoState
      /\ client.pc \in {"get", "put"} /\ HasReply => Answer.status # 410
  BY HistoryStays DEF AliveInv
<1>2. /\ opened \subseteq Sessions /\ store \in [Sessions -> State \cup {NoState}]
      /\ client \in ClientType
  BY CallFacts DEF TypeOK
<1>3. CASE ClientMoves
  <2>1. ~HasReply'
    BY <1>3, NoRequestLeft DEF HasReply
  <2>2. ASSUME NEW s \in Sessions, opened' = opened \cup {s},
               store' = [store EXCEPT ![s] = [nextOffset |-> 0, url |-> FALSE]]
        PROVE  \A t \in opened' : store'[t] # NoState
    BY <1>1, <1>2, <2>2, WrittenState
  <2> QED
    BY <1>1, <1>3, <2>1, <2>2, ClientMovesBroker
<1>4. CASE SendGet \/ SendPut
  <2>1. PICK h \in Handlers :
          /\ client' = [client EXCEPT !.call = h]
          /\ ~Live(client.session) \/ handler'[h].pc = "upstream"
             \/ handler'[h].reply.status # 410
    BY <1>4, RequestStarts DEF Told, SendGet, SendPut
  <2>2. UNCHANGED <<store, opened>> /\ client'.call = h
    BY <1>2, <1>4, <2>1, RequestStarts DEF ClientType
  <2>3. Live(client.session)
    BY <1>1, <1>4, CallFacts DEF ClientInv, Live, SendGet, SendPut
  <2> QED
    BY <1>1, <2>1, <2>2, <2>3 DEF HasReply, Answer
<1>5. CASE Broker \/ BrokerRestart
  <2>1. UNCHANGED <<client, opened>>
    BY <1>5, BrokerCall
  <2>2. ASSUME NEW s \in opened PROVE store'[s] # NoState
    <3>1. CASE \E h \in Handlers : Finish(h)
      BY <1>1, <1>2, <3>1, PutEnds
    <3>2. CASE ~\E h \in Handlers : Finish(h)
      BY <1>1, <1>2, <1>5, <3>2, QuietBroker
    <3> QED
      BY <3>1, <3>2
  <2>3. ASSUME client.pc \in {"get", "put"}, HasReply' PROVE Answer'.status # 410
    <3>1. client.call \in Handlers /\ handler'[client.call].pc = "replied"
      BY <1>2, <2>1, <2>3 DEF ClientType, HasReply
    <3>2. \/ handler'[client.call] = handler[client.call]
          \/ handler'[client.call].reply.status \in {200, 308, 502, 503}
      BY <1>5, <3>1, BrokerCall DEF Idle
    <3> QED
      BY <1>1, <2>1, <2>3, <3>1, <3>2 DEF HasReply, Answer
  <2> QED
    BY <2>1, <2>2, <2>3
<1>6. CASE UNCHANGED vars
  BY <1>1, <1>6 DEF vars, sessionVars, clientVars, HasReply, Answer
<1> QED
  BY <1>3, <1>4, <1>5, <1>6 DEF PipelineNext, Client, ClientMoves

\* An answer of YouTube that is not the end of the file is taken for what it is.
LEMMA TailStep ==
  ASSUME MayStoreNothing = FALSE, PipelineTypeOK, ClientInv, NeverAhead, TailInv,
         [PipelineNext]_vars
  PROVE  TailInv'
<1>0. /\ opened \subseteq Sessions /\ store \in [Sessions -> State \cup {NoState}]
      /\ handler \in [Handlers -> Call] /\ TypeOK' /\ Total \in Nat \ {0}
  BY Sides, TypeStep, SessionAssumption, CallFacts DEF TypeOK
<1>1. ASSUME NEW h \in Handlers,
             handler'[h].pc = "answered" /\ handler'[h].status = "incomplete"
      PROVE  handler'[h].header + 1 < Total
  <2>1. CASE handler'[h] = handler[h]
    BY <1>1, <2>1 DEF TailInv
  <2>2. CASE YouTubeAnswers(h)
    <3>1. PICK n \in Offset, status \in {"complete", "incomplete", "refused", "failed"} :
            /\ status = "incomplete" => n < Total
            /\ handler' = [handler EXCEPT ![h] =
                 [pc |-> "answered", session |-> handler[h].session,
                  range |-> handler[h].range, state |-> handler[h].state, status |-> status,
                  header |-> IF status = "incomplete" THEN n - 1 ELSE NoHeader]]
      BY <2>2 DEF YouTubeAnswers, StorableBy
    <3>2. /\ handler'[h].status = status
          /\ handler'[h].header = IF status = "incomplete" THEN n - 1 ELSE NoHeader
      BY <1>0, <3>1
    <3> QED
      BY <1>0, <1>1, <3>1, <3>2 DEF Offset
  <2>3. handler'[h] = handler[h] \/ YouTubeAnswers(h)
    <3>1. CASE ClientMoves
      BY <1>0, <1>1, <3>1, ClientMovesBroker DEF Idle
    <3>2. CASE SendGet \/ SendPut
      BY <1>1, <3>2, RequestStarts DEF Told, SendGet, SendPut
    <3>3. CASE Broker \/ BrokerRestart
      <4>1. ASSUME NEW g \in Handlers, YouTubeAnswers(g), g # h
            PROVE  handler'[h] = handler[h]
        BY <1>0, <4>1 DEF YouTubeAnswers
      <4>2. ASSUME NEW g \in Handlers, Finish(g)
            PROVE  handler'[h] = handler[h]
        BY <1>0, <1>1, <4>2, PutEnds
           DEF Finish, FinishIncomplete, FinishComplete, FinishFailed, ReplyWith
      <4>3. ASSUME NEW g \in Handlers, Close(g)
            PROVE  handler'[h] = handler[h]
        BY <1>0, <1>1, <4>3 DEF Close, Idle
      <4>4. ASSUME NEW s \in Sessions, Expire(s) \/ Alarm(s) \/ Restart(s)
            PROVE  handler'[h] = handler[h]
        BY <1>0, <1>1, <4>4 DEF Expire, Alarm, Restart, Idle
      <4> QED
        BY <3>3, <4>1, <4>2, <4>3, <4>4 DEF Broker, BrokerRestart
    <3>4. CASE UNCHANGED vars
      BY <3>4 DEF vars, sessionVars
    <3> QED
      BY <3>1, <3>2, <3>3, <3>4 DEF PipelineNext, Client, ClientMoves
  <2> QED
    BY <2>1, <2>2, <2>3
<1>2. ASSUME NEW s \in opened', store'[s] # NoState, store'[s].nextOffset = Total
      PROVE  store'[s].url
  <2>1. CASE s \in opened /\ store'[s] = store[s]
    BY <1>2, <2>1 DEF TailInv
  <2>2. CASE ClientMoves
    <3>1. ASSUME NEW t \in Sessions, opened' = opened \cup {t},
                 store' = [store EXCEPT ![t] = [nextOffset |-> 0, url |-> FALSE]]
          PROVE  s \in opened /\ store'[s] = store[s]
      <4>1. s # t
        BY <1>0, <1>2, <3>1
      <4> QED
        BY <1>0, <1>2, <3>1, <4>1
    <3> QED
      BY <2>1, <2>2, <3>1, <1>2, ClientMovesBroker
  <2>3. CASE SendGet \/ SendPut
    BY <1>2, <2>1, <2>3, RequestStarts
  <2>4. CASE Broker \/ BrokerRestart
    <3>0. s \in opened /\ s \in Sessions
      BY <1>0, <1>2, <2>4, BrokerCall
    <3>1. ASSUME NEW h \in Handlers, Finish(h) PROVE store'[s].url
      <4>1. CASE store'[s] = store[s]
        BY <2>1, <3>0, <4>1
      <4>2. CASE s = handler[h].session /\ FinishComplete(h)
        <5>1. store'[s] = [nextOffset |-> Total, url |-> TRUE]
          BY <3>1, <4>2, PutEnds DEF FinishComplete, FinishIncomplete, FinishFailed
        <5> QED
          BY <5>1
      <4>3. CASE s = handler[h].session /\ FinishIncomplete(h)
        <5>1. /\ handler[h] \in Answered /\ handler[h].status = "incomplete"
              /\ store'[s].nextOffset =
                   NextOffsetFromRange(handler[h].header, handler[h].range.end + 1)
              /\ handler[h].pc = "answered"
          BY <3>1, <4>3, PutEnds DEF FinishComplete, FinishIncomplete, FinishFailed
        <5>2. handler[h].header # NoHeader
          BY <5>1 DEF NeverAhead, CallsOK, CallOK, Idle
        <5>3. handler[h].header + 1 < Total
          BY <5>1 DEF TailInv
        <5>4. handler[h].header \in Int
          BY <1>0, <5>1 DEF Answered
        <5> QED
          BY <1>0, <1>2, <5>1, <5>2, <5>3, <5>4 DEF NextOffsetFromRange
      <4>4. store'[s] = store[s] \/ s = handler[h].session
        BY <3>0, <3>1, PutEnds
      <4>5. CASE FinishFailed(h)
        BY <4>1, <4>5 DEF FinishFailed
      <4> QED
        BY <3>1, <4>1, <4>2, <4>3, <4>4, <4>5 DEF Finish
    <3>2. CASE ~\E h \in Handlers : Finish(h)
      <4>1. \/ UNCHANGED store
            \/ \E t \in Sessions : store' = [store EXCEPT ![t] = NoState]
        BY <2>4, <3>2
           DEF Broker, BrokerRestart, YouTubeAnswers, Close, Expire, Alarm, Restart
      <4>2. store'[s] = store[s]
        BY <1>0, <1>2, <3>0, <4>1
      <4> QED
        BY <2>1, <3>0, <4>2
    <3> QED
      BY <3>1, <3>2
  <2>5. CASE UNCHANGED vars
    BY <1>2, <2>1, <2>5 DEF vars, sessionVars
  <2> QED
    BY <2>2, <2>3, <2>4, <2>5 DEF PipelineNext, Client, ClientMoves
<1> QED
  BY <1>1, <1>2 DEF TailInv

\* The next chunk of a client that is in sequence is accepted.
LEMMA NextChunkAccepted ==
  ASSUME Chunk <= MaxChunk, PipelineTypeOK, ClientInv, client.offset < Total,
         client.offset = store[client.session].nextOffset
  PROVE  Decision(client.session, [start |-> client.offset, end |-> ChunkEnd - 1,
                                   total |-> Total], ChunkEnd - client.offset) = "accept"
<1> DEFINE header == [start |-> client.offset, end |-> ChunkEnd - 1, total |-> Total]
           length == ChunkEnd - client.offset
<1>1. header.start = client.offset /\ header.end = ChunkEnd - 1 /\ header.total = Total
  OBVIOUS
<1>2. /\ ParseContentRange(header) = header /\ header # NoRange
      /\ length = header.end - header.start + 1 /\ length <= Chunk /\ length \in Nat
  BY ChunkRange, SessionAssumption DEF Length
<1> HIDE DEF header, length
<1>3. length <= MaxChunk /\ ~(length > MaxChunk)
  BY <1>2, SessionAssumption, PipelineAssumption
<1>4. client.offset \in Nat /\ ~(client.offset < client.offset) /\ ~(client.offset > client.offset)
  BY CallFacts
<1>5. Decision(client.session, header, length) = "accept"
  BY <1>1, <1>2, <1>3, <1>4 DEF Decision, ClassifyChunk
<1> QED
  BY <1>5 DEF header, length

\* After a step that leaves no request outstanding there is none, and the client goes on
\* with the broker's state.
LEMMA SequenceKept ==
  ASSUME PipelineTypeOK, ClientInv, InSequence, ClientMoves, Calm, Calm'
  PROVE  LoneRequest' /\ GetInSequence' /\ PutInSequence'
<1>0. /\ client'.call = NoCall /\ NoCall \notin Handlers /\ client \in ClientType
      /\ client.call # NoCall => client.call \in Handlers
      /\ handler \in [Handlers -> Call] /\ store \in [Sessions -> State \cup {NoState}]
      /\ LoneRequest /\ GetInSequence /\ PutInSequence
  BY NoRequestLeft, PipelineAssumption, CallFacts DEF InSequence, TypeOK
<1>1. ~HasReply'
  BY <1>0 DEF HasReply
<1>2. GetInSequence'
  BY <1>1 DEF GetInSequence
<1>3. LoneRequest'
  <2>1. CASE ReplyToGet \/ ReplyToPut
    BY <1>0, <2>1, ReplyTaken DEF LoneRequest, Take, HasReply
  <2>2. CASE ~(ReplyToGet \/ ReplyToPut)
    <3>1. UNCHANGED handler
      BY <2>2, ClientMovesBroker
    <3>2. client.call = NoCall \/ handler[client.call] = Idle
      <4>1. CASE NetworkError \/ Crash
        BY <4>1 DEF NetworkError, LoseReply, Crash, Calm
      <4>2. CASE ConnectionDied
        BY <4>2 DEF ConnectionDied
      <4>3. CASE Begin \/ BeginFails \/ CreateSession \/ CreateFails
        BY <4>3 DEF Begin, BeginFails, Picked, CreateSession, CreateFails, ClientInv
      <4>4. CASE EndOfFile \/ Cancelled \/ ReadFails \/ Unavailable \/ Refused
        BY <4>4 DEF EndOfFile, Cancelled, ReadFails, AtChunk, Unavailable, Refused, NotServed
      <4> QED
        BY <2>2, <4>1, <4>2, <4>3, <4>4 DEF ClientMoves
    <3> QED
      BY <1>0, <3>1, <3>2 DEF LoneRequest
  <2> QED
    BY <2>1, <2>2
<1>4. PutInSequence'
  <2> SUFFICES ASSUME client'.pc = "put"
               PROVE  /\ client'.offset = store'[client'.session].nextOffset
                      /\ ~store'[client'.session].url
    BY <1>0, <1>1 DEF PutInSequence
  <2>0. \A session : Retry(session) \/ Settle("uploaded") \/ Settle("rejected")
                       => client'.pc = "idle"
    <3>1. IdleClient.pc = "idle"
      BY DEF IdleClient
    <3> QED
      BY <3>1 DEF Retry, Settle
  <2>1. CASE CreateSession
    <3>1. PICK s \in Sessions :
            /\ store' = [store EXCEPT ![s] = [nextOffset |-> 0, url |-> FALSE]]
            /\ client' = [client EXCEPT !.pc = "put", !.session = s, !.offset = 0]
      BY <2>0, <2>1 DEF CreateSession, Initialize
    <3>2. client'.session = s /\ client'.offset = 0
      BY <1>0, <3>1 DEF ClientType
    <3>3. store'[s] = [nextOffset |-> 0, url |-> FALSE]
      BY <1>0, <3>1
    <3> QED
      BY <3>2, <3>3
  <2>2. CASE ReplyToGet \/ ReplyToPut
    <3>1. /\ HasReply /\ UNCHANGED store /\ client.pc \in {"get", "put"}
          /\ "garbled" \notin mishaps' /\ PostClient.pc = "post"
      BY <2>2, ReplyTaken DEF Take, Calm, PostClient
    <3>2. PICK offset \in Offset, guessed \in BOOLEAN :
            /\ client' = PutClient(offset, guessed) /\ offset = Answer.nextOffset
            /\ client.pc = "get" => ~Answer.url
            /\ client.pc = "put" => Answer.status = 308
      BY <2>0, <2>2, <3>1, ReplyTaken
    <3>3. client'.session = client.session /\ client'.offset = Answer.nextOffset
      BY <3>2 DEF PutClient
    <3>4. CASE client.pc = "get"
      BY <1>0, <3>1, <3>2, <3>3, <3>4 DEF GetInSequence
    <3>5. CASE client.pc = "put"
      BY <1>0, <3>1, <3>2, <3>3, <3>5 DEF PutInSequence
    <3> QED
      BY <3>1, <3>4, <3>5
  <2>4. CASE NetworkError \/ ConnectionDied
    <3>1. Resend /\ UNCHANGED store
      BY <2>4 DEF NetworkError, ConnectionDied, sessionVars
    <3>2. client' = [client EXCEPT !.call = NoCall, !.retries = @ + 1]
      BY <2>0, <3>1 DEF Resend
    <3>3. /\ client'.session = client.session /\ client'.offset = client.offset
          /\ client.pc = "put"
      BY <1>0, <3>2 DEF ClientType
    <3>4. ~HasReply
      <4>1. Idle.pc = "idle"
        BY DEF Idle
      <4> QED
        BY <2>4, <4>1 DEF NetworkError, LoseReply, ConnectionDied, Calm, HasReply
    <3> QED
      BY <1>0, <3>1, <3>3, <3>4 DEF PutInSequence
  <2>5. CASE \/ BeginFails \/ CreateFails \/ EndOfFile \/ Cancelled \/ ReadFails
             \/ Unavailable \/ Refused
    BY <2>0, <2>5 DEF BeginFails, CreateFails, EndOfFile, Cancelled, ReadFails, Unavailable,
                      Refused
  <2>6. CASE Crash
    BY <2>6 DEF Crash, IdleClient
  <2>7. CASE Begin
    <3>1. client'.pc = IF job.uploadId = NoSession THEN "post" ELSE "get"
      BY <2>7 DEF Begin, IdleClient
    <3> QED
      BY <3>1
  <2> QED
    BY <2>1, <2>2, <2>4, <2>5, <2>6, <2>7 DEF ClientMoves
<1> QED
  BY <1>2, <1>3, <1>4

\* As long as nothing is lost and no session expires, client and broker stay in sequence.
LEMMA InSequenceStep ==
  ASSUME Chunk <= MaxChunk, PipelineTypeOK, ClientInv, AliveInv, InSequence,
         [PipelineNext]_vars
  PROVE  InSequence'
<1> SUFFICES ASSUME Calm' PROVE LoneRequest' /\ GetInSequence' /\ PutInSequence'
  BY DEF InSequence
<1>0. /\ Calm /\ LoneRequest /\ GetInSequence /\ PutInSequence
      /\ client \in ClientType /\ handler \in [Handlers -> Call] /\ NoCall \notin Handlers
      /\ client.call # NoCall => client.call \in Handlers
      /\ Idle.pc = "idle"
  BY HistoryStays, CallFacts, PipelineAssumption DEF InSequence, TypeOK, Idle
<1>1. CASE ClientMoves
  BY <1>0, <1>1, SequenceKept
<1>2. CASE SendGet \/ SendPut
  <2>1. /\ client.session \in Sessions /\ client.call = NoCall /\ UNCHANGED store
        /\ client.session \in opened /\ ~HasReply
    BY <1>2, RequestStarts DEF SendGet, SendPut, ClientInv, HasReply
  <2>2. Live(client.session)
    BY <1>0, <2>1 DEF AliveInv, Calm, Live
  <2>3. PICK h \in Handlers :
          /\ client' = [client EXCEPT !.call = h]
          /\ \A g \in Handlers \ {h} : handler'[g] = handler[g]
          /\ client.pc = "get" => Told(h, client.session, 200,
                store[client.session].nextOffset, store[client.session].url)
          /\ client.pc = "put" =>
               \/ Decision(client.session, [start |-> client.offset, end |-> ChunkEnd - 1,
                                total |-> Total], ChunkEnd - client.offset) # "accept"
               \/ /\ handler'[h].pc = "upstream"
                  /\ handler'[h].state = store[client.session]
    BY <1>2, <2>2, RequestStarts
  <2>4. /\ client'.call = h /\ client'.pc = client.pc /\ client'.session = client.session
        /\ client'.offset = client.offset
    BY <1>0, <2>3 DEF ClientType
  <2>5. LoneRequest'
    BY <1>0, <2>1, <2>3, <2>4 DEF LoneRequest
  <2>6. GetInSequence'
    BY <2>1, <2>3, <2>4 DEF GetInSequence, Told, Answer
  <2>7. ASSUME client.pc = "put"
        PROVE  /\ client.offset = store[client.session].nextOffset
               /\ ~store[client.session].url
               /\ handler'[h].pc = "upstream" /\ handler'[h].state = store[client.session]
    <3>1. client.offset = store[client.session].nextOffset /\ ~store[client.session].url
      BY <1>0, <2>1, <2>7 DEF PutInSequence
    <3>2. client.offset < Total
      BY <1>2, <2>7 DEF SendGet, SendPut
    <3> QED
      BY <2>3, <2>7, <3>1, <3>2, NextChunkAccepted
  <2>8. PutInSequence'
    BY <2>1, <2>4, <2>7 DEF PutInSequence, HasReply
  <2> QED
    BY <2>5, <2>6, <2>8
<1>3. CASE Broker \/ BrokerRestart
  <2>0. UNCHANGED <<client, opened>>
    BY <1>3, BrokerCall
  <2>1. LoneRequest'
    BY <1>0, <1>3, <2>0, BrokerCall DEF LoneRequest
  <2>2. CASE \E h \in Handlers : Finish(h)
    <3>1. PICK h \in Handlers : Finish(h)
      BY <2>2
    <3>2. h = client.call
      <4>1. handler[h].pc = "answered"
        BY <3>1, PutEnds
      <4> QED
        BY <1>0, <4>1 DEF LoneRequest
    <3>3. /\ client.pc = "put" /\ ~HasReply
          /\ handler[h].session = client.session
          /\ handler[h].state = store[client.session]
          /\ ~store[client.session].url
      <4>1. handler[h].pc = "answered" /\ handler[h] # Idle
        BY <1>0, <3>1, PutEnds
      <4>2. client.pc = "put" /\ ~HasReply
        BY <1>0, <3>2, <4>1 DEF ClientInv, ClientType, HasReply
      <4>3. client.call # NoCall
        BY <1>0, <3>2
      <4> QED
        BY <1>0, <3>2, <4>1, <4>2, <4>3 DEF ClientInv, PutInSequence
    <3>4. HasReply'
      BY <1>0, <2>0, <3>1, <3>2, PutEnds DEF HasReply
    <3>5. /\ Answer'.status \in {200, 308, 502, 503}
          /\ Answer'.status = 308 =>
               /\ Answer'.nextOffset = store'[client.session].nextOffset
               /\ ~store'[client.session].url
      <4>1. Answer' = handler'[h].reply
        BY <2>0, <3>2 DEF Answer
      <4> QED
        BY <3>1, <3>3, <4>1, PutEnds
    <3> QED
      BY <2>0, <2>1, <3>3, <3>4, <3>5 DEF GetInSequence, PutInSequence
  <2>3. CASE ~\E h \in Handlers : Finish(h)
    <3>1. client.pc \in {"get", "put"} => store'[client.session] = store[client.session]
      BY <1>0, <1>3, <2>3, QuietBroker, CallFacts DEF Calm
    <3>2. ASSUME client.call # NoCall
          PROVE  \/ handler'[client.call] = handler[client.call]
                 \/ /\ handler'[client.call] = Idle
                    /\ handler[client.call].pc \in {"upstream", "answered"}
                 \/ /\ handler[client.call].pc = "upstream"
                    /\ handler'[client.call].pc = "answered"
                    /\ handler'[client.call].state = handler[client.call].state
      BY <1>0, <1>3, <2>3, <3>2, QuietBroker
    <3>3. /\ HasReply' <=> HasReply
          /\ HasReply => Answer' = Answer
      BY <1>0, <2>0, <3>2 DEF HasReply, Answer
    <3>4. GetInSequence'
      BY <1>0, <2>0, <3>1, <3>3 DEF GetInSequence
    <3>5. PutInSequence'
      <4>1. CASE client.pc = "put" /\ HasReply
        BY <1>0, <2>0, <3>1, <3>3, <4>1 DEF PutInSequence
      <4>2. CASE client.pc = "put" /\ ~HasReply
        BY <1>0, <2>0, <3>1, <3>2, <3>3, <4>2 DEF PutInSequence
      <4> QED
        BY <2>0, <4>1, <4>2 DEF PutInSequence
    <3> QED
      BY <2>1, <3>4, <3>5
  <2> QED
    BY <2>2, <2>3
<1>4. CASE UNCHANGED vars
  BY <1>0, <1>4 DEF vars, sessionVars, clientVars, LoneRequest, GetInSequence, PutInSequence,
                    HasReply, Answer
<1> QED
  BY <1>1, <1>2, <1>3, <1>4 DEF PipelineNext, Client, ClientMoves

\* The rejections that are recorded as such: the broker refused a request for good, the
\* client could not go on, or a reply came without its body.
Reasons == {"refused", "unable", "garbled"}

\* A job becomes rejected for one of these, when the file ends without a url, or when a PUT
\* is answered with what is not retried.
LEMMA RejectionMoves ==
  ASSUME PipelineTypeOK, ClientInv, [PipelineNext]_vars,
         job.status # "rejected", job'.status = "rejected"
  PROVE  \/ mishaps' \cap Reasons # {}
         \/ client.pc = "put" /\ client.call = NoCall /\ client.offset >= Total
         \/ client.pc = "put" /\ HasReply /\ Answer.status \notin {200, 308, 502, 503}
<1>0. job \in JobType
  BY CallFacts
<1>1. /\ \A session : ~Retry(session)
      /\ ~Settle("uploaded")
      /\ ~UNCHANGED job
  BY <1>0 DEF Retry, Settle, JobType
<1>2. CASE BeginFails \/ CreateSession \/ CreateFails \/ ReadFails \/ Refused
  <2>1. Note("unable") \/ Note("garbled") \/ Note("refused")
    BY <1>1, <1>2 DEF BeginFails, CreateSession, CreateFails, ReadFails, Refused
  <2> QED
    BY <2>1 DEF Note, Reasons
<1>3. CASE SendGet \/ SendPut
  BY <1>1, <1>3, RequestStarts
<1>4. CASE Broker \/ BrokerRestart
  BY <1>1, <1>4, BrokerCall
<1>5. CASE EndOfFile
  BY <1>5 DEF EndOfFile
<1>6. CASE ReplyToPut
  <2>1. client.pc = "put" /\ HasReply
    BY <1>6 DEF ReplyToPut
  <2>2. PICK readable \in BOOLEAN :
          /\ ReadBody(readable)
          /\ \/ Answer.status = 200 /\ ~readable
             \/ Answer.status # 200 /\ Answer.status # 308 /\ ~RetryableStatus(Answer.status)
    BY <1>1, <1>6 DEF ReplyToPut, Succeeds
  <2>3. CASE Answer.status = 200 /\ ~readable
    BY <2>2, <2>3 DEF ReadBody, Note, Reasons
  <2>4. CASE Answer.status # 200 /\ Answer.status # 308 /\ ~RetryableStatus(Answer.status)
    BY <2>1, <2>4 DEF RetryableStatus
  <2> QED
    BY <2>2, <2>3, <2>4
<1>7. CASE Begin \/ Cancelled \/ NetworkError \/ ConnectionDied \/ Unavailable \/ Crash
  BY <1>1, <1>7 DEF Begin, Cancelled, NetworkError, ConnectionDied, Unavailable, Crash, Resend
<1>9. CASE ReplyToGet
  BY <1>1, <1>9 DEF ReplyToGet
<1>8. CASE UNCHANGED vars
  BY <1>1, <1>8 DEF vars, clientVars
<1> QED
  BY <1>2, <1>3, <1>4, <1>5, <1>6, <1>7, <1>8, <1>9 DEF PipelineNext, Client

SequenceInv == AliveInv /\ TailInv /\ InSequence /\ RejectionExplained

\* A job is dropped as rejected only for a reason: the broker refused a request for good, the
\* client could not go on by itself, a session expired, or a reply got lost or came without
\* its body; without those the loop never ends without a url and no chunk is out of sequence,
\* however often requests fail, the broker restarts and the worker crashes.  The
\* client's chunks must be within the broker's limit: 1 MiB (BrokerUploader.cpp:180) and
\* 8 MiB (protocol.ts:26).
THEOREM RejectionsAreExplained ==
  ASSUME MayStoreNothing = FALSE, Chunk <= MaxChunk
  PROVE  PipelineSpec => []RejectionExplained
<1>1. PipelineInit => SequenceInv
  <2> SUFFICES ASSUME PipelineInit PROVE SequenceInv
    OBVIOUS
  <2>1. /\ opened = {} /\ client.pc = "idle" /\ client.call = NoCall /\ ~HasReply
        /\ job.status = "queued"
        /\ \A h \in Handlers : handler[h] = Idle /\ handler[h].pc = "idle"
    BY DEF PipelineInit, SessionInit, IdleClient, HasReply, Idle
  <2> QED
    BY <2>1 DEF SequenceInv, AliveInv, TailInv, InSequence, LoneRequest, GetInSequence,
                PutInSequence, RejectionExplained
<1>2. PipelineTypeOK /\ ClientInv /\ NeverAhead /\ SequenceInv /\ [PipelineNext]_vars
        => SequenceInv'
  <2> SUFFICES ASSUME PipelineTypeOK, ClientInv, NeverAhead, SequenceInv, [PipelineNext]_vars
               PROVE  SequenceInv'
    OBVIOUS
  <2>1. AliveInv' /\ TailInv' /\ InSequence'
    BY AliveStep, TailStep, InSequenceStep DEF SequenceInv
  <2>2. RejectionExplained'
    <3> SUFFICES ASSUME job'.status = "rejected", Calm',
                        mishaps' \cap {"refused", "unable"} = {}
                 PROVE  FALSE
      BY DEF RejectionExplained, SomeExpired, Calm
    <3>0. mishaps' \cap Reasons = {}
      BY DEF Calm, Reasons
    <3>1. Calm /\ job.status # "rejected"
      BY HistoryStays DEF SequenceInv, RejectionExplained, SomeExpired, Calm
    <3>2. PutInSequence /\ AliveInv /\ TailInv
      BY <3>1 DEF SequenceInv, InSequence
    <3>3. CASE client.pc = "put" /\ client.call = NoCall /\ client.offset >= Total
      <4>1. client.offset = store[client.session].nextOffset /\ ~store[client.session].url
        BY <3>2, <3>3 DEF PutInSequence, HasReply
      <4>2. client.offset = Total
        BY <3>3, CallFacts, SessionAssumption
      <4>3. client.session \in opened /\ store[client.session] # NoState
        BY <3>1, <3>2, <3>3 DEF ClientInv, AliveInv, Calm
      <4> QED
        BY <3>2, <4>1, <4>2, <4>3 DEF TailInv
    <3>4. CASE client.pc = "put" /\ HasReply /\ Answer.status \notin {200, 308, 502, 503}
      BY <3>2, <3>4 DEF PutInSequence
    <3> QED
      BY <3>0, <3>1, <3>3, <3>4, RejectionMoves
  <2> QED
    BY <2>1, <2>2 DEF SequenceInv
<1>3. SequenceInv => RejectionExplained
  BY DEF SequenceInv
<1> QED
  BY <1>1, <1>2, <1>3, PipelineTypeCorrect, PipelineImplementsSessions, NeverAheadInvariant,
     PTL DEF PipelineSpec

-----------------------------------------------------------------------------
(* One video *)

\* YouTube works for requests of sessions that were opened.
RequestOpened ==
  \A h \in Handlers : handler[h].pc \in {"upstream", "answered"} => handler[h].session \in opened

\* Requests are forwarded, and videos made, only for sessions that were opened.
LEMMA OpenedStep ==
  ASSUME PipelineTypeOK, ClientInv, RequestOpened, PublishedOpened, [PipelineNext]_vars
  PROVE  RequestOpened' /\ PublishedOpened'
<1>0. /\ handler \in [Handlers -> Call] /\ opened \subseteq opened'
      /\ youtube \in [Sessions -> [stored: Offset, published: BOOLEAN]]
      /\ Idle.pc = "idle" /\ client.call # NoCall => client.call \in Handlers
  BY CallFacts, ClientStep DEF TypeOK, Idle
<1>1. CASE ClientMoves
  <2>1. \A h \in Handlers : handler'[h] = handler[h] \/ handler'[h] = Idle
    BY <1>0, <1>1, ClientMovesBroker DEF HasReply
  <2>2. UNCHANGED youtube
    BY <1>1, ClientMovesBroker
  <2>3. RequestOpened'
    BY <1>0, <2>1 DEF RequestOpened, Idle
  <2>4. PublishedOpened'
    BY <1>0, <2>2 DEF PublishedOpened
  <2> QED
    BY <2>3, <2>4
<1>2. CASE SendGet \/ SendPut
  <2>1. client.session \in opened /\ UNCHANGED <<opened, youtube>>
    BY <1>2, RequestStarts DEF ClientInv, SendGet, SendPut
  <2>2. PICK h \in Handlers : /\ \A g \in Handlers \ {h} : handler'[g] = handler[g]
                              /\ handler'[h].session = client.session
    BY <1>2, RequestStarts
  <2> QED
    BY <2>1, <2>2 DEF RequestOpened, PublishedOpened
<1>3. CASE Broker \/ BrokerRestart
  <2>1. RequestOpened'
    <3>1. ASSUME NEW h \in Handlers, handler'[h].pc \in {"upstream", "answered"}
          PROVE  /\ handler[h].pc \in {"upstream", "answered"}
                 /\ handler'[h].session = handler[h].session
      <4>1. \/ handler'[h] = handler[h]
            \/ handler'[h] = Idle
            \/ /\ handler[h].pc \in {"upstream", "answered"}
               /\ handler'[h].session = handler[h].session
        BY <1>3, BrokerCall
      <4> QED
        BY <3>1, <4>1 DEF Idle
    <3> QED
      BY <1>0, <3>1 DEF RequestOpened
  <2>2. PublishedOpened'
    <3>1. ASSUME NEW h \in Handlers, YouTubeAnswers(h) PROVE PublishedOpened'
      <4>1. handler[h].session \in opened
        BY <3>1 DEF YouTubeAnswers, RequestOpened
      <4>2. \A s \in Sessions \ {handler[h].session} : youtube'[s] = youtube[s]
        BY <1>0, <3>1 DEF YouTubeAnswers
      <4> QED
        BY <1>0, <4>1, <4>2 DEF PublishedOpened
    <3>2. (\E h \in Handlers : YouTubeAnswers(h)) \/ UNCHANGED youtube
      <4>1. ASSUME NEW h \in Handlers, Finish(h) PROVE UNCHANGED youtube
        BY <4>1 DEF Finish, FinishIncomplete, FinishComplete, FinishFailed
      <4> QED
        BY <1>3, <4>1 DEF Broker, BrokerRestart, Close, Expire, Alarm, Restart
    <3> QED
      BY <1>0, <3>1, <3>2 DEF PublishedOpened
  <2> QED
    BY <2>1, <2>2
<1>4. CASE UNCHANGED vars
  BY <1>4 DEF vars, sessionVars, RequestOpened, PublishedOpened
<1> QED
  BY <1>1, <1>2, <1>3, <1>4 DEF PipelineNext, Client, ClientMoves

\* A second session is opened only when the first was lost or forgotten.
LEMMA OneSessionStep ==
  ASSUME PipelineTypeOK, ClientInv, AliveInv, OneSession, [PipelineNext]_vars
  PROVE  OneSession'
<1> DEFINE One == /\ \A s \in opened, t \in opened : s = t
                  /\ client.pc = "post" => opened = {}
                  /\ client.pc = "idle" /\ job.status = "queued" => opened \subseteq {job.uploadId}
                  /\ client.pc \in {"get", "put"} => opened \subseteq {client.session}
<1> SUFFICES ASSUME Kept' PROVE One'
  BY DEF OneSession
<1>0. /\ One /\ Kept
      /\ client \in ClientType /\ job \in JobType /\ opened \subseteq Sessions
      /\ NoSession \notin Sessions /\ (client.pc # "idle" => job.status = "queued")
  BY HistoryStays, CallFacts, PipelineAssumption DEF OneSession, ClientInv, TypeOK
<1>1. ASSUME NEW session, UNCHANGED opened, opened \subseteq {session},
             Retry(session) \/ Settle("uploaded") \/ Settle("rejected")
      PROVE  One'
  <2>1. client'.pc = "idle"
    <3>1. IdleClient.pc = "idle"
      BY DEF IdleClient
    <3> QED
      BY <1>1, <3>1 DEF Retry, Settle
  <2>2. job'.status = "queued" => job'.uploadId = session
    <3>1. CASE Retry(session)
      BY <1>0, <3>1 DEF Retry, JobType
    <3>2. CASE Settle("uploaded") \/ Settle("rejected")
      BY <1>0, <3>2 DEF Settle, JobType
    <3> QED
      BY <1>1, <3>1, <3>2
  <2> QED
    BY <1>0, <1>1, <2>1, <2>2
<1>2. ASSUME UNCHANGED <<opened, job>>, client'.pc = client.pc, client'.session = client.session
      PROVE  One'
  BY <1>0, <1>2
<1>3. CASE Begin
  <2>1. /\ client'.pc = IF job.uploadId = NoSession THEN "post" ELSE "get"
        /\ client'.session = job.uploadId
        /\ client.pc = "idle" /\ job.status = "queued" /\ UNCHANGED <<opened, job>>
    BY <1>3 DEF Begin, Picked, IdleClient, sessionVars
  <2> QED
    BY <1>0, <2>1
<1>4. CASE CreateSession
  <2>1. PICK s \in Sessions :
          /\ opened' = opened \cup {s} /\ client.pc = "post"
          /\ \/ client' = [client EXCEPT !.pc = "put", !.session = s, !.offset = 0]
             \/ Settle("rejected")
    BY <1>4 DEF CreateSession, Initialize, Note, Kept
  <2>2. CASE client' = [client EXCEPT !.pc = "put", !.session = s, !.offset = 0]
    <3>1. client'.pc = "put" /\ client'.session = s
      BY <1>0, <2>2 DEF ClientType
    <3> QED
      BY <1>0, <2>1, <3>1
  <2>3. CASE Settle("rejected")
    <3>1. client'.pc = "idle" /\ job'.status = "rejected"
      BY <1>0, <2>3 DEF Settle, IdleClient, JobType
    <3> QED
      BY <1>0, <2>1, <3>1
  <2> QED
    BY <2>1, <2>2, <2>3
<1>14. CASE BeginFails
  <2>1. opened \subseteq {job.uploadId} /\ UNCHANGED opened
    BY <1>0, <1>14 DEF BeginFails, Picked, sessionVars
  <2>2. CASE job.uploadId = NoSession
    BY <1>1, <1>14, <2>1, <2>2 DEF BeginFails
  <2>3. CASE job.uploadId # NoSession
    <3>1. Settle("rejected")
      BY <1>14, <2>3 DEF BeginFails, Note, Kept
    <3> QED
      BY <1>1, <2>1, <3>1
  <2> QED
    BY <2>2, <2>3
<1>5. CASE CreateFails
  BY <1>0, <1>1, <1>5 DEF CreateFails, sessionVars
<1>6. CASE SendGet \/ SendPut
  BY <1>0, <1>2, <1>6, RequestStarts DEF ClientType
<1>7. CASE EndOfFile \/ Cancelled \/ ReadFails \/ Unavailable \/ Refused
  BY <1>0, <1>1, <1>7
     DEF EndOfFile, Cancelled, ReadFails, AtChunk, Unavailable, Refused, NotServed, sessionVars
<1>8. CASE ReplyToGet \/ ReplyToPut
  <2>1. /\ client.pc \in {"get", "put"} /\ HasReply /\ UNCHANGED opened
        /\ opened \subseteq {client.session}
    BY <1>0, <1>8, ReplyTaken DEF Take
  <2>2. Answer.status # 410
    BY <1>0, <2>1 DEF AliveInv, Kept
  <2>3. CASE /\ UNCHANGED job
             /\ \E offset \in Offset, guessed \in BOOLEAN : client' = PutClient(offset, guessed)
    <3>1. client'.pc = "put" /\ client'.session = client.session
      BY <2>3 DEF PutClient
    <3> QED
      BY <1>0, <2>1, <3>1
  <2> QED
    BY <1>1, <1>8, <2>1, <2>2, <2>3, ReplyTaken
<1>10. CASE NetworkError \/ ConnectionDied
  <2>1. /\ Resend /\ UNCHANGED opened /\ client.pc \in {"get", "put"}
        /\ opened \subseteq {client.session}
    BY <1>0, <1>10 DEF NetworkError, ConnectionDied, sessionVars, ClientInv, ClientType
  <2>2. CASE client' = [client EXCEPT !.call = NoCall, !.retries = @ + 1] /\ UNCHANGED job
    <3>1. client'.pc = client.pc /\ client'.session = client.session
      BY <1>0, <2>2 DEF ClientType
    <3> QED
      BY <1>2, <2>1, <2>2, <3>1
  <2> QED
    BY <1>1, <2>1, <2>2 DEF Resend
<1>11. CASE Crash
  BY <1>11 DEF Crash, Kept
<1>12. CASE Broker \/ BrokerRestart
  BY <1>2, <1>12, BrokerCall
<1>13. CASE UNCHANGED vars
  BY <1>2, <1>13 DEF vars, sessionVars, clientVars
<1> QED
  BY <1>3, <1>4, <1>5, <1>6, <1>7, <1>8, <1>10, <1>11, <1>12, <1>13, <1>14
     DEF PipelineNext, Client

\* One recording makes one video, however often it is tried, unless a reply was lost, a
\* session expired, the worker crashed before it saved the upload id, or an attempt that
\* failed before BrokerUploader.cpp:158 made the queue forget it (UploadQueue.cpp:75).
THEOREM OneVideoPerRecording == PipelineSpec => []SingleVideo
<1> DEFINE Inv == AliveInv /\ RequestOpened /\ PublishedOpened /\ OneSession
<1>1. PipelineInit => Inv
  <2> SUFFICES ASSUME PipelineInit PROVE Inv
    OBVIOUS
  <2>1. /\ opened = {} /\ client.pc = "idle" /\ client.call = NoCall /\ ~HasReply
        /\ \A h \in Handlers : handler[h].pc = "idle"
        /\ \A s \in Sessions : ~youtube[s].published
    BY DEF PipelineInit, SessionInit, IdleClient, HasReply, Idle
  <2> QED
    BY <2>1 DEF AliveInv, RequestOpened, PublishedOpened, OneSession
<1>2. PipelineTypeOK /\ ClientInv /\ Inv /\ [PipelineNext]_vars => Inv'
  BY AliveStep, OpenedStep, OneSessionStep
<1>3. PipelineTypeOK /\ Inv => SingleVideo
  <2> SUFFICES ASSUME PipelineTypeOK, Inv, Kept PROVE ~(Cardinality(Published) > 1)
    BY DEF SingleVideo, SomeExpired, Kept
  <2>1. Published \subseteq opened /\ \A s \in Published, t \in Published : s = t
    BY DEF Published, PublishedOpened, OneSession
  <2>2. CASE Published = {}
    <3>1. Cardinality(Published) = 0
      BY <2>2, FS_EmptySet, Zenon
    <3> QED
      BY <3>1
  <2>3. CASE Published # {}
    <3>1. PICK s \in Published : Published = {s}
      BY <2>1, <2>3
    <3>2. Cardinality({s}) = 1
      BY FS_Singleton, Zenon
    <3>3. Cardinality(Published) = 1
      BY <3>1, <3>2
    <3> QED
      BY <3>3
  <2> QED
    BY <2>2, <2>3
<1> QED
  BY <1>1, <1>2, <1>3, PipelineTypeCorrect, PTL DEF PipelineSpec
=============================================================================
