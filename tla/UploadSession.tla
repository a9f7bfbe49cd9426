--------------------------- MODULE UploadSession ---------------------------
(***************************************************************************)
(* The Durable Object UploadSession of the broker (broker/src/index.ts),   *)
(* one per upload, and the resumable upload it keeps open at YouTube.      *)
(*                                                                         *)
(* A fetch runs in two atomic parts, because the object's input gate       *)
(* closes during storage operations but not during the upstream PUT:       *)
(*   - from the arrival of the request to the upstream fetch, or to the    *)
(*     reply when there is none;                                           *)
(*   - from the answer of YouTube to the reply, the storage.put included.  *)
(* Between the two, other requests, the alarm and a restart of the object  *)
(* interleave, and the handler goes on with the state it read first.       *)
(***************************************************************************)
EXTENDS Protocol

CONSTANTS
  Sessions,        \* the upload ids newUniqueId may return
  Handlers,        \* the requests that may be in progress at the same time
  Total,           \* the size of the file, in units of storage at YouTube
  MaxChunk,        \* MAX_CHUNK_BYTES, in the same unit
  MayStoreNothing, \* whether YouTube may answer 308 without having stored any of a chunk
  NoState          \* storage.get("state") of an object that has none

Offset == 0..Total
State == [nextOffset: Offset, url: BOOLEAN]

ASSUME SessionAssumption ==
  /\ Total \in Nat \ {0} /\ MaxChunk \in Nat \ {0}
  /\ MayStoreNothing \in BOOLEAN
  /\ NoState \notin State

VARIABLES
  store,      \* store[s]: the stored UploadState (total and uploadUrl never change)
  alarm,      \* alarm[s]: an alarm is set for expiresAt
  expired,    \* expired[s]: the clock has reached expiresAt
  opened,     \* the sessions createUpload has opened
  youtube,    \* youtube[s]: bytes YouTube has stored, and whether the video exists
  handler,    \* handler[h]: a request in progress
  overlapped  \* history: session s served a PUT, or lost its state, during another PUT

sessionVars == <<store, alarm, expired, opened, youtube, handler, overlapped>>

-----------------------------------------------------------------------------
(* Requests, answers and replies *)

ByteRange == {r \in [start: Offset, end: Offset, total: {Total, Total + 1}] :
              r.start <= r.end /\ r.end < r.total}
\* The ranges that are forwarded.
Accepted == {r \in ByteRange : r.total = Total}
Reply == [status: {200, 308, 400, 409, 410, 502, 503}, nextOffset: Offset, url: BOOLEAN]

Idle == [pc |-> "idle"]
Forwarding == [pc: {"upstream"}, session: Sessions, range: Accepted, state: State]
Answered == [pc: {"answered"}, session: Sessions, range: Accepted, state: State,
             status: {"complete", "incomplete", "refused", "failed"},
             header: -1..(Total - 1)]
Replied == [pc: {"replied"}, session: Sessions, reply: Reply]
Call == {Idle} \cup Forwarding \cup Answered \cup Replied

TypeOK ==
  /\ store \in [Sessions -> State \cup {NoState}]
  /\ alarm \in [Sessions -> BOOLEAN]
  /\ expired \in [Sessions -> BOOLEAN]
  /\ opened \subseteq Sessions
  /\ youtube \in [Sessions -> [stored: Offset, published: BOOLEAN]]
  /\ handler \in [Handlers -> Call]
  /\ overlapped \in [Sessions -> BOOLEAN]

\* The PUTs of session s that have read the state and have not replied.
InFlight(s) == {h \in Handlers : /\ handler[h].pc \in {"upstream", "answered"}
                                 /\ handler[h].session = s}

ReplyWith(h, s, status, nextOffset, url) ==
  handler' = [handler EXCEPT ![h] =
    [pc |-> "replied", session |-> s,
     reply |-> [status |-> status, nextOffset |-> nextOffset, url |-> url]]]

-----------------------------------------------------------------------------
SessionInit ==
  /\ store = [s \in Sessions |-> NoState]
  /\ alarm = [s \in Sessions |-> FALSE]
  /\ expired = [s \in Sessions |-> FALSE]
  /\ opened = {}
  /\ youtube = [s \in Sessions |-> [stored |-> 0, published |-> FALSE]]
  /\ handler = [h \in Handlers |-> Idle]
  /\ overlapped = [s \in Sessions |-> FALSE]

\* Variant: /init that forgets the alarm.
InitializeNoAlarm(s) ==
  /\ s \notin opened
  /\ opened' = opened \cup {s}
  /\ store' = [store EXCEPT ![s] = [nextOffset |-> 0, url |-> FALSE]]
  /\ UNCHANGED <<alarm, expired, youtube, handler, overlapped>>

\* /init, called once by createUpload on a new id.
Initialize(s) ==
  /\ s \notin opened
  /\ opened' = opened \cup {s}
  /\ store' = [store EXCEPT ![s] = [nextOffset |-> 0, url |-> FALSE]]
  /\ alarm' = [alarm EXCEPT ![s] = TRUE]
  /\ UNCHANGED <<expired, youtube, handler, overlapped>>

Live(s) == store[s] # NoState /\ ~expired[s]

\* Any request for an object without state, or past its expiry.
Expired(h, s) ==
  /\ handler[h] = Idle /\ ~Live(s)
  /\ ReplyWith(h, s, 410, 0, FALSE)
  /\ UNCHANGED <<store, alarm, expired, opened, youtube, overlapped>>

Status(h, s) ==
  /\ handler[h] = Idle /\ Live(s)
  /\ ReplyWith(h, s, 200, store[s].nextOffset, store[s].url)
  /\ UNCHANGED <<store, alarm, expired, opened, youtube, overlapped>>

\* deleteAll also removes the alarm.
Cancel(h, s) ==
  /\ handler[h] = Idle /\ Live(s)
  /\ store' = [store EXCEPT ![s] = NoState]
  /\ alarm' = [alarm EXCEPT ![s] = FALSE]
  /\ overlapped' = [overlapped EXCEPT ![s] = @ \/ InFlight(s) # {}]
  /\ ReplyWith(h, s, 200, 0, FALSE)
  /\ UNCHANGED <<expired, opened, youtube>>

Decision(s, header, length) ==
  ClassifyChunk(ParseContentRange(header), store[s].nextOffset, Total, length, MaxChunk)

\* A PUT that is answered without YouTube: 400, 308 for a repeated chunk, 409.
AnswerChunk(h, s, header, length) ==
  /\ handler[h] = Idle /\ Live(s)
  /\ LET decision == Decision(s, header, length)
         offset == store[s].nextOffset
     IN \/ decision = "invalid" /\ ReplyWith(h, s, 400, 0, FALSE)
        \/ decision = "replay" /\ ReplyWith(h, s, 308, offset, FALSE)
        \/ decision = "gap" /\ ReplyWith(h, s, 409, offset, FALSE)
  /\ UNCHANGED <<store, alarm, expired, opened, youtube, overlapped>>

\* A PUT in sequence: the handler keeps the state it read and waits for YouTube.
ForwardChunk(h, s, header, length) ==
  /\ handler[h] = Idle /\ Live(s)
  /\ Decision(s, header, length) = "accept"
  /\ handler' = [handler EXCEPT ![h] =
       [pc |-> "upstream", session |-> s, range |-> header, state |-> store[s]]]
  /\ overlapped' = [overlapped EXCEPT ![s] = @ \/ InFlight(s) # {}]
  /\ UNCHANGED <<store, alarm, expired, opened, youtube>>

-----------------------------------------------------------------------------
(* YouTube, from how the broker uses it: a PUT that continues what is      *)
(* stored, or repeats some of it, stores a prefix of the chunk.  The answer *)
(* is 200 when the file is complete, else 308 with the last byte stored; or *)
(* YouTube refuses (4xx) or fails: 5xx, or the answer is lost and fetch     *)
(* throws, whatever was stored.                                             *)

StorableBy(range, stored) ==
  {n \in Offset : n >= stored /\ (n > stored => range.start <= stored /\ n <= range.end + 1)}

YouTubeAnswers(h) ==
  /\ handler[h].pc = "upstream"
  /\ LET call == handler[h]
         s == call.session
     IN \E n \in StorableBy(call.range, youtube[s].stored),
           status \in {"complete", "incomplete", "refused", "failed"} :
          /\ status = "complete" => n = Total
          /\ status = "incomplete" =>
               /\ n < Total
               /\ n > youtube[s].stored \/ call.range.end < youtube[s].stored \/ MayStoreNothing
          /\ status = "refused" => n = youtube[s].stored
          /\ youtube' = [youtube EXCEPT ![s] = [stored |-> n, published |-> n = Total]]
          /\ handler' = [handler EXCEPT ![h] =
               [pc |-> "answered", session |-> s, range |-> call.range, state |-> call.state,
                status |-> status,
                header |-> IF status = "incomplete" THEN n - 1 ELSE NoHeader]]
  /\ UNCHANGED <<store, alarm, expired, opened, overlapped>>
-----------------------------------------------------------------------------
(* The rest of the handler *)

\* Variant: the answer of YouTube is taken to count from the start of the chunk.
FinishIncompleteRelative(h) ==
  /\ handler[h].pc = "answered" /\ handler[h].status = "incomplete"
  /\ LET s == handler[h].session
         offset == handler[h].range.start + handler[h].header + 1
     IN /\ store' = [store EXCEPT ![s] = [handler[h].state EXCEPT !.nextOffset = offset]]
        /\ ReplyWith(h, s, 308, offset, FALSE)
  /\ UNCHANGED <<alarm, expired, opened, youtube, overlapped>>

\* Variant: the offset is taken from the request, not from the answer of YouTube.
FinishIncompleteByRequest(h) ==
  /\ handler[h].pc = "answered" /\ handler[h].status = "incomplete"
  /\ LET s == handler[h].session
         offset == handler[h].range.end + 1
     IN /\ store' = [store EXCEPT ![s] = [handler[h].state EXCEPT !.nextOffset = offset]]
        /\ ReplyWith(h, s, 308, offset, FALSE)
  /\ UNCHANGED <<alarm, expired, opened, youtube, overlapped>>

\* Variant: the upload counts as complete when the last chunk has been sent.
FinishIncompleteAsComplete(h) ==
  /\ handler[h].pc = "answered" /\ handler[h].status = "incomplete"
  /\ LET s == handler[h].session
         offset == NextOffsetFromRange(handler[h].header, handler[h].range.end + 1)
         last == handler[h].range.end + 1 = Total
     IN /\ store' = [store EXCEPT ![s] = [nextOffset |-> offset, url |-> last]]
        /\ ReplyWith(h, s, 308, offset, last)
  /\ UNCHANGED <<alarm, expired, opened, youtube, overlapped>>

FinishIncomplete(h) ==
  /\ handler[h].pc = "answered" /\ handler[h].status = "incomplete"
  /\ LET s == handler[h].session
         offset == NextOffsetFromRange(handler[h].header, handler[h].range.end + 1)
     IN /\ store' = [store EXCEPT ![s] = [handler[h].state EXCEPT !.nextOffset = offset]]
        /\ ReplyWith(h, s, 308, offset, FALSE)
  /\ UNCHANGED <<alarm, expired, opened, youtube, overlapped>>

FinishComplete(h) ==
  /\ handler[h].pc = "answered" /\ handler[h].status = "complete"
  /\ LET s == handler[h].session
     IN /\ store' = [store EXCEPT ![s] = [nextOffset |-> Total, url |-> TRUE]]
        /\ ReplyWith(h, s, 200, Total, TRUE)
  /\ UNCHANGED <<alarm, expired, opened, youtube, overlapped>>

\* Variant: a failed chunk starts the upload again.
FinishFailedAfresh(h) ==
  /\ handler[h].pc = "answered" /\ handler[h].status \in {"refused", "failed"}
  /\ LET s == handler[h].session
     IN /\ store' = [store EXCEPT ![s] = [handler[h].state EXCEPT !.nextOffset = 0]]
        /\ ReplyWith(h, s, 503, 0, FALSE)
  /\ UNCHANGED <<alarm, expired, opened, youtube, overlapped>>

\* 502 or 503; when fetch throws, the platform answers 500, which is a 503 here.
FinishFailed(h) ==
  /\ handler[h].pc = "answered"
  /\ \/ handler[h].status = "refused" /\ ReplyWith(h, handler[h].session, 502, 0, FALSE)
     \/ handler[h].status = "failed" /\ ReplyWith(h, handler[h].session, 503, 0, FALSE)
  /\ UNCHANGED <<store, alarm, expired, opened, youtube, overlapped>>

\* The reply has left, or the client has gone: the request is over.
Close(h) ==
  /\ handler[h].pc = "replied"
  /\ handler' = [handler EXCEPT ![h] = Idle]
  /\ UNCHANGED <<store, alarm, expired, opened, youtube, overlapped>>

\* The platform moves or restarts the object: its requests die, its storage stays.
Restart(s) ==
  /\ InFlight(s) # {}
  /\ handler' = [h \in Handlers |-> IF h \in InFlight(s) THEN Idle ELSE handler[h]]
  /\ UNCHANGED <<store, alarm, expired, opened, youtube, overlapped>>

Expire(s) ==
  /\ s \in opened /\ ~expired[s]
  /\ expired' = [expired EXCEPT ![s] = TRUE]
  /\ UNCHANGED <<store, alarm, opened, youtube, handler, overlapped>>

Alarm(s) ==
  /\ alarm[s] /\ expired[s]
  /\ alarm' = [alarm EXCEPT ![s] = FALSE]
  /\ store' = [store EXCEPT ![s] = NoState]
  /\ overlapped' = [overlapped EXCEPT ![s] = @ \/ InFlight(s) # {}]
  /\ UNCHANGED <<expired, opened, youtube, handler>>

-----------------------------------------------------------------------------
\* A PUT's Content-Range and Content-Length: well formed or not.
Header == ByteRange \cup {NoRange}
Length == 0..(Total + 1)

Receive(h, s) ==
  \/ Expired(h, s) \/ Status(h, s) \/ Cancel(h, s)
  \/ \E header \in Header, length \in Length :
       AnswerChunk(h, s, header, length) \/ ForwardChunk(h, s, header, length)

Finish(h) == FinishIncomplete(h) \/ FinishComplete(h) \/ FinishFailed(h)

Next ==
  \/ \E s \in Sessions : Initialize(s) \/ Expire(s) \/ Alarm(s) \/ Restart(s)
  \/ \E h \in Handlers, s \in Sessions : Receive(h, s)
  \/ \E h \in Handlers : YouTubeAnswers(h) \/ Finish(h) \/ Close(h)

Spec == SessionInit /\ [][Next]_sessionVars

-----------------------------------------------------------------------------
(* Properties *)

\* A url is stored, and given to a client, only for a video YouTube has in full,
\* whatever the order in which late answers of YouTube are handled (index.ts:131-134).
UrlOnlyIfPublished ==
  /\ \A s \in Sessions : store[s] # NoState /\ store[s].url => youtube[s].published
  /\ \A h \in Handlers : handler[h].pc = "replied" /\ handler[h].reply.url
                          => youtube[handler[h].session].published

\* No byte is skipped: neither the stored offset nor one told to a client is beyond
\* what YouTube has stored, and no chunk is forwarded that leaves a hole before it
\* (index.ts:121-130, classifyChunk, nextOffsetFromRange).
NoSkippedBytes ==
  /\ \A s \in Sessions : store[s] # NoState => store[s].nextOffset <= youtube[s].stored
  /\ \A h \in Handlers :
       LET call == handler[h] IN
       /\ call.pc = "upstream" => call.range.start <= youtube[call.session].stored
       /\ call.pc = "replied" => call.reply.nextOffset <= youtube[call.session].stored

\* As long as no PUT of a session overlaps another one, or a deletion, the stored
\* offset never goes back and a stored url is never lost (index.ts:113 reads the
\* state, lines 129 and 133 write it back after the upstream fetch).
SerialProgress ==
  [][\A s \in Sessions :
       ~overlapped'[s] /\ store[s] # NoState /\ store'[s] # NoState =>
         /\ store'[s].nextOffset >= store[s].nextOffset
         /\ store[s].url => store'[s].url]_sessionVars

\* A session that is stored is going to be deleted: its alarm is set, unless a PUT
\* overlapped another PUT or the deletion (index.ts:110, 116, 138).
DeletionScheduled ==
  \A s \in Sessions : store[s] # NoState => alarm[s] \/ overlapped[s]

\* Once the alarm of an expired session has run, or the session was cancelled, nothing
\* of it is stored: README.md:206 says that sessions are deleted after 24 hours.
Retention == \A s \in Sessions : expired[s] /\ ~alarm[s] => store[s] = NoState
=============================================================================
