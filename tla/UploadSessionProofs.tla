------------------------ MODULE UploadSessionProofs ------------------------
(***************************************************************************)
(* Proofs about the broker's upload session, for any number of sessions,   *)
(* concurrent requests and bytes.                                          *)
(***************************************************************************)
EXTENDS UploadSession, TLAPS

\* A chunk that is forwarded is a well-formed range of this file that starts at the
\* stored offset.
LEMMA ForwardedInSequence ==
  ASSUME NEW s \in Sessions, NEW header \in Header, NEW length \in Length,
         store[s] \in State,
         Decision(s, header, length) = "accept"
  PROVE  header \in Accepted /\ header.start = store[s].nextOffset
<1>1. ParseContentRange(NoRange) = NoRange
  BY DEF ParseContentRange, NoRange
<1>2. ParseContentRange(header) # NoRange
  BY DEF Decision, ClassifyChunk
<1>3. header \in ByteRange /\ ParseContentRange(header) = header
  BY <1>1, <1>2 DEF Header, ParseContentRange
<1>4. header.total = Total
  BY <1>2, <1>3 DEF Decision, ClassifyChunk
<1>5. ~(header.start < store[s].nextOffset) /\ ~(header.start > store[s].nextOffset)
  BY <1>2, <1>3 DEF Decision, ClassifyChunk
<1>6. header.start \in Int /\ store[s].nextOffset \in Int
  BY <1>3, SessionAssumption DEF ByteRange, State, Offset
<1> QED
  BY <1>3, <1>4, <1>5, <1>6 DEF Accepted

-----------------------------------------------------------------------------
\* A request that is replied to stays well typed.
LEMMA ReplyType ==
  ASSUME NEW h \in Handlers, NEW s \in Sessions,
         NEW status, NEW offset, NEW url,
         [status |-> status, nextOffset |-> offset, url |-> url] \in Reply,
         handler \in [Handlers -> Call],
         ReplyWith(h, s, status, offset, url)
  PROVE  handler' \in [Handlers -> Call]
<1> DEFINE call == [pc |-> "replied", session |-> s,
                    reply |-> [status |-> status, nextOffset |-> offset, url |-> url]]
<1>1. call \in Call
  BY DEF Call, Replied
<1>2. handler' = [handler EXCEPT ![h] = call]
  BY DEF ReplyWith
<1> HIDE DEF call
<1> QED
  BY <1>1, <1>2

\* What a request in progress is made of, by the stage it has reached.
LEMMA CallType ==
  ASSUME TypeOK, NEW h \in Handlers
  PROVE  /\ handler[h].pc = "upstream" => handler[h] \in Forwarding
         /\ handler[h].pc = "answered" => handler[h] \in Answered
         /\ handler[h].pc = "replied" => handler[h] \in Replied
BY DEF TypeOK, Call, Idle, Forwarding, Answered, Replied

\* A step of the broker keeps the types.
LEMMA TypeStep ==
  ASSUME TypeOK, [Next]_sessionVars
  PROVE  TypeOK'
<1> USE DEF TypeOK
<1>0. 0 \in Offset /\ Total \in Offset
  BY SessionAssumption DEF Offset
<1>1. ASSUME NEW s \in Sessions, Initialize(s) PROVE TypeOK'
  BY <1>1, <1>0 DEF Initialize, State
<1>2. ASSUME NEW s \in Sessions, NEW h \in Handlers, Expired(h, s) PROVE TypeOK'
  <2>1. [status |-> 410, nextOffset |-> 0, url |-> FALSE] \in Reply
    BY <1>0 DEF Reply
  <2>2. handler' \in [Handlers -> Call]
    BY <1>2, <2>1, ReplyType DEF Expired
  <2> QED
    BY <1>2, <2>2 DEF Expired
<1>3. ASSUME NEW s \in Sessions, NEW h \in Handlers, Status(h, s) PROVE TypeOK'
  <2>1. store[s] \in State
    BY <1>3 DEF Status, Live
  <2>2. [status |-> 200, nextOffset |-> store[s].nextOffset, url |-> store[s].url] \in Reply
    BY <2>1 DEF Reply, State
  <2>3. handler' \in [Handlers -> Call]
    BY <1>3, <2>2, ReplyType DEF Status
  <2> QED
    BY <1>3, <2>3 DEF Status
<1>4. ASSUME NEW s \in Sessions, NEW h \in Handlers, Cancel(h, s) PROVE TypeOK'
  <2>1. [status |-> 200, nextOffset |-> 0, url |-> FALSE] \in Reply
    BY <1>0 DEF Reply
  <2>2. handler' \in [Handlers -> Call]
    BY <1>4, <2>1, ReplyType DEF Cancel
  <2> QED
    BY <1>4, <2>2 DEF Cancel
<1>5. ASSUME NEW s \in Sessions, NEW h \in Handlers, NEW header \in Header,
             NEW length \in Length, AnswerChunk(h, s, header, length)
      PROVE  TypeOK'
  <2>1. store[s].nextOffset \in Offset
    BY <1>5 DEF AnswerChunk, Live, State
  <2>2. /\ [status |-> 400, nextOffset |-> 0, url |-> FALSE] \in Reply
        /\ [status |-> 308, nextOffset |-> store[s].nextOffset, url |-> FALSE] \in Reply
        /\ [status |-> 409, nextOffset |-> store[s].nextOffset, url |-> FALSE] \in Reply
    BY <1>0, <2>1 DEF Reply
  <2>3. \/ ReplyWith(h, s, 400, 0, FALSE)
        \/ ReplyWith(h, s, 308, store[s].nextOffset, FALSE)
        \/ ReplyWith(h, s, 409, store[s].nextOffset, FALSE)
    BY <1>5 DEF AnswerChunk
  <2>4. handler' \in [Handlers -> Call]
    BY <2>2, <2>3, ReplyType
  <2> QED
    BY <1>5, <2>4 DEF AnswerChunk
<1>6. ASSUME NEW s \in Sessions, NEW h \in Handlers, NEW header \in Header,
             NEW length \in Length, ForwardChunk(h, s, header, length)
      PROVE  TypeOK'
  <2>1. store[s] \in State
    BY <1>6 DEF ForwardChunk, Live
  <2>2. header \in Accepted
    BY <1>6, <2>1, ForwardedInSequence DEF ForwardChunk
  <2>3. [pc |-> "upstream", session |-> s, range |-> header, state |-> store[s]]
          \in Forwarding
    BY <2>1, <2>2 DEF Forwarding
  <2> QED
    BY <1>6, <2>3 DEF ForwardChunk, Call
<1>7. ASSUME NEW h \in Handlers, YouTubeAnswers(h) PROVE TypeOK'
  <2>1. handler[h] \in Forwarding
    BY <1>7, CallType DEF YouTubeAnswers
  <2>2. PICK n \in StorableBy(handler[h].range, youtube[handler[h].session].stored),
             status \in {"complete", "incomplete", "refused", "failed"} :
          /\ status = "incomplete" => n < Total
          /\ youtube' = [youtube EXCEPT ![handler[h].session] =
                           [stored |-> n, published |-> n = Total]]
          /\ handler' = [handler EXCEPT ![h] =
               [pc |-> "answered", session |-> handler[h].session,
                range |-> handler[h].range, state |-> handler[h].state, status |-> status,
                header |-> IF status = "incomplete" THEN n - 1 ELSE NoHeader]]
    BY <1>7 DEF YouTubeAnswers
  <2>3. n \in Offset
    BY <2>2 DEF StorableBy
  <2>4. (IF status = "incomplete" THEN n - 1 ELSE NoHeader) \in -1..(Total - 1)
    BY <2>2, <2>3, SessionAssumption DEF Offset, NoHeader
  <2>5. [pc |-> "answered", session |-> handler[h].session, range |-> handler[h].range,
         state |-> handler[h].state, status |-> status,
         header |-> IF status = "incomplete" THEN n - 1 ELSE NoHeader] \in Answered
    BY <2>1, <2>4 DEF Forwarding, Answered
  <2> QED
    BY <1>7, <2>2, <2>3, <2>5 DEF YouTubeAnswers, Call
<1>8. ASSUME NEW h \in Handlers, FinishIncomplete(h) PROVE TypeOK'
  <2> DEFINE s == handler[h].session
             offset == NextOffsetFromRange(handler[h].header, handler[h].range.end + 1)
  <2>1. handler[h] \in Answered
    BY <1>8, CallType DEF FinishIncomplete
  <2>2. offset \in Offset
    BY <2>1, SessionAssumption
       DEF Answered, Accepted, ByteRange, Offset, NextOffsetFromRange, NoHeader
  <2>3. [handler[h].state EXCEPT !.nextOffset = offset] \in State
    BY <2>1, <2>2 DEF Answered, State
  <2>4. s \in Sessions /\ [status |-> 308, nextOffset |-> offset, url |-> FALSE] \in Reply
    BY <2>1, <2>2 DEF Answered, Reply
  <2>5. ReplyWith(h, s, 308, offset, FALSE)
    BY <1>8 DEF FinishIncomplete
  <2> HIDE DEF s, offset
  <2>6. handler' \in [Handlers -> Call]
    BY <2>4, <2>5, ReplyType
  <2> USE DEF s, offset
  <2> QED
    BY <1>8, <2>3, <2>4, <2>6 DEF FinishIncomplete
<1>9. ASSUME NEW h \in Handlers, FinishComplete(h) PROVE TypeOK'
  <2>1. handler[h] \in Answered
    BY <1>9, CallType DEF FinishComplete
  <2>2. [nextOffset |-> Total, url |-> TRUE] \in State
    BY <1>0 DEF State
  <2>3. handler[h].session \in Sessions /\ [status |-> 200, nextOffset |-> Total, url |-> TRUE] \in Reply
    BY <1>0, <2>1 DEF Answered, Reply
  <2>4. handler' \in [Handlers -> Call]
    BY <1>9, <2>3, ReplyType DEF FinishComplete
  <2> QED
    BY <1>9, <2>2, <2>3, <2>4 DEF FinishComplete
<1>10. ASSUME NEW h \in Handlers, FinishFailed(h) PROVE TypeOK'
  <2> DEFINE s == handler[h].session
  <2>1. s \in Sessions
    BY <1>10, CallType DEF FinishFailed, Answered
  <2>2. ReplyWith(h, s, 502, 0, FALSE) \/ ReplyWith(h, s, 503, 0, FALSE)
    BY <1>10 DEF FinishFailed
  <2>3. /\ [status |-> 502, nextOffset |-> 0, url |-> FALSE] \in Reply
        /\ [status |-> 503, nextOffset |-> 0, url |-> FALSE] \in Reply
    BY <1>0 DEF Reply
  <2> HIDE DEF s
  <2>4. handler' \in [Handlers -> Call]
    BY <2>1, <2>2, <2>3, ReplyType
  <2> QED
    BY <1>10, <2>4 DEF FinishFailed
<1>11. ASSUME NEW h \in Handlers, Close(h) PROVE TypeOK'
  BY <1>11 DEF Close, Call
<1>12. ASSUME NEW s \in Sessions, Restart(s) PROVE TypeOK'
  BY <1>12 DEF Restart, Call
<1>13. ASSUME NEW s \in Sessions, Expire(s) PROVE TypeOK'
  BY <1>13 DEF Expire
<1>14. ASSUME NEW s \in Sessions, Alarm(s) PROVE TypeOK'
  BY <1>14 DEF Alarm
<1>15. CASE UNCHANGED sessionVars
  BY <1>15 DEF sessionVars
<1> QED
  BY <1>1, <1>2, <1>3, <1>4, <1>5, <1>6, <1>7, <1>8, <1>9, <1>10, <1>11, <1>12, <1>13,
     <1>14, <1>15 DEF Next, Receive, Finish

\* Every reachable state is well typed: in particular no stored or replied offset is
\* beyond the end of the file, whatever ranges clients send.
THEOREM TypeCorrect == Spec => []TypeOK
<1>1. SessionInit => TypeOK
  BY SessionAssumption DEF SessionInit, TypeOK, Call, Idle, State, Offset
<1>2. TypeOK /\ [Next]_sessionVars => TypeOK'
  BY TypeStep
<1> QED
  BY <1>1, <1>2, PTL DEF Spec

-----------------------------------------------------------------------------
(* What a state or a reply of the broker says is never ahead of YouTube.    *)

\* st is a stored state, a state read by a request, or a reply; y is the session's
\* upload at YouTube.
StateOK(st, y) ==
  /\ st.url => y.published
  /\ ~MayStoreNothing => st.nextOffset <= y.stored

CallOK(call, y) ==
  /\ call.pc \in {"upstream", "answered"} =>
       StateOK(call.state, y) /\ (~MayStoreNothing => call.range.start <= y.stored)
  /\ call.pc = "answered" =>
       /\ call.status = "complete" => y.published
       /\ call.status = "incomplete" /\ ~MayStoreNothing =>
            call.header # NoHeader /\ call.header + 1 <= y.stored
  /\ call.pc = "replied" => StateOK(call.reply, y)

StoreOK ==
  \A s \in Sessions :
    /\ youtube[s].published => youtube[s].stored = Total
    /\ store[s] # NoState => StateOK(store[s], youtube[s])

CallsOK == \A h \in Handlers : handler[h] # Idle => CallOK(handler[h], youtube[handler[h].session])

\* UrlOnlyIfPublished and NoSkippedBytes, with what the requests in flight will write.
NeverAhead == TypeOK /\ StoreOK /\ CallsOK

\* YouTube only gains: what was not ahead of it stays so.
LEMMA Monotone ==
  ASSUME NEW y, NEW z, y.published => z.published,
         y.stored \in Int, z.stored \in Int, y.stored <= z.stored
  PROVE  /\ \A st \in State \cup Reply : StateOK(st, y) => StateOK(st, z)
         /\ \A call \in Call : CallOK(call, y) => CallOK(call, z)
<1>1. \A st \in State \cup Reply : StateOK(st, y) => StateOK(st, z)
  BY SessionAssumption DEF StateOK, State, Reply, Offset
<1>2. ASSUME NEW call \in Call, CallOK(call, y) PROVE CallOK(call, z)
  <2>1. CASE call \in Forwarding
    BY <1>1, <1>2, <2>1, SessionAssumption DEF CallOK, Forwarding, Accepted, ByteRange, Offset
  <2>2. CASE call \in Answered
    BY <1>1, <1>2, <2>2, SessionAssumption DEF CallOK, Answered, Accepted, ByteRange, Offset
  <2>3. CASE call \in Replied
    BY <1>1, <1>2, <2>3 DEF CallOK, Replied
  <2>4. CASE call = Idle
    BY <2>4 DEF CallOK, Idle
  <2> QED
    BY <2>1, <2>2, <2>3, <2>4 DEF Call
<1> QED
  BY <1>1, <1>2

\* A step that changes one request, and nothing at YouTube.
LEMMA OneCall ==
  ASSUME NEW h \in Handlers, NEW call, handler \in [Handlers -> Call], CallsOK,
         youtube' = youtube,
         handler' = [handler EXCEPT ![h] = call],
         call # Idle => CallOK(call, youtube[call.session])
  PROVE  CallsOK'
BY DEF CallsOK

\* A step that replies, and changes nothing at YouTube.
LEMMA OneReply ==
  ASSUME NEW h \in Handlers, NEW s \in Sessions, NEW reply,
         handler \in [Handlers -> Call], CallsOK,
         youtube' = youtube,
         handler' = [handler EXCEPT ![h] = [pc |-> "replied", session |-> s, reply |-> reply]],
         StateOK(reply, youtube[s])
  PROVE  CallsOK'
<1> DEFINE call == [pc |-> "replied", session |-> s, reply |-> reply]
<1>1. CallOK(call, youtube[call.session])
  BY DEF CallOK
<1> QED
  BY <1>1, OneCall

\* Between two states of the broker that differ at YouTube as a PUT makes them differ.
LEMMA AnswerNotAhead ==
  ASSUME NEW h \in Handlers, TypeOK, StoreOK, CallsOK, YouTubeAnswers(h)
  PROVE  StoreOK' /\ CallsOK'
<1> DEFINE s == handler[h].session
           y == youtube[s]
<1>1. handler[h] \in Forwarding /\ s \in Sessions
  BY CallType DEF YouTubeAnswers, Forwarding
<1>2. PICK n \in StorableBy(handler[h].range, y.stored),
           status \in {"complete", "incomplete", "refused", "failed"} :
        /\ status = "complete" => n = Total
        /\ status = "incomplete" =>
             /\ n < Total
             /\ n > y.stored \/ handler[h].range.end < y.stored \/ MayStoreNothing
        /\ youtube' = [youtube EXCEPT ![s] = [stored |-> n, published |-> n = Total]]
        /\ handler' = [handler EXCEPT ![h] =
             [pc |-> "answered", session |-> s, range |-> handler[h].range,
              state |-> handler[h].state, status |-> status,
              header |-> IF status = "incomplete" THEN n - 1 ELSE NoHeader]]
  BY DEF YouTubeAnswers
<1> DEFINE call == [pc |-> "answered", session |-> s, range |-> handler[h].range,
                    state |-> handler[h].state, status |-> status,
                    header |-> IF status = "incomplete" THEN n - 1 ELSE NoHeader]
           z == [stored |-> n, published |-> n = Total]
<1>3. n \in Offset /\ y.stored \in Offset /\ n \in Int /\ y.stored \in Int /\ y.stored <= n
  <2>1. n \in Offset /\ y.stored <= n
    BY <1>2 DEF StorableBy
  <2>2. y \in [stored: Offset, published: BOOLEAN]
    BY <1>1 DEF TypeOK
  <2>3. Offset \subseteq Int
    BY SessionAssumption DEF Offset
  <2> HIDE DEF y
  <2> QED
    BY <2>1, <2>2, <2>3
<1>4. y.published => z.published
  <2>1. y.published => y.stored = Total
    BY <1>1 DEF StoreOK
  <2>2. y.stored = Total => n = Total
    <3> HIDE DEF y
    <3> QED
      BY <1>3, SessionAssumption DEF Offset
  <2>3. z.published = (n = Total)
    OBVIOUS
  <2> HIDE DEF y, z
  <2> QED
    BY <2>1, <2>2, <2>3
<1>5. /\ \A st \in State \cup Reply : StateOK(st, y) => StateOK(st, z)
      /\ \A c \in Call : CallOK(c, y) => CallOK(c, z)
  <2> HIDE DEF y, z
  <2>1. z.stored = n
    BY DEF z
  <2> QED
    BY <1>3, <1>4, <2>1, Monotone
<1>6. youtube'[s] = z /\ \A t \in Sessions \ {s} : youtube'[t] = youtube[t]
  BY <1>1, <1>2 DEF TypeOK
<1>7. StoreOK'
  <2> SUFFICES ASSUME NEW t \in Sessions
               PROVE  /\ youtube'[t].published => youtube'[t].stored = Total
                      /\ store'[t] # NoState => StateOK(store'[t], youtube'[t])
    BY DEF StoreOK
  <2>1. store'[t] = store[t] /\ (store[t] # NoState => store[t] \in State)
    BY DEF YouTubeAnswers, TypeOK
  <2>2. CASE t = s
    <3>1. store[s] # NoState => StateOK(store[s], y)
      BY <1>1 DEF StoreOK
    <3>2. store[s] # NoState => StateOK(store[s], z)
      BY <1>5, <2>1, <2>2, <3>1
    <3>3. z.published => z.stored = Total
      OBVIOUS
    <3> HIDE DEF y, z
    <3> QED
      BY <1>6, <2>1, <2>2, <3>2, <3>3
  <2>3. CASE t # s
    BY <1>6, <2>1, <2>3 DEF StoreOK
  <2> QED
    BY <2>2, <2>3
<1>8. CallOK(call, z)
  <2>1. CallOK(handler[h], y) /\ handler[h] # Idle
    BY <1>1 DEF CallsOK, Forwarding, Idle
  <2>2. StateOK(handler[h].state, z)
    BY <1>1, <1>5, <2>1 DEF CallOK, Forwarding
  <2>3. ~MayStoreNothing => handler[h].range.start <= n
    BY <1>1, <1>3, <2>1, SessionAssumption DEF CallOK, Forwarding, Accepted, ByteRange, Offset
  <2>4. status = "incomplete" /\ ~MayStoreNothing => n - 1 # NoHeader
    <3>1. handler[h].range.end \in Int /\ 0 <= handler[h].range.end
      BY <1>1, SessionAssumption DEF Forwarding, Accepted, ByteRange, Offset
    <3>2. y.stored \in Int /\ 0 <= y.stored
      BY <1>3, SessionAssumption DEF Offset
    <3>3. status = "incomplete" /\ ~MayStoreNothing =>
            n > y.stored \/ handler[h].range.end < y.stored
      BY <1>2
    <3> HIDE DEF y
    <3> QED
      BY <1>3, <3>1, <3>2, <3>3 DEF NoHeader
  <2>5. status = "complete" => z.published
    BY <1>2
  <2>6. z.stored = n
    OBVIOUS
  <2>7. status = "incomplete" => call.header = n - 1
    OBVIOUS
  <2>8. /\ call.pc = "answered" /\ call.state = handler[h].state
        /\ call.range = handler[h].range /\ call.status = status
    OBVIOUS
  <2> HIDE DEF y, z, call
  <2> QED
    BY <1>3, <2>2, <2>3, <2>4, <2>5, <2>6, <2>7, <2>8 DEF CallOK
<1>9. CallsOK'
  <2> SUFFICES ASSUME NEW g \in Handlers, handler'[g] # Idle
               PROVE  CallOK(handler'[g], youtube'[handler'[g].session])
    BY DEF CallsOK
  <2>1. CASE g = h
    <3>1. handler'[g] = call
      BY <1>2, <2>1 DEF TypeOK
    <3> QED
      BY <1>6, <1>8, <3>1
  <2>2. CASE g # h
    <3>1. handler'[g] = handler[g] /\ handler[g] \in Call /\ handler[g] # Idle
      BY <1>2, <2>2 DEF TypeOK
    <3>2. CallOK(handler[g], youtube[handler[g].session])
      BY <3>1 DEF CallsOK
    <3>3. handler[g].session \in Sessions
      BY <3>1 DEF Call, Forwarding, Answered, Replied
    <3> QED
      BY <1>5, <1>6, <3>1, <3>2, <3>3
  <2> QED
    BY <2>1, <2>2
<1> QED
  BY <1>7, <1>9

\* A step that leaves YouTube alone and writes at most the state of one session.
LEMMA OneWrite ==
  ASSUME NEW s \in Sessions, NEW st, TypeOK, StoreOK,
         youtube' = youtube,
         store' = store \/ store' = [store EXCEPT ![s] = st],
         st # NoState => StateOK(st, youtube[s])
  PROVE  StoreOK'
BY DEF StoreOK, TypeOK

\* What is known when a request finishes: its range and answer, and what YouTube has.
LEMMA AnswerKnown ==
  ASSUME NEW h \in Handlers, TypeOK, CallsOK, handler[h].pc = "answered"
  PROVE  /\ handler[h] \in Answered
         /\ handler[h].session \in Sessions
         /\ CallOK(handler[h], youtube[handler[h].session])
         /\ StateOK(handler[h].state, youtube[handler[h].session])
<1>1. handler[h] \in Answered /\ handler[h] # Idle
  BY CallType DEF Idle
<1>2. CallOK(handler[h], youtube[handler[h].session])
  BY <1>1 DEF CallsOK
<1> QED
  BY <1>1, <1>2 DEF CallOK, Answered

\* Nothing that the broker stores, is about to store or has said is ahead of YouTube.
\* The invariant is inductive because it also holds of the states that requests have
\* read before their upstream fetch, and of the answers they have not handled yet.
THEOREM NeverAheadInvariant == Spec => []NeverAhead
<1>1. SessionInit => NeverAhead
  <2> SUFFICES ASSUME SessionInit PROVE NeverAhead
    OBVIOUS
  <2>1. TypeOK
    BY SessionAssumption DEF SessionInit, TypeOK, Call, Idle, State, Offset
  <2>2. StoreOK /\ CallsOK
    BY DEF SessionInit, StoreOK, CallsOK
  <2> QED
    BY <2>1, <2>2 DEF NeverAhead
<1>2. NeverAhead /\ TypeOK' /\ [Next]_sessionVars => NeverAhead'
  <2> SUFFICES ASSUME TypeOK, StoreOK, CallsOK, [Next]_sessionVars
               PROVE  StoreOK' /\ CallsOK'
    BY DEF NeverAhead
  <2>0. /\ handler \in [Handlers -> Call]
        /\ \A s \in Sessions : 0 <= youtube[s].stored
    BY SessionAssumption DEF TypeOK, Offset
  <2>1. ASSUME NEW s \in Sessions, Initialize(s) PROVE StoreOK' /\ CallsOK'
    <3>1. StateOK([nextOffset |-> 0, url |-> FALSE], youtube[s])
      BY <2>0 DEF StateOK
    <3> QED
      BY <2>1, <3>1, OneWrite DEF Initialize, CallsOK
  <2>2. ASSUME NEW s \in Sessions, NEW h \in Handlers, Expired(h, s)
        PROVE  StoreOK' /\ CallsOK'
    <3>1. StateOK([status |-> 410, nextOffset |-> 0, url |-> FALSE], youtube[s])
      BY <2>0 DEF StateOK
    <3> QED
      BY <2>0, <2>2, <3>1, OneReply DEF Expired, ReplyWith, StoreOK
  <2>3. ASSUME NEW s \in Sessions, NEW h \in Handlers, Status(h, s)
        PROVE  StoreOK' /\ CallsOK'
    <3>1. StateOK([status |-> 200, nextOffset |-> store[s].nextOffset, url |-> store[s].url],
                  youtube[s])
      BY <2>3 DEF Status, Live, StoreOK, StateOK
    <3> QED
      BY <2>0, <2>3, <3>1, OneReply DEF Status, ReplyWith, StoreOK
  <2>4. ASSUME NEW s \in Sessions, NEW h \in Handlers, Cancel(h, s)
        PROVE  StoreOK' /\ CallsOK'
    <3>1. StateOK([status |-> 200, nextOffset |-> 0, url |-> FALSE], youtube[s])
      BY <2>0 DEF StateOK
    <3>2. CallsOK'
      BY <2>0, <2>4, <3>1, OneReply DEF Cancel, ReplyWith
    <3> QED
      BY <2>4, <3>2, OneWrite DEF Cancel
  <2>5. ASSUME NEW s \in Sessions, NEW h \in Handlers, NEW header \in Header,
               NEW length \in Length, AnswerChunk(h, s, header, length)
        PROVE  StoreOK' /\ CallsOK'
    <3>1. StateOK([status |-> 400, nextOffset |-> 0, url |-> FALSE], youtube[s])
      BY <2>0 DEF StateOK
    <3>2. ASSUME NEW status \in {308, 409}
          PROVE  StateOK([status |-> status, nextOffset |-> store[s].nextOffset,
                          url |-> FALSE], youtube[s])
      BY <2>5 DEF AnswerChunk, Live, StoreOK, StateOK
    <3>3. PICK reply : /\ StateOK(reply, youtube[s])
                       /\ handler' = [handler EXCEPT ![h] =
                            [pc |-> "replied", session |-> s, reply |-> reply]]
      BY <2>5, <3>1, <3>2 DEF AnswerChunk, ReplyWith
    <3>4. CallsOK'
      BY <2>0, <2>5, <3>3, OneReply DEF AnswerChunk
    <3> QED
      BY <2>5, <3>4 DEF AnswerChunk, StoreOK
  <2>6. ASSUME NEW s \in Sessions, NEW h \in Handlers, NEW header \in Header,
               NEW length \in Length, ForwardChunk(h, s, header, length)
        PROVE  StoreOK' /\ CallsOK'
    <3> DEFINE call == [pc |-> "upstream", session |-> s, range |-> header,
                        state |-> store[s]]
    <3>1. store[s] \in State /\ StateOK(store[s], youtube[s])
      BY <2>6 DEF ForwardChunk, Live, StoreOK, TypeOK
    <3>2. header.start = store[s].nextOffset
      BY <2>6, <3>1, ForwardedInSequence DEF ForwardChunk
    <3>3. CallOK(call, youtube[call.session])
      BY <3>1, <3>2 DEF CallOK, StateOK
    <3>4. CallsOK'
      BY <2>0, <2>6, <3>3, OneCall DEF ForwardChunk
    <3> QED
      BY <2>6, <3>4 DEF ForwardChunk, StoreOK
  <2>7. ASSUME NEW h \in Handlers, YouTubeAnswers(h) PROVE StoreOK' /\ CallsOK'
    BY <2>7, AnswerNotAhead
  <2>8. ASSUME NEW h \in Handlers, FinishIncomplete(h) PROVE StoreOK' /\ CallsOK'
    <3> DEFINE s == handler[h].session
               offset == NextOffsetFromRange(handler[h].header, handler[h].range.end + 1)
               st == [handler[h].state EXCEPT !.nextOffset = offset]
               reply == [status |-> 308, nextOffset |-> offset, url |-> FALSE]
    <3>1. /\ handler[h] \in Answered /\ s \in Sessions
          /\ CallOK(handler[h], youtube[s]) /\ StateOK(handler[h].state, youtube[s])
      BY <2>8, AnswerKnown DEF FinishIncomplete
    <3>2. ~MayStoreNothing => offset <= youtube[s].stored
      BY <2>8, <3>1 DEF FinishIncomplete, CallOK, NextOffsetFromRange
    <3>3. StateOK(reply, youtube[s])
      BY <3>2 DEF StateOK
    <3>4. st.url = handler[h].state.url /\ st.nextOffset = offset
      BY <3>1 DEF Answered, State
    <3>5. StateOK(st, youtube[s])
      BY <3>1, <3>2, <3>4 DEF StateOK
    <3>6. CallsOK'
      BY <2>0, <2>8, <3>1, <3>3, OneReply DEF FinishIncomplete, ReplyWith
    <3> QED
      BY <2>8, <3>1, <3>5, <3>6, OneWrite DEF FinishIncomplete
  <2>9. ASSUME NEW h \in Handlers, FinishComplete(h) PROVE StoreOK' /\ CallsOK'
    <3> DEFINE s == handler[h].session
    <3>1. s \in Sessions /\ CallOK(handler[h], youtube[s])
      BY <2>9, AnswerKnown DEF FinishComplete
    <3>2. youtube[s].published /\ youtube[s].stored = Total
      BY <2>9, <3>1 DEF FinishComplete, CallOK, StoreOK
    <3>3. /\ StateOK([nextOffset |-> Total, url |-> TRUE], youtube[s])
          /\ StateOK([status |-> 200, nextOffset |-> Total, url |-> TRUE], youtube[s])
      BY <3>2, SessionAssumption DEF StateOK
    <3>4. CallsOK'
      BY <2>0, <2>9, <3>1, <3>3, OneReply DEF FinishComplete, ReplyWith
    <3> QED
      BY <2>9, <3>1, <3>3, <3>4, OneWrite DEF FinishComplete
  <2>10. ASSUME NEW h \in Handlers, FinishFailed(h) PROVE StoreOK' /\ CallsOK'
    <3>1. handler[h].session \in Sessions
      BY <2>10, AnswerKnown DEF FinishFailed
    <3>2. ASSUME NEW status \in {502, 503}
          PROVE  StateOK([status |-> status, nextOffset |-> 0, url |-> FALSE],
                         youtube[handler[h].session])
      BY <2>0, <3>1 DEF StateOK
    <3>3. PICK reply : /\ StateOK(reply, youtube[handler[h].session])
                       /\ handler' = [handler EXCEPT ![h] =
                            [pc |-> "replied", session |-> handler[h].session,
                             reply |-> reply]]
      BY <2>10, <3>2 DEF FinishFailed, ReplyWith
    <3>4. CallsOK'
      BY <2>0, <2>10, <3>1, <3>3, OneReply DEF FinishFailed
    <3> QED
      BY <2>10, <3>4 DEF FinishFailed, StoreOK
  <2>11. ASSUME NEW h \in Handlers, Close(h) PROVE StoreOK' /\ CallsOK'
    BY <2>0, <2>11 DEF Close, StoreOK, CallsOK
  <2>12. ASSUME NEW s \in Sessions, Restart(s) PROVE StoreOK' /\ CallsOK'
    BY <2>12 DEF Restart, StoreOK, CallsOK
  <2>13. ASSUME NEW s \in Sessions, Expire(s) PROVE StoreOK' /\ CallsOK'
    BY <2>13 DEF Expire, StoreOK, CallsOK
  <2>14. ASSUME NEW s \in Sessions, Alarm(s) PROVE StoreOK' /\ CallsOK'
    BY <2>14, OneWrite DEF Alarm, CallsOK
  <2>15. CASE UNCHANGED sessionVars
    BY <2>15 DEF sessionVars, StoreOK, CallsOK
  <2> QED
    BY <2>1, <2>2, <2>3, <2>4, <2>5, <2>6, <2>7, <2>8, <2>9, <2>10, <2>11, <2>12, <2>13,
       <2>14, <2>15 DEF Next, Receive, Finish
<1> QED
  BY <1>1, <1>2, TypeCorrect, PTL DEF Spec

\* A url is stored, and given to a client, only for a video YouTube has in full.
THEOREM UrlIsPublished == Spec => []UrlOnlyIfPublished
<1>1. NeverAhead => UrlOnlyIfPublished
  <2> SUFFICES ASSUME TypeOK, StoreOK, CallsOK PROVE UrlOnlyIfPublished
    BY DEF NeverAhead
  <2>1. ASSUME NEW s \in Sessions, store[s] # NoState, store[s].url
        PROVE  youtube[s].published
    BY <2>1 DEF StoreOK, StateOK
  <2>2. ASSUME NEW h \in Handlers, handler[h].pc = "replied", handler[h].reply.url
        PROVE  youtube[handler[h].session].published
    BY <2>2 DEF CallsOK, CallOK, StateOK, Idle
  <2> QED
    BY <2>1, <2>2 DEF UrlOnlyIfPublished
<1> QED
  BY <1>1, NeverAheadInvariant, PTL

\* No byte is skipped, provided that YouTube stores some of every chunk it answers
\* with 308: line 128 of index.ts takes the end of the chunk for the offset otherwise.
THEOREM NothingSkipped ==
  ASSUME MayStoreNothing = FALSE
  PROVE  Spec => []NoSkippedBytes
<1>1. NeverAhead => NoSkippedBytes
  <2> SUFFICES ASSUME TypeOK, StoreOK, CallsOK PROVE NoSkippedBytes
    BY DEF NeverAhead
  <2>1. ASSUME NEW s \in Sessions, store[s] # NoState
        PROVE  store[s].nextOffset <= youtube[s].stored
    BY <2>1 DEF StoreOK, StateOK
  <2>2. ASSUME NEW h \in Handlers, handler[h].pc = "upstream"
        PROVE  handler[h].range.start <= youtube[handler[h].session].stored
    BY <2>2 DEF CallsOK, CallOK, Idle
  <2>3. ASSUME NEW h \in Handlers, handler[h].pc = "replied"
        PROVE  handler[h].reply.nextOffset <= youtube[handler[h].session].stored
    BY <2>3 DEF CallsOK, CallOK, StateOK, Idle
  <2> QED
    BY <2>1, <2>2, <2>3 DEF NoSkippedBytes
<1> QED
  BY <1>1, NeverAheadInvariant, PTL
-----------------------------------------------------------------------------
(* Sessions whose PUTs do not overlap                                        *)

\* What the answer that h has not handled yet says is what YouTube has.
AnswerCurrent(h) ==
  handler[h].pc = "answered" =>
    LET stored == youtube[handler[h].session].stored IN
    /\ handler[h].status = "incomplete" => handler[h].header + 1 = stored
    /\ handler[h].status = "complete" => stored = Total

\* Unless the session was overlapped, its alarm is set, its stored offset is ahead of
\* YouTube only if YouTube has nothing, and a PUT in flight is the only one and continues
\* the stored state.
SessionSerial(s) ==
  /\ store[s] # NoState =>
       /\ s \in opened
       /\ ~overlapped[s] =>
            /\ alarm[s]
            /\ youtube[s].stored > 0 => store[s].nextOffset <= youtube[s].stored
  /\ \A h \in InFlight(s) :
       /\ s \in opened
       /\ handler[h].range.start = handler[h].state.nextOffset
       /\ ~overlapped[s] => /\ store[s] = handler[h].state /\ AnswerCurrent(h)
                            /\ \A g \in InFlight(s) : g = h

SerialInv == \A s \in Sessions : SessionSerial(s)

\* A request in flight is well typed.
LEMMA InFlightType ==
  ASSUME TypeOK, NEW s \in Sessions, NEW h \in InFlight(s)
  PROVE  /\ h \in Handlers /\ handler[h].session = s
         /\ handler[h] \in Forwarding \cup Answered
         /\ handler[h].state \in State /\ handler[h].range \in Accepted
BY CallType DEF InFlight, Forwarding, Answered

\* A step that ends requests, and writes nothing of a session, keeps it serial.
LEMMA FewerCalls ==
  ASSUME TypeOK, NEW s \in Sessions, SessionSerial(s),
         \A h \in Handlers : \/ handler'[h] = handler[h]
                             \/ handler'[h].pc \notin {"upstream", "answered"}
                             \/ handler'[h].session # s,
         s \in opened => s \in opened',
         store'[s] = store[s], alarm'[s] = alarm[s], youtube'[s] = youtube[s],
         overlapped'[s] = overlapped[s]
  PROVE  SessionSerial(s)'
<1>1. \A h \in InFlight(s)' : h \in InFlight(s) /\ handler'[h] = handler[h]
  BY DEF InFlight
<1>2. \A h \in InFlight(s)' : AnswerCurrent(h) => AnswerCurrent(h)'
  <2> SUFFICES ASSUME NEW h \in InFlight(s)', AnswerCurrent(h) PROVE AnswerCurrent(h)'
    OBVIOUS
  <2>1. handler'[h] = handler[h] /\ handler[h].session = s
    BY <1>1 DEF InFlight
  <2> QED
    BY <2>1 DEF AnswerCurrent
<1> QED
  BY <1>1, <1>2 DEF SessionSerial

\* A step that leaves everything but requests alone, and ends some of them.
LEMMA OnlyFewerCalls ==
  ASSUME TypeOK, SerialInv,
         \A h \in Handlers : \/ handler'[h] = handler[h]
                             \/ handler'[h].pc \notin {"upstream", "answered"},
         UNCHANGED <<store, alarm, opened, youtube, overlapped>>
  PROVE  SerialInv'
BY FewerCalls DEF SerialInv

\* A request that is replied to is not in flight any more, and the others are as before.
LEMMA RepliedCall ==
  ASSUME TypeOK, NEW h \in Handlers, NEW s, NEW status, NEW offset, NEW url,
         ReplyWith(h, s, status, offset, url)
  PROVE  /\ handler'[h].pc = "replied"
         /\ \A g \in Handlers : handler'[g] = handler[g] \/ handler'[g].pc = "replied"
         /\ \A g \in Handlers \ {h} : handler'[g] = handler[g]
BY DEF TypeOK, ReplyWith

\* A step that deletes the stored state of a session, whether or not a PUT is in flight.
LEMMA Deletion ==
  ASSUME TypeOK, NEW s \in Sessions, SerialInv,
         \A h \in Handlers : handler'[h] = handler[h] \/ handler'[h].pc = "replied",
         store' = [store EXCEPT ![s] = NoState],
         alarm' = [alarm EXCEPT ![s] = FALSE],
         overlapped' = [overlapped EXCEPT ![s] = @ \/ InFlight(s) # {}],
         UNCHANGED <<opened, youtube>>
  PROVE  SerialInv'
<1> SUFFICES ASSUME NEW t \in Sessions PROVE SessionSerial(t)'
  BY DEF SerialInv
<1>1. CASE t # s
  BY <1>1, FewerCalls DEF TypeOK, SerialInv
<1>2. CASE t = s
  <2>1. store'[s] = NoState /\ (~overlapped'[s] => InFlight(s) = {})
    BY DEF TypeOK
  <2>2. \A h \in InFlight(s)' : h \in InFlight(s) /\ handler'[h] = handler[h]
    BY DEF InFlight
  <2> QED
    BY <1>2, <2>1, <2>2 DEF SerialInv, SessionSerial
<1> QED
  BY <1>1, <1>2

\* A PUT that finishes writes its state, and is not in flight any more.  It keeps the
\* session serial when, alone, it leaves the offset within what YouTube has.
LEMMA Writing ==
  ASSUME TypeOK, NEW h \in Handlers, NEW s \in Sessions, h \in InFlight(s), SerialInv,
         handler'[h].pc = "replied",
         \A g \in Handlers \ {h} : handler'[g] = handler[g],
         NEW st \in State, store' = [store EXCEPT ![s] = st],
         ~overlapped[s] /\ youtube[s].stored > 0 => st.nextOffset <= youtube[s].stored,
         UNCHANGED <<alarm, opened, youtube, overlapped>>
  PROVE  SerialInv'
<1> SUFFICES ASSUME NEW t \in Sessions PROVE SessionSerial(t)'
  BY DEF SerialInv
<1>1. CASE t # s
  BY <1>1, FewerCalls DEF TypeOK, SerialInv
<1>2. CASE t = s
  <2>1. store'[s] = st /\ SessionSerial(s)
    BY DEF TypeOK, SerialInv
  <2>2. \A g \in InFlight(s)' : g # h /\ g \in InFlight(s) /\ handler'[g] = handler[g]
    BY DEF InFlight
  <2>3. CASE overlapped[s]
    BY <1>2, <2>1, <2>2, <2>3 DEF SessionSerial
  <2>4. CASE ~overlapped[s]
    <3>1. \A g \in InFlight(s) : g = h
      BY <2>1, <2>4 DEF SessionSerial
    <3>2. InFlight(s)' = {}
      BY <2>2, <3>1
    <3>3. store[s] # NoState
      <4>1. store[s] = handler[h].state
        BY <2>1, <2>4 DEF SessionSerial
      <4> QED
        BY <4>1, InFlightType, SessionAssumption
    <3>4. alarm[s] /\ s \in opened
      BY <2>1, <2>4, <3>3 DEF SessionSerial
    <3> QED
      BY <1>2, <2>1, <3>2, <3>4 DEF SessionSerial
  <2> QED
    BY <2>3, <2>4
<1> QED
  BY <1>1, <1>2

\* What a PUT of a session that is not overlapped writes is not behind what is stored.
LEMMA SerialOffset ==
  ASSUME TypeOK, NEW h \in Handlers, SerialInv, FinishIncomplete(h)
  PROVE  LET s == handler[h].session
             offset == NextOffsetFromRange(handler[h].header, handler[h].range.end + 1)
         IN /\ s \in Sessions /\ h \in InFlight(s)
            /\ [handler[h].state EXCEPT !.nextOffset = offset] \in State
            /\ ~overlapped[s] => /\ offset >= handler[h].state.nextOffset
                                 /\ youtube[s].stored > 0 => offset <= youtube[s].stored
<1> DEFINE s == handler[h].session
           offset == NextOffsetFromRange(handler[h].header, handler[h].range.end + 1)
           stored == youtube[s].stored
<1>1. handler[h] \in Answered /\ handler[h].pc = "answered" /\ handler[h].status = "incomplete"
  BY CallType DEF FinishIncomplete
<1>2. s \in Sessions /\ h \in InFlight(s)
  BY <1>1 DEF Answered, InFlight
<1>3. /\ handler[h].state \in State /\ handler[h].range \in Accepted
      /\ handler[h].header \in -1..(Total - 1)
  BY <1>1 DEF Answered
<1>4. /\ handler[h].range.start \in Nat /\ handler[h].range.end \in Nat
      /\ handler[h].range.start <= handler[h].range.end /\ handler[h].range.end < Total
      /\ handler[h].state.nextOffset \in Nat
  BY <1>3, SessionAssumption DEF Accepted, ByteRange, Offset, State
<1>5. offset \in Offset
  BY <1>3, <1>4, SessionAssumption DEF NextOffsetFromRange, NoHeader, Offset
<1>6. [handler[h].state EXCEPT !.nextOffset = offset] \in State
  BY <1>3, <1>5 DEF State
<1>7. ASSUME ~overlapped[s]
      PROVE  offset >= handler[h].state.nextOffset /\ (stored > 0 => offset <= stored)
  <2>1. /\ handler[h].range.start = handler[h].state.nextOffset
        /\ store[s] = handler[h].state /\ store[s] # NoState /\ AnswerCurrent(h)
    BY <1>2, <1>3, <1>7, SessionAssumption DEF SerialInv, SessionSerial
  <2>2. stored > 0 => handler[h].state.nextOffset <= stored
    BY <1>2, <1>7, <2>1 DEF SerialInv, SessionSerial
  <2>3. handler[h].header + 1 = stored
    BY <1>1, <2>1 DEF AnswerCurrent
  <2> HIDE DEF s, stored
  <2> QED
    BY <1>3, <1>4, <2>1, <2>2, <2>3 DEF NextOffsetFromRange, NoHeader
<1> QED
  BY <1>2, <1>6, <1>7

\* What YouTube does with the only PUT in flight of a session.
LEMMA SerialAnswer ==
  ASSUME TypeOK, NEW h \in Handlers, SerialInv, YouTubeAnswers(h)
  PROVE  SerialInv'
<1>0. handler[h] \in Forwarding
  BY CallType DEF YouTubeAnswers
<1> PICK s \in Sessions : s = handler[h].session
  BY <1>0 DEF Forwarding
<1> DEFINE y == youtube[s].stored
<1>1. handler[h] \in Forwarding /\ s \in Sessions /\ h \in InFlight(s)
  BY <1>0 DEF Forwarding, InFlight
<1>2. PICK n \in StorableBy(handler[h].range, y),
           status \in {"complete", "incomplete", "refused", "failed"} :
        /\ status = "complete" => n = Total
        /\ youtube' = [youtube EXCEPT ![s] = [stored |-> n, published |-> n = Total]]
        /\ handler' = [handler EXCEPT ![h] =
             [pc |-> "answered", session |-> s, range |-> handler[h].range,
              state |-> handler[h].state, status |-> status,
              header |-> IF status = "incomplete" THEN n - 1 ELSE NoHeader]]
  <2> DEFINE Answer(t, n, status) ==
        /\ status = "complete" => n = Total
        /\ youtube' = [youtube EXCEPT ![t] = [stored |-> n, published |-> n = Total]]
        /\ handler' = [handler EXCEPT ![h] =
             [pc |-> "answered", session |-> t, range |-> handler[h].range,
              state |-> handler[h].state, status |-> status,
              header |-> IF status = "incomplete" THEN n - 1 ELSE NoHeader]]
  <2>1. \E n \in StorableBy(handler[h].range, youtube[handler[h].session].stored),
            status \in {"complete", "incomplete", "refused", "failed"} :
          Answer(handler[h].session, n, status)
    BY DEF YouTubeAnswers
  <2>2. \E n \in StorableBy(handler[h].range, y),
            status \in {"complete", "incomplete", "refused", "failed"} :
          Answer(s, n, status)
    <3> HIDE DEF Answer
    <3> QED
      BY <2>1
  <2> QED
    BY <2>2
<1>3. /\ n \in Int /\ y \in Int /\ y >= 0 /\ n >= y
      /\ n > y => handler[h].range.start <= y
  <2>1. n \in Offset /\ n >= y /\ (n > y => handler[h].range.start <= y)
    BY <1>2 DEF StorableBy
  <2>2. y \in Offset
    BY <1>1 DEF TypeOK
  <2> HIDE DEF y
  <2> QED
    BY <2>1, <2>2, SessionAssumption DEF Offset
<1>4. /\ handler'[h].pc = "answered" /\ handler'[h].session = s
      /\ handler'[h].range = handler[h].range /\ handler'[h].state = handler[h].state
      /\ handler'[h].status = status
      /\ status = "incomplete" => handler'[h].header = n - 1
      /\ \A g \in Handlers \ {h} : handler'[g] = handler[g]
  BY <1>2 DEF TypeOK
<1>5. youtube'[s].stored = n /\ \A t \in Sessions \ {s} : youtube'[t] = youtube[t]
  BY <1>1, <1>2 DEF TypeOK
<1>6. UNCHANGED <<store, alarm, opened, overlapped>>
  BY DEF YouTubeAnswers
<1> SUFFICES ASSUME NEW t \in Sessions PROVE SessionSerial(t)'
  BY DEF SerialInv
<1>7. CASE t # s
  BY <1>4, <1>5, <1>6, <1>7, FewerCalls DEF SerialInv
<1>8. SessionSerial(s)'
  <2>1. SessionSerial(s)
    BY <1>1 DEF SerialInv
  <2>2. InFlight(s)' = InFlight(s)
    BY <1>1, <1>4 DEF InFlight
  <2>3. \A g \in InFlight(s) : handler'[g].range = handler[g].range
                               /\ handler'[g].state = handler[g].state
    BY <1>4 DEF InFlight
  <2>4. CASE overlapped[s]
    <3> QED
      BY <1>6, <2>1, <2>2, <2>3, <2>4 DEF SessionSerial
  <2>5. CASE ~overlapped[s]
    <3>1. /\ \A g \in InFlight(s) : g = h
          /\ s \in opened /\ handler[h].range.start = handler[h].state.nextOffset
          /\ store[s] = handler[h].state
      BY <1>1, <2>1, <2>5 DEF SessionSerial
    <3>2. store[s] # NoState
      BY <1>1, <3>1, InFlightType, SessionAssumption
    <3>3. alarm[s] /\ (y > 0 => store[s].nextOffset <= y)
      BY <2>1, <2>5, <3>2 DEF SessionSerial
    <3>4. store[s].nextOffset \in Int
      BY <1>1, <3>2, SessionAssumption DEF TypeOK, State, Offset
    <3>5. n > 0 => store[s].nextOffset <= n
      <4> QED
        BY <1>3, <3>1, <3>3, <3>4
    <3>6. AnswerCurrent(h)'
      BY <1>2, <1>3, <1>4, <1>5 DEF AnswerCurrent
    <3> QED
      BY <1>4, <1>5, <1>6, <2>2, <3>1, <3>2, <3>3, <3>5, <3>6 DEF SessionSerial
  <2> QED
    BY <2>4, <2>5
<1> QED
  BY <1>7, <1>8

\* The PUT that is forwarded continues the stored state; when another one is in flight the
\* session is overlapped from now on.
LEMMA SerialForward ==
  ASSUME TypeOK, NEW h \in Handlers, NEW s \in Sessions, NEW header \in Header,
         NEW length \in Length, SerialInv, ForwardChunk(h, s, header, length)
  PROVE  SerialInv'
<1>1. store[s] \in State /\ store[s] # NoState
  BY DEF ForwardChunk, Live, TypeOK
<1>2. header.start = store[s].nextOffset
  BY <1>1, ForwardedInSequence DEF ForwardChunk
<1>3. /\ handler'[h] = [pc |-> "upstream", session |-> s, range |-> header,
                        state |-> store[s]]
      /\ \A g \in Handlers \ {h} : handler'[g] = handler[g]
      /\ handler[h] = Idle
  BY DEF ForwardChunk, TypeOK
<1>4. overlapped' = [overlapped EXCEPT ![s] = @ \/ InFlight(s) # {}]
      /\ UNCHANGED <<store, alarm, opened, youtube>>
  BY DEF ForwardChunk
<1> SUFFICES ASSUME NEW t \in Sessions PROVE SessionSerial(t)'
  BY DEF SerialInv
<1>5. CASE t # s
  BY <1>3, <1>4, <1>5, FewerCalls DEF TypeOK, SerialInv
<1>6. CASE t = s
  <2>1. SessionSerial(s) /\ overlapped'[s] = (overlapped[s] \/ InFlight(s) # {})
    BY <1>4 DEF SerialInv, TypeOK
  <2>2. InFlight(s)' = InFlight(s) \cup {h}
    BY <1>3 DEF InFlight, Idle
  <2>3. h \notin InFlight(s)
    BY <1>3 DEF InFlight, Idle
  <2>4. \A g \in InFlight(s) : handler'[g] = handler[g]
    BY <1>3, <2>3 DEF InFlight
  <2>5. s \in opened
    BY <1>1, <2>1 DEF SessionSerial
  <2>6. CASE overlapped'[s]
    BY <1>1, <1>2, <1>3, <1>4, <1>6, <2>1, <2>2, <2>4, <2>5, <2>6 DEF SessionSerial
  <2>7. CASE ~overlapped'[s]
    <3>1. ~overlapped[s] /\ InFlight(s)' = {h}
      BY <2>1, <2>2, <2>7
    <3>2. AnswerCurrent(h)'
      BY <1>3 DEF AnswerCurrent
    <3> QED
      BY <1>1, <1>2, <1>3, <1>4, <1>6, <2>1, <2>5, <3>1, <3>2 DEF SessionSerial
  <2> QED
    BY <2>6, <2>7
<1> QED
  BY <1>5, <1>6

LEMMA SerialInvariant == Spec => []SerialInv
<1>1. SessionInit => SerialInv
  BY DEF SessionInit, SerialInv, SessionSerial, InFlight, Idle
<1>2. TypeOK /\ SerialInv /\ [Next]_sessionVars => SerialInv'
  <2> SUFFICES ASSUME TypeOK, SerialInv, [Next]_sessionVars PROVE SerialInv'
    OBVIOUS
  <2>1. ASSUME NEW s \in Sessions, Initialize(s) PROVE SerialInv'
    <3> SUFFICES ASSUME NEW t \in Sessions PROVE SessionSerial(t)'
      BY DEF SerialInv
    <3>1. /\ UNCHANGED <<youtube, handler, overlapped>> /\ s \notin opened
          /\ opened' = opened \cup {s}
          /\ store' = [store EXCEPT ![s] = [nextOffset |-> 0, url |-> FALSE]]
          /\ alarm' = [alarm EXCEPT ![s] = TRUE]
      BY <2>1 DEF Initialize
    <3>2. CASE t # s
      BY <3>1, <3>2, FewerCalls DEF TypeOK, SerialInv
    <3>3. CASE t = s
      <4>1. InFlight(s) = {}
        BY <3>1 DEF SerialInv, SessionSerial
      <4>2. InFlight(s)' = {}
        BY <3>1, <4>1 DEF InFlight
      <4>3. /\ store'[s].nextOffset = 0 /\ alarm'[s] /\ s \in opened'
            /\ youtube'[s].stored \in Int
        BY <3>1, SessionAssumption DEF TypeOK, Offset
      <4> QED
        BY <3>3, <4>2, <4>3 DEF SessionSerial
    <3> QED
      BY <3>2, <3>3
  <2>2. ASSUME NEW s \in Sessions, NEW h \in Handlers,
               Expired(h, s) \/ Status(h, s)
        PROVE  SerialInv'
    <3>1. \A g \in Handlers : handler'[g] = handler[g] \/ handler'[g].pc = "replied"
      BY <2>2, RepliedCall DEF Expired, Status
    <3>2. UNCHANGED <<store, alarm, opened, youtube, overlapped>>
      BY <2>2 DEF Expired, Status
    <3> QED
      BY <3>1, <3>2, OnlyFewerCalls
  <2>3. ASSUME NEW s \in Sessions, NEW h \in Handlers, Cancel(h, s) PROVE SerialInv'
    <3>1. \A g \in Handlers : handler'[g] = handler[g] \/ handler'[g].pc = "replied"
      BY <2>3, RepliedCall DEF Cancel
    <3> QED
      BY <2>3, <3>1, Deletion DEF Cancel
  <2>4. ASSUME NEW s \in Sessions, NEW h \in Handlers, NEW header \in Header,
               NEW length \in Length, AnswerChunk(h, s, header, length)
        PROVE  SerialInv'
    <3>1. \A g \in Handlers : handler'[g] = handler[g] \/ handler'[g].pc = "replied"
      BY <2>4, RepliedCall DEF AnswerChunk
    <3>2. UNCHANGED <<store, alarm, opened, youtube, overlapped>>
      BY <2>4 DEF AnswerChunk
    <3> QED
      BY <3>1, <3>2, OnlyFewerCalls
  <2>5. ASSUME NEW s \in Sessions, NEW h \in Handlers, NEW header \in Header,
               NEW length \in Length, ForwardChunk(h, s, header, length)
        PROVE  SerialInv'
    BY <2>5, SerialForward
  <2>6. ASSUME NEW h \in Handlers, YouTubeAnswers(h) PROVE SerialInv'
    BY <2>6, SerialAnswer
  <2>7. ASSUME NEW h \in Handlers, FinishIncomplete(h) PROVE SerialInv'
    <3> DEFINE s == handler[h].session
               offset == NextOffsetFromRange(handler[h].header, handler[h].range.end + 1)
               st == [handler[h].state EXCEPT !.nextOffset = offset]
    <3>1. /\ s \in Sessions /\ h \in InFlight(s) /\ st \in State
          /\ ~overlapped[s] /\ youtube[s].stored > 0 => offset <= youtube[s].stored
      BY <2>7, SerialOffset
    <3>2. st.nextOffset = offset
      BY <3>1, InFlightType DEF State
    <3>3. /\ store' = [store EXCEPT ![s] = st] /\ ReplyWith(h, s, 308, offset, FALSE)
          /\ UNCHANGED <<alarm, opened, youtube, overlapped>>
      BY <2>7 DEF FinishIncomplete
    <3> HIDE DEF s, offset, st
    <3>4. handler'[h].pc = "replied" /\ \A g \in Handlers \ {h} : handler'[g] = handler[g]
      BY <3>3, RepliedCall
    <3> QED
      BY <3>1, <3>2, <3>3, <3>4, Writing
  <2>8. ASSUME NEW h \in Handlers, FinishComplete(h) PROVE SerialInv'
    <3> DEFINE s == handler[h].session
    <3>1. handler[h] \in Answered /\ s \in Sessions /\ h \in InFlight(s)
      BY <2>8, CallType DEF FinishComplete, Answered, InFlight
    <3>2. ~overlapped[s] => youtube[s].stored = Total
      BY <2>8, <3>1 DEF FinishComplete, SerialInv, SessionSerial, AnswerCurrent
    <3> DEFINE st == [nextOffset |-> Total, url |-> TRUE]
    <3>3. st \in State /\ st.nextOffset = Total /\ Total <= Total
      BY SessionAssumption DEF State, Offset
    <3>4. /\ store' = [store EXCEPT ![s] = st]
          /\ ReplyWith(h, s, 200, Total, TRUE)
          /\ UNCHANGED <<alarm, opened, youtube, overlapped>>
      BY <2>8 DEF FinishComplete
    <3> HIDE DEF s, st
    <3>5. handler'[h].pc = "replied" /\ \A g \in Handlers \ {h} : handler'[g] = handler[g]
      BY <3>4, RepliedCall
    <3> QED
      BY <3>1, <3>2, <3>3, <3>4, <3>5, Writing
  <2>9. ASSUME NEW h \in Handlers, FinishFailed(h) PROVE SerialInv'
    <3>1. \A g \in Handlers : handler'[g] = handler[g] \/ handler'[g].pc = "replied"
      BY <2>9, RepliedCall DEF FinishFailed
    <3>2. UNCHANGED <<store, alarm, opened, youtube, overlapped>>
      BY <2>9 DEF FinishFailed
    <3> QED
      BY <3>1, <3>2, OnlyFewerCalls
  <2>10. ASSUME NEW h \in Handlers, Close(h) PROVE SerialInv'
    <3>1. \A g \in Handlers : handler'[g] = handler[g] \/ handler'[g] = Idle
      BY <2>10 DEF Close, TypeOK
    <3> QED
      BY <2>10, <3>1, OnlyFewerCalls DEF Close, Idle
  <2>11. ASSUME NEW s \in Sessions, Restart(s) PROVE SerialInv'
    <3>1. \A g \in Handlers : handler'[g] = handler[g] \/ handler'[g] = Idle
      BY <2>11 DEF Restart
    <3> QED
      BY <2>11, <3>1, OnlyFewerCalls DEF Restart, Idle
  <2>12. ASSUME NEW s \in Sessions, Expire(s) PROVE SerialInv'
    BY <2>12, OnlyFewerCalls DEF Expire
  <2>13. ASSUME NEW s \in Sessions, Alarm(s) PROVE SerialInv'
    BY <2>13, Deletion DEF Alarm
  <2>14. CASE UNCHANGED sessionVars
    BY <2>14, OnlyFewerCalls DEF sessionVars
  <2> QED
    BY <2>1, <2>2, <2>3, <2>4, <2>5, <2>6, <2>7, <2>8, <2>9, <2>10, <2>11, <2>12, <2>13,
       <2>14 DEF Next, Receive, Finish
<1> QED
  BY <1>1, <1>2, TypeCorrect, PTL DEF Spec

\* A session that is stored is going to be deleted: its alarm is set, unless a PUT
\* overlapped another PUT or the deletion.
THEOREM DeletionIsScheduled == Spec => []DeletionScheduled
<1>1. SerialInv => DeletionScheduled
  BY DEF SerialInv, SessionSerial, DeletionScheduled
<1> QED
  BY <1>1, SerialInvariant, PTL

\* As long as no PUT of a session overlaps another one, or a deletion, the stored offset
\* never goes back and a stored url is never lost: also when YouTube answers 308 without
\* having stored anything, because the offset is then ahead of YouTube only while YouTube
\* has nothing.
THEOREM ProgressIsSerial == Spec => SerialProgress
<1> DEFINE Kept(s) == ~overlapped'[s] /\ store[s] # NoState /\ store'[s] # NoState =>
                        /\ store'[s].nextOffset >= store[s].nextOffset
                        /\ store[s].url => store'[s].url
<1>1. TypeOK /\ SerialInv /\ [Next]_sessionVars => \A s \in Sessions : Kept(s)
  <2> SUFFICES ASSUME TypeOK, SerialInv, [Next]_sessionVars, NEW t \in Sessions,
                      store[t] # NoState
               PROVE  Kept(t)
    BY DEF Kept
  <2>0. store[t].nextOffset \in Int
    BY SessionAssumption DEF TypeOK, State, Offset
  <2>1. CASE store'[t] = store[t]
    BY <2>0, <2>1
  <2>2. ASSUME NEW s \in Sessions, Initialize(s) PROVE Kept(t)
    <3>1. t \in opened
      BY DEF SerialInv, SessionSerial
    <3>2. store'[t] = store[t]
      BY <2>2, <3>1 DEF Initialize, TypeOK
    <3> QED
      BY <2>1, <3>2
  <2>3. CASE \E s \in Sessions : Alarm(s) \/ \E h \in Handlers : Cancel(h, s)
    <3>1. store'[t] = store[t] \/ store'[t] = NoState
      BY <2>3 DEF Alarm, Cancel, TypeOK
    <3> QED
      BY <2>1, <3>1
  <2>4. ASSUME NEW h \in Handlers, FinishIncomplete(h) PROVE Kept(t)
    <3> DEFINE s == handler[h].session
               offset == NextOffsetFromRange(handler[h].header, handler[h].range.end + 1)
               st == [handler[h].state EXCEPT !.nextOffset = offset]
    <3>1. CASE t # s
      BY <2>1, <2>4, <3>1 DEF FinishIncomplete, TypeOK
    <3>2. CASE t = s /\ ~overlapped[s]
      <4>1. h \in InFlight(s) /\ offset >= handler[h].state.nextOffset
        BY <2>4, <3>2, SerialOffset
      <4>2. store[s] = handler[h].state
        BY <3>2, <4>1 DEF SerialInv, SessionSerial
      <4>3. store'[s] = st
        BY <2>4, <3>2 DEF FinishIncomplete, TypeOK
      <4>4. handler[h].state \in State
        BY <3>2, <4>1, InFlightType
      <4>5. st.nextOffset = offset /\ st.url = handler[h].state.url
        BY <4>4 DEF State
      <4> HIDE DEF s, offset, st
      <4> QED
        BY <3>2, <4>1, <4>2, <4>3, <4>5
    <3>3. CASE t = s /\ overlapped[s]
      BY <2>4, <3>3 DEF FinishIncomplete
    <3> QED
      BY <3>1, <3>2, <3>3
  <2>5. ASSUME NEW h \in Handlers, FinishComplete(h) PROVE Kept(t)
    <3>1. CASE t # handler[h].session
      BY <2>1, <2>5, <3>1 DEF FinishComplete, TypeOK
    <3>2. CASE t = handler[h].session
      <4>1. store'[t] = [nextOffset |-> Total, url |-> TRUE]
        BY <2>5, <3>2 DEF FinishComplete, TypeOK
      <4>2. store[t].nextOffset <= Total
        BY SessionAssumption DEF TypeOK, State, Offset
      <4> QED
        BY <4>1, <4>2, <2>0, SessionAssumption
    <3> QED
      BY <3>1, <3>2
  <2>6. CASE store' = store
    BY <2>1, <2>6
  <2>7. \/ \E s \in Sessions : Initialize(s) \/ Alarm(s) \/ \E h \in Handlers : Cancel(h, s)
        \/ \E h \in Handlers : FinishIncomplete(h) \/ FinishComplete(h)
        \/ store' = store
    <3>1. ASSUME NEW h \in Handlers, NEW s \in Sessions, Receive(h, s), ~Cancel(h, s)
          PROVE  store' = store
      BY <3>1 DEF Receive, Expired, Status, AnswerChunk, ForwardChunk
    <3>2. ASSUME NEW h \in Handlers, YouTubeAnswers(h) \/ FinishFailed(h) \/ Close(h)
          PROVE  store' = store
      BY <3>2 DEF YouTubeAnswers, FinishFailed, Close
    <3>3. ASSUME NEW s \in Sessions, Expire(s) \/ Restart(s) PROVE store' = store
      BY <3>3 DEF Expire, Restart
    <3> QED
      BY <3>1, <3>2, <3>3 DEF Next, Finish, sessionVars
  <2> QED
    BY <2>2, <2>3, <2>4, <2>5, <2>6, <2>7
<1>2. TypeOK /\ SerialInv /\ [Next]_sessionVars =>
        [\A s \in Sessions : Kept(s)]_sessionVars
  BY <1>1
<1> QED
  BY <1>2, TypeCorrect, SerialInvariant, PTL DEF Spec, SerialProgress

=============================================================================
