---------------------------- MODULE CreateUpload ----------------------------
(***************************************************************************)
(* POST /v1/uploads of the broker (createUpload in broker/src/index.ts) and *)
(* the Durable Object DailyLimiter it asks for permission.  The steps of a  *)
(* request are the stretches between its awaits.  The limiter reads both    *)
(* counters and writes them back with two storage operations; the input     *)
(* gate of the object keeps other requests out between the two.             *)
(***************************************************************************)
EXTENDS Protocol, FiniteSets

CONSTANTS
  Requests,    \* the POSTs a run may see
  IPs,         \* cf-connecting-ip values
  LastDay,     \* the clock stops at this day (a bound of the model)
  PerIp,       \* MAX_UPLOADS_PER_IP_DAY
  Global,      \* MAX_UPLOADS_GLOBAL_DAY
  Free         \* the input gate is open

Days == 1..LastDay

ASSUME CreateAssumption ==
  /\ PerIp \in Nat /\ Global \in Nat
  /\ LastDay \in Nat \ {0}
  /\ IsFiniteSet(Requests)
  /\ Free \notin Requests

VARIABLES
  today,        \* new Date(), in days
  globalCount,  \* globalCount[d]: the key global:<day>
  ipCount,      \* ipCount[d][ip]: the key ip:<day>:<ip>
  gate,         \* the request whose storage operation keeps the limiter's gate closed
  request,      \* request[r]: the progress of a POST
  charged,      \* history: charged[r] is the day the limiter charged r to, 0 if none
  sessions,     \* the requests YouTube has opened a resumable session for
  objects       \* the requests whose UploadSession object is initialised

createVars == <<today, globalCount, ipCount, gate, request, charged, sessions, objects>>

Phase == {"new", "limiter", "write", "allowed", "location", "created", "replied"}
Read == [global: Nat, ip: Nat]

TypeOK ==
  /\ today \in Days
  /\ globalCount \in [Days -> Nat]
  /\ ipCount \in [Days -> [IPs -> Nat]]
  /\ gate \in Requests \cup {Free}
  /\ request \in [Requests -> [pc: Phase, ip: IPs, day: Days, read: Read, status: Nat]]
  /\ charged \in [Requests -> Days \cup {0}]
  /\ sessions \subseteq Requests
  /\ objects \subseteq Requests

ChargedTo(d) == {r \in Requests : charged[r] = d}
ChargedToIp(d, ip) == {r \in ChargedTo(d) : request[r].ip = ip}

CreateInit ==
  /\ today = 1
  /\ globalCount = [d \in Days |-> 0]
  /\ ipCount = [d \in Days |-> [ip \in IPs |-> 0]]
  /\ gate = Free
  /\ request \in [Requests -> [pc: {"new"}, ip: IPs, day: {1},
                               read: {[global |-> 0, ip |-> 0]}, status: {0}]]
  /\ charged = [r \in Requests |-> 0]
  /\ sessions = {} /\ objects = {}

Goto(r, pc) == request' = [request EXCEPT ![r].pc = pc]
ReplyTo(r, status) == request' = [request EXCEPT ![r].pc = "replied", ![r].status = status]

\* A bad size or privacy is refused before anything is counted; else the limiter is asked.
Validate(r) ==
  /\ request[r].pc = "new"
  /\ ReplyTo(r, 413) \/ ReplyTo(r, 400) \/ Goto(r, "limiter")
  /\ UNCHANGED <<today, globalCount, ipCount, gate, charged, sessions, objects>>

\* Variant: the gate does not protect the two storage operations.
LimiterReadUngated(r) ==
  /\ request[r].pc = "limiter"
  /\ gate' = r
  /\ request' = [request EXCEPT ![r].pc = "write", ![r].day = today,
       ![r].read = [global |-> globalCount[today], ip |-> ipCount[today][request[r].ip]]]
  /\ UNCHANGED <<today, globalCount, ipCount, charged, sessions, objects>>

\* The limiter picks the day and reads both counters.
LimiterRead(r) ==
  /\ request[r].pc = "limiter" /\ gate = Free
  /\ gate' = r
  /\ request' = [request EXCEPT ![r].pc = "write", ![r].day = today,
       ![r].read = [global |-> globalCount[today], ip |-> ipCount[today][request[r].ip]]]
  /\ UNCHANGED <<today, globalCount, ipCount, charged, sessions, objects>>

LimiterDenies(r) ==
  /\ request[r].pc = "write"
  /\ ~CanConsume(request[r].read.ip, request[r].read.global, PerIp, Global)
  /\ gate' = Free
  /\ ReplyTo(r, 429)
  /\ UNCHANGED <<today, globalCount, ipCount, charged, sessions, objects>>

\* Both counters in one put, each one more than what was read.
LimiterAllows(r) ==
  LET read == request[r].read
      day == request[r].day
  IN
  /\ request[r].pc = "write"
  /\ CanConsume(read.ip, read.global, PerIp, Global)
  /\ globalCount' = [globalCount EXCEPT ![day] = read.global + 1]
  /\ ipCount' = [ipCount EXCEPT ![day][request[r].ip] = read.ip + 1]
  /\ charged' = [charged EXCEPT ![r] = day]
  /\ gate' = Free
  /\ Goto(r, "allowed")
  /\ UNCHANGED <<today, sessions, objects>>

\* The OAuth token and the POST to YouTube: a location, an error, or no answer at all,
\* which may leave a session at YouTube that nobody knows.
OpenYouTube(r) ==
  /\ request[r].pc = "allowed"
  /\ \/ Goto(r, "location") /\ sessions' = sessions \cup {r}
     \/ ReplyTo(r, 502) /\ UNCHANGED sessions
     \/ ReplyTo(r, 500) /\ sessions' \in {sessions, sessions \cup {r}}
  /\ UNCHANGED <<today, globalCount, ipCount, gate, charged, objects>>

\* newUniqueId and /init; when it fails the YouTube session is orphaned.
InitObject(r) ==
  /\ request[r].pc = "location"
  /\ \/ Goto(r, "created") /\ objects' = objects \cup {r}
     \/ ReplyTo(r, 500) /\ objects' \in {objects, objects \cup {r}}
  /\ UNCHANGED <<today, globalCount, ipCount, gate, charged, sessions>>

Reply(r) ==
  /\ request[r].pc = "created"
  /\ ReplyTo(r, 201)
  /\ UNCHANGED <<today, globalCount, ipCount, gate, charged, sessions, objects>>

\* The worker dies, or the call to the limiter fails after the limiter has counted.
Fail(r) ==
  /\ request[r].pc \in {"new", "limiter", "allowed", "location", "created"}
  /\ ReplyTo(r, 500)
  /\ UNCHANGED <<today, globalCount, ipCount, gate, charged, sessions, objects>>

NextDay ==
  /\ today + 1 \in Days
  /\ today' = today + 1
  /\ UNCHANGED <<globalCount, ipCount, gate, request, charged, sessions, objects>>

Next ==
  \/ NextDay
  \/ \E r \in Requests :
       \/ Validate(r) \/ LimiterRead(r) \/ LimiterDenies(r) \/ LimiterAllows(r)
       \/ OpenYouTube(r) \/ InitObject(r) \/ Reply(r) \/ Fail(r)

Spec == CreateInit /\ [][Next]_createVars

-----------------------------------------------------------------------------
(* Properties *)

\* However the POSTs interleave, and whenever the day changes, the limiter lets no more
\* than PerIp of them pass for an address and no more than Global in all, counted by the
\* day it charged them to (index.ts:144-149).
QuotaRespected ==
  \A d \in Days :
    /\ Cardinality(ChargedTo(d)) <= Global
    /\ \A ip \in IPs : Cardinality(ChargedToIp(d, ip)) <= PerIp

\* The stored counters are the charges made: none is lost, none is counted twice, and a
\* charge goes to the day and the address it was decided for (index.ts:146-149).
CountsAreCharges ==
  \A d \in Days :
    /\ globalCount[d] = Cardinality(ChargedTo(d))
    /\ \A ip \in IPs : ipCount[d][ip] = Cardinality(ChargedToIp(d, ip))

=============================================================================
