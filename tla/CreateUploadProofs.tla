------------------------- MODULE CreateUploadProofs -------------------------
(***************************************************************************)
(* Proofs about the daily limits of the broker, for any number of POSTs,   *)
(* addresses and days and any limits.                                      *)
(***************************************************************************)
EXTENDS CreateUpload, FiniteSetTheorems, TLAPS

Call == [pc: Phase, ip: IPs, day: Days, read: Read, status: Nat]

\* The one request between the two storage operations of the limiter has what is stored.
GateHeld ==
  \A r \in Requests :
    request[r].pc = "write" =>
      /\ gate = r
      /\ request[r].read.global = globalCount[request[r].day]
      /\ request[r].read.ip = ipCount[request[r].day][request[r].ip]

\* A request is charged when the limiter lets it pass, and not before.
Uncharged == {"new", "limiter", "write"}
ChargedOnce == \A r \in Requests : request[r].pc \in Uncharged => charged[r] = 0

\* The inductive invariant.
QuotaSafe == TypeOK /\ GateHeld /\ ChargedOnce /\ CountsAreCharges /\ QuotaRespected

-----------------------------------------------------------------------------
LEMMA CallType ==
  ASSUME TypeOK, NEW r \in Requests
  PROVE  request[r] \in Call
BY DEF TypeOK, Call

\* The sets of charged requests depend on the charges and the addresses only.
LEMMA SameCharges ==
  ASSUME charged' = charged, \A r \in Requests : request'[r].ip = request[r].ip
  PROVE  \A d \in Days : /\ ChargedTo(d)' = ChargedTo(d)
                         /\ \A ip \in IPs : ChargedToIp(d, ip)' = ChargedToIp(d, ip)
BY DEF ChargedTo, ChargedToIp

LEMMA ChargedFinite ==
  ASSUME NEW d \in Days, NEW ip \in IPs
  PROVE  /\ IsFiniteSet(ChargedTo(d)) /\ Cardinality(ChargedTo(d)) \in Nat
         /\ IsFiniteSet(ChargedToIp(d, ip)) /\ Cardinality(ChargedToIp(d, ip)) \in Nat
BY FS_Subset, FS_CardinalityType, CreateAssumption DEF ChargedTo, ChargedToIp

\* As long as charges and counters stay, so do the quotas.
LEMMA CountsKept ==
  ASSUME CountsAreCharges, QuotaRespected,
         UNCHANGED <<globalCount, ipCount, charged>>,
         \A r \in Requests : request'[r].ip = request[r].ip
  PROVE  CountsAreCharges' /\ QuotaRespected'
BY SameCharges DEF CountsAreCharges, QuotaRespected

\* One request goes on to another step, which is not that of the limiter's write.
LEMMA MovedSafe ==
  ASSUME QuotaSafe, NEW r \in Requests, NEW call \in Call,
         request' = [request EXCEPT ![r] = call],
         call.ip = request[r].ip, call.pc # "write",
         call.pc \in Uncharged => request[r].pc \in Uncharged,
         gate' = gate \/ (request[r].pc = "write" /\ gate' = Free),
         UNCHANGED <<today, globalCount, ipCount, charged>>,
         sessions' \subseteq Requests, objects' \subseteq Requests
  PROVE  QuotaSafe'
<1>1. TypeOK'
  BY DEF QuotaSafe, TypeOK, Call
<1>2. \A q \in Requests : request'[q] = IF q = r THEN call ELSE request[q]
  BY DEF QuotaSafe, TypeOK
<1>3. GateHeld'
  BY <1>2 DEF QuotaSafe, GateHeld
<1>4. ChargedOnce'
  BY <1>2 DEF QuotaSafe, ChargedOnce
<1>5. CountsAreCharges' /\ QuotaRespected'
  BY <1>2, CountsKept DEF QuotaSafe
<1> QED
  BY <1>1, <1>3, <1>4, <1>5 DEF QuotaSafe

\* A reply, or the next step.
LEMMA GotoIsMove ==
  ASSUME TypeOK, NEW r \in Requests, NEW pc \in Phase, NEW status \in Nat,
         Goto(r, pc) \/ (ReplyTo(r, status) /\ pc = "replied")
  PROVE  \E call \in Call : /\ request' = [request EXCEPT ![r] = call]
                            /\ call.ip = request[r].ip /\ call.pc = pc
<1>1. request[r] \in Call
  BY CallType
<1>2. CASE Goto(r, pc)
  <2>1. [request[r] EXCEPT !.pc = pc] \in Call
    BY <1>1 DEF Call
  <2>2. request' = [request EXCEPT ![r] = [request[r] EXCEPT !.pc = pc]]
    BY <1>2 DEF Goto, TypeOK
  <2>3. /\ [request[r] EXCEPT !.pc = pc].ip = request[r].ip
        /\ [request[r] EXCEPT !.pc = pc].pc = pc
    BY <1>1 DEF Call
  <2> QED
    BY <2>1, <2>2, <2>3
<1>3. CASE ReplyTo(r, status) /\ pc = "replied"
  <2> DEFINE call == [request[r] EXCEPT !.pc = "replied", !.status = status]
  <2>1. call \in Call /\ call.ip = request[r].ip /\ call.pc = "replied"
    BY <1>1 DEF Call, Phase
  <2>2. request' = [request EXCEPT ![r] = call]
    BY <1>3 DEF ReplyTo, TypeOK
  <2> QED
    BY <1>3, <2>1, <2>2
<1> QED
  BY <1>2, <1>3

LEMMA GotoSafe ==
  ASSUME QuotaSafe, NEW r \in Requests, NEW pc \in Phase \ {"write"}, NEW status \in Nat,
         Goto(r, pc) \/ (ReplyTo(r, status) /\ pc = "replied"),
         pc \in Uncharged => request[r].pc \in Uncharged,
         gate' = gate \/ (request[r].pc = "write" /\ gate' = Free),
         UNCHANGED <<today, globalCount, ipCount, charged>>,
         sessions' \subseteq Requests, objects' \subseteq Requests
  PROVE  QuotaSafe'
<1>1. PICK call \in Call : /\ request' = [request EXCEPT ![r] = call]
                           /\ call.ip = request[r].ip /\ call.pc = pc
  BY GotoIsMove DEF QuotaSafe
<1> QED
  BY <1>1, MovedSafe

-----------------------------------------------------------------------------
(* The limiter *)

\* The gate is free, so that no other request is between the two operations.
LEMMA LimiterReadSafe ==
  ASSUME QuotaSafe, NEW r \in Requests, LimiterRead(r)
  PROVE  QuotaSafe'
<1> DEFINE read == [global |-> globalCount[today], ip |-> ipCount[today][request[r].ip]]
           call == [request[r] EXCEPT !.pc = "write", !.day = today, !.read = read]
<1>1. request[r] \in Call /\ today \in Days /\ read \in Read
  BY CallType DEF QuotaSafe, TypeOK, Read, Call
<1>2. /\ call \in Call /\ call.ip = request[r].ip /\ call.pc = "write"
      /\ call.day = today /\ call.read = read
  BY <1>1 DEF Call, Phase
<1>3. request' = [request EXCEPT ![r] = call]
  BY DEF LimiterRead, QuotaSafe, TypeOK
<1>4. \A q \in Requests : request'[q] = IF q = r THEN call ELSE request[q]
  BY <1>3 DEF QuotaSafe, TypeOK
<1>5. TypeOK'
  BY <1>2, <1>3 DEF QuotaSafe, TypeOK, LimiterRead, Call
<1>6. GateHeld'
  <2>1. \A q \in Requests : request[q].pc # "write"
    BY CreateAssumption DEF QuotaSafe, GateHeld, LimiterRead
  <2>2. gate' = r /\ globalCount' = globalCount /\ ipCount' = ipCount
    BY DEF LimiterRead
  <2>3. read.global = globalCount[today] /\ read.ip = ipCount[today][request[r].ip]
    OBVIOUS
  <2>4. \A q \in Requests : request'[q].pc = "write" => q = r
    BY <1>4, <2>1
  <2>5. request'[r].day = today /\ request'[r].read = read /\ request'[r].ip = request[r].ip
    BY <1>2, <1>4
  <2> HIDE DEF read, call
  <2> QED
    BY <2>2, <2>3, <2>4, <2>5 DEF GateHeld
<1>7. ChargedOnce'
  <2>1. request[r].pc \in Uncharged /\ charged' = charged
    BY DEF LimiterRead, Uncharged
  <2> QED
    BY <1>4, <2>1 DEF QuotaSafe, ChargedOnce
<1>8. CountsAreCharges' /\ QuotaRespected'
  BY <1>2, <1>4, CountsKept DEF QuotaSafe, LimiterRead
<1> QED
  BY <1>5, <1>6, <1>7, <1>8 DEF QuotaSafe

\* Both counters become one more than what was read, which is what is stored, and one
\* request more is charged.
LEMMA LimiterAllowsSafe ==
  ASSUME QuotaSafe, NEW r \in Requests, LimiterAllows(r)
  PROVE  QuotaSafe'
<1> DEFINE day == request[r].day
           addr == request[r].ip
           read == request[r].read
<1>1. request[r] \in Call /\ day \in Days /\ addr \in IPs
  BY CallType DEF QuotaSafe, Call
<1>2. /\ read.global = globalCount[day] /\ read.ip = ipCount[day][addr]
      /\ read.global < Global /\ read.ip < PerIp /\ gate = r /\ charged[r] = 0
  BY DEF LimiterAllows, CanConsume, QuotaSafe, GateHeld, ChargedOnce, Uncharged
<1>3. PICK call \in Call : /\ request' = [request EXCEPT ![r] = call]
                           /\ call.ip = addr /\ call.pc = "allowed"
  BY GotoIsMove DEF LimiterAllows, QuotaSafe, Phase
<1>4. \A q \in Requests : request'[q] = IF q = r THEN call ELSE request[q]
  BY <1>3 DEF QuotaSafe, TypeOK
<1>5. /\ \A q \in Requests : charged'[q] = IF q = r THEN day ELSE charged[q]
      /\ \A d \in Days : globalCount'[d] = IF d = day THEN read.global + 1
                                           ELSE globalCount[d]
      /\ \A d \in Days, ip \in IPs :
           ipCount'[d][ip] = IF d = day /\ ip = addr THEN read.ip + 1 ELSE ipCount[d][ip]
  BY <1>1 DEF LimiterAllows, QuotaSafe, TypeOK
<1>6. TypeOK'
  <2>1. read.global + 1 \in Nat /\ read.ip + 1 \in Nat
    BY <1>1 DEF Call, Read
  <2>2. globalCount' \in [Days -> Nat] /\ ipCount' \in [Days -> [IPs -> Nat]]
    BY <1>1, <2>1 DEF LimiterAllows, QuotaSafe, TypeOK
  <2>3. charged' \in [Requests -> Days \cup {0}]
    BY <1>1 DEF LimiterAllows, QuotaSafe, TypeOK
  <2> QED
    BY <1>3, <2>2, <2>3 DEF LimiterAllows, QuotaSafe, TypeOK, Call
<1>7. GateHeld'
  <2>1. \A q \in Requests : q # r => request[q].pc # "write"
    BY <1>2 DEF QuotaSafe, GateHeld
  <2> QED
    BY <1>3, <1>4, <2>1 DEF GateHeld
<1>8. ChargedOnce'
  BY <1>3, <1>4, <1>5 DEF QuotaSafe, ChargedOnce, Uncharged
<1>9. \A d \in Days :
        ChargedTo(d)' = IF d = day THEN ChargedTo(d) \cup {r} ELSE ChargedTo(d)
  BY <1>1, <1>2, <1>5 DEF ChargedTo, Days
<1>10. \A d \in Days, ip \in IPs :
         ChargedToIp(d, ip)' = IF d = day /\ ip = addr THEN ChargedToIp(d, ip) \cup {r}
                               ELSE ChargedToIp(d, ip)
  BY <1>3, <1>4, <1>9 DEF ChargedToIp
<1>11. r \notin ChargedTo(day) /\ r \notin ChargedToIp(day, addr)
  BY <1>1, <1>2 DEF ChargedTo, ChargedToIp, Days
<1>12. \A d \in Days :
         Cardinality(ChargedTo(d)') =
           IF d = day THEN Cardinality(ChargedTo(d)) + 1 ELSE Cardinality(ChargedTo(d))
  BY <1>1, <1>9, <1>11, ChargedFinite, FS_AddElement
<1>13. \A d \in Days, ip \in IPs :
         Cardinality(ChargedToIp(d, ip)') =
           IF d = day /\ ip = addr THEN Cardinality(ChargedToIp(d, ip)) + 1
           ELSE Cardinality(ChargedToIp(d, ip))
  BY <1>1, <1>10, <1>11, ChargedFinite, FS_AddElement
<1>14. CountsAreCharges'
  BY <1>2, <1>5, <1>12, <1>13 DEF QuotaSafe, CountsAreCharges
<1>15. QuotaRespected'
  <2>1. read.global + 1 <= Global /\ read.ip + 1 <= PerIp
    BY <1>1, <1>2, CreateAssumption DEF Call, Read
  <2> QED
    BY <1>1, <1>2, <1>12, <1>13, <2>1 DEF QuotaSafe, CountsAreCharges, QuotaRespected
<1> QED
  BY <1>6, <1>7, <1>8, <1>14, <1>15 DEF QuotaSafe

-----------------------------------------------------------------------------
LEMMA InitSafe == CreateInit => QuotaSafe
<1> SUFFICES ASSUME CreateInit PROVE QuotaSafe
  OBVIOUS
<1>1. 1 \in Days /\ 0 \notin Days
  BY CreateAssumption DEF Days
<1>2. TypeOK
  BY <1>1 DEF CreateInit, TypeOK, Phase, Read
<1>3. \A r \in Requests : request[r].pc = "new"
  BY DEF CreateInit
<1>4. \A d \in Days : /\ ChargedTo(d) = {}
                      /\ \A ip \in IPs : ChargedToIp(d, ip) = {}
  BY <1>1 DEF CreateInit, ChargedTo, ChargedToIp
<1>5. \A d \in Days : /\ Cardinality(ChargedTo(d)) = 0
                      /\ \A ip \in IPs : Cardinality(ChargedToIp(d, ip)) = 0
  BY <1>4, FS_EmptySet
<1>6. \A d \in Days : globalCount[d] = 0 /\ \A ip \in IPs : ipCount[d][ip] = 0
  BY DEF CreateInit
<1>7. CountsAreCharges /\ QuotaRespected
  BY <1>5, <1>6, CreateAssumption DEF CountsAreCharges, QuotaRespected
<1> QED
  BY <1>2, <1>3, <1>7 DEF CreateInit, QuotaSafe, GateHeld, ChargedOnce

LEMMA NextSafe == QuotaSafe /\ [Next]_createVars => QuotaSafe'
<1> SUFFICES ASSUME QuotaSafe, [Next]_createVars PROVE QuotaSafe'
  OBVIOUS
<1>0. sessions \subseteq Requests /\ objects \subseteq Requests /\ TypeOK
  BY DEF QuotaSafe, TypeOK
<1>1. ASSUME UNCHANGED <<globalCount, ipCount, gate, request, charged, sessions, objects>>,
             today' \in Days
      PROVE  QuotaSafe'
  <2>1. TypeOK' /\ GateHeld' /\ ChargedOnce'
    BY <1>1 DEF QuotaSafe, TypeOK, GateHeld, ChargedOnce
  <2> QED
    BY <1>1, <2>1, CountsKept DEF QuotaSafe
<1>2. CASE NextDay \/ UNCHANGED createVars
  BY <1>0, <1>1, <1>2 DEF NextDay, createVars, TypeOK
<1>3. ASSUME NEW r \in Requests, Validate(r) PROVE QuotaSafe'
  BY <1>0, <1>3, GotoSafe DEF Validate, Phase, Uncharged
<1>4. ASSUME NEW r \in Requests, LimiterDenies(r) PROVE QuotaSafe'
  BY <1>0, <1>4, GotoSafe DEF LimiterDenies, Phase, Uncharged
<1>5. ASSUME NEW r \in Requests, OpenYouTube(r) PROVE QuotaSafe'
  BY <1>0, <1>5, GotoSafe DEF OpenYouTube, Phase, Uncharged
<1>6. ASSUME NEW r \in Requests, InitObject(r) PROVE QuotaSafe'
  BY <1>0, <1>6, GotoSafe DEF InitObject, Phase, Uncharged
<1>7. ASSUME NEW r \in Requests, Reply(r) \/ Fail(r) PROVE QuotaSafe'
  BY <1>0, <1>7, GotoSafe DEF Reply, Fail, Phase, Uncharged
<1> QED
  BY <1>2, <1>3, <1>4, <1>5, <1>6, <1>7, LimiterReadSafe, LimiterAllowsSafe DEF Next

\* The stored counters are the charges made, for every day and address: no charge is lost
\* between the read and the write of the limiter (index.ts:146-149).
THEOREM CountersAreExact == Spec => []CountsAreCharges
<1>1. QuotaSafe => CountsAreCharges
  BY DEF QuotaSafe
<1> QED
  BY <1>1, InitSafe, NextSafe, PTL DEF Spec

\* No address and no day is ever charged with more uploads than its limit, however many
\* POSTs interleave and whenever the day changes (index.ts:144-149).
THEOREM QuotaKept == Spec => []QuotaRespected
<1>1. QuotaSafe => QuotaRespected
  BY DEF QuotaSafe
<1> QED
  BY <1>1, InitSafe, NextSafe, PTL DEF Spec
=============================================================================
