---------------------------- MODULE PluginProofs ----------------------------
(***************************************************************************)
(* Proofs about the plugin and its worker, for any number of inputs of the *)
(* player, of faults, and of polls before the worker is started again.     *)
(***************************************************************************)
EXTENDS Plugin, SequenceTheorems, TLAPS

ShownType == [recording: BOOLEAN, online: BOOLEAN, ready: BOOLEAN, pending: BOOLEAN]
GameType == [pc: {"free", "start", "started", "stop", "stopped"}, answer: Answer]
StatusType == [pc: {"poll", "apply", "check", "start", "started"}, answer: Answer,
               report: Report, offline: 0..(OfflineLimit - 1)]
NewsType == [announced: Recordings, queue: Seq(Recordings), chat: Seq(Recordings)]
WorkerType == [alive: BOOLEAN, ready: BOOLEAN, recording: BOOLEAN, number: Recordings,
               uploads: SUBSET Recordings, done: Seq(Recordings), last: Recordings]
LogicType == [pending: Nat, late: BOOLEAN, shown: BOOLEAN]
SeenType == [commands: Nat, expired: Nat, prompts: Nat]
InputType == [used: 0..MaxInputs, starts: 0..MaxInputs]

\* The type invariant, by variable; only an input asks for a recording.
Types ==
  /\ EvidenceTypeOK
  /\ shown \in ShownType /\ game \in GameType /\ status \in StatusType
  /\ news \in NewsType /\ sender \in BOOLEAN /\ worker \in WorkerType
  /\ inputs \in InputType /\ inputs.starts <= inputs.used
  /\ faults \in 0..MaxFaults

LEMMA TypesAreTypes == Types => PluginTypeOK
BY DEF Types, PluginTypeOK, ShownType, GameType, StatusType, NewsType, WorkerType, InputType

-----------------------------------------------------------------------------
(* What the operators make of a variable *)

LEMMA StartedType ==
  ASSUME shown \in ShownType, NEW answer, Started(answer)
  PROVE  shown' \in ShownType
<1> DEFINE recording == shown.recording \/ answer = "ok"
           online == shown.online /\ answer # "WORKER_OFFLINE"
           pending == answer \in {"WORKER_OFFLINE", "CAPTURE_NOT_READY"}
<1>1. shown' = [shown EXCEPT !.recording = recording, !.online = online,
                             !.pending = pending]
  BY DEF Started
<1>2. recording \in BOOLEAN /\ online \in BOOLEAN /\ pending \in BOOLEAN
  OBVIOUS
<1> HIDE DEF recording, online, pending
<1> QED
  BY <1>1, <1>2 DEF ShownType

LEMMA AskStartType ==
  ASSUME shown \in ShownType, game \in GameType, AskStart
  PROVE  shown' \in ShownType /\ game' \in GameType
BY DEF ShownType, AskStart, GameType, Requesting

LEMMA InputCounted ==
  ASSUME inputs \in InputType, inputs.starts <= inputs.used, NEW n \in {0, 1}, Input(n)
  PROVE  /\ inputs' \in InputType
         /\ inputs'.starts <= inputs'.used
         /\ inputs'.starts = inputs.starts + n
BY PluginAssumption DEF Input, InputType

LEMMA RecordStartType ==
  ASSUME worker \in WorkerType, faults \in 0..MaxFaults, NEW answer, RecordStart(answer)
  PROVE  worker' \in WorkerType /\ faults' \in 0..MaxFaults
<1>1. worker.number < MaxInputs => worker.number + 1 \in Recordings
  BY PluginAssumption DEF WorkerType, Recordings
<1>2. faults' \in 0..MaxFaults
  BY PluginAssumption DEF RecordStart, Offline, Fault
<1> QED
  BY <1>1, <1>2 DEF RecordStart, WorkerType

LEMMA RecordStopType ==
  ASSUME worker \in WorkerType, faults \in 0..MaxFaults, NEW answer, RecordStop(answer)
  PROVE  worker' \in WorkerType /\ faults' \in 0..MaxFaults
<1>1. ASSUME NEW queued \in {{}, {worker.number}}
      PROVE  worker.uploads \union queued \in SUBSET Recordings
  BY DEF WorkerType
<1>2. faults' \in 0..MaxFaults
  BY PluginAssumption DEF RecordStop, Offline, Fault
<1> QED
  BY <1>1, <1>2 DEF RecordStop, WorkerType

LEMMA AnnounceType ==
  ASSUME news \in NewsType, NEW last \in Recordings, Announce(last)
  PROVE  news' \in NewsType
<1>1. Append(news.queue, last) \in Seq(Recordings)
  BY DEF NewsType
<1> QED
  BY <1>1 DEF NewsType, Announce

\* The steps of Evidence.
LEMMA EvidenceTypes ==
  ASSUME EvidenceTypeOK, NEW recording \in BOOLEAN,
         \/ Punish \/ Expire \/ (\E message \in Message : Confirm(recording, message))
         \/ Spectate(recording) \/ Escape
         \/ ClosePrompt
  PROVE  EvidenceTypeOK'
<1>1. seen' \in SeenType
  BY DEF EvidenceTypeOK, Punish, Expire, Confirm, Spectate, Escape, ClosePrompt, SeenType
<1>2. logic' \in LogicType
  <2>1. CASE Punish
    <3>1. seen.commands + 1 \in Nat
      BY DEF EvidenceTypeOK
    <3> QED
      BY <2>1, <3>1 DEF EvidenceTypeOK, Punish, LogicType
  <2>2. CASE Expire
    BY <2>2 DEF EvidenceTypeOK, Expire, LogicType
  <2>3. CASE \E message \in Message : Confirm(recording, message)
    <3>1. logic' = [logic EXCEPT !.pending = 0, !.late = FALSE]
      BY <2>3 DEF Confirm
    <3> QED
      BY <3>1 DEF EvidenceTypeOK, LogicType
  <2>4. CASE Spectate(recording)
    BY <2>4 DEF EvidenceTypeOK, Spectate, LogicType
  <2>5. CASE Escape \/ ClosePrompt
    BY <2>5 DEF EvidenceTypeOK, Escape, ClosePrompt, LogicType
  <2> QED
    BY <2>1, <2>2, <2>3, <2>4, <2>5
<1>3. prompt' \in {"none", "start", "finish", "missing"} /\ dismiss' \in BOOLEAN
  BY DEF EvidenceTypeOK, Punish, Expire, Confirm, Spectate, Escape, ClosePrompt
<1> QED
  BY <1>1, <1>2, <1>3 DEF EvidenceTypeOK, LogicType, SeenType

LEMMA EvidenceKept ==
  ASSUME EvidenceTypeOK, UNCHANGED evidenceVars
  PROVE  EvidenceTypeOK'
BY DEF EvidenceTypeOK, evidenceVars

-----------------------------------------------------------------------------
(* The type invariant is kept *)

LEMMA PlayerTypes ==
  ASSUME Types,
         \/ TypeStart \/ TypeStop \/ TypePunishment \/ ClickStart \/ ClickStop \/ Look
         \/ PressEscape \/ Chat \/ Dispatch
  PROVE  Types'
<1>0. shown.recording \in BOOLEAN
  BY DEF Types, ShownType
<1>1. CASE TypeStart
  BY <1>1, AskStartType, InputCounted, EvidenceKept DEF Types, TypeStart, Typed
<1>2. CASE TypeStop
  <2>1. game' \in GameType
    BY <1>2 DEF Types, TypeStop, GameType
  <2> QED
    BY <1>2, <2>1, InputCounted, EvidenceKept DEF Types, TypeStop, Typed
<1>3. CASE TypePunishment
  BY <1>0, <1>3, InputCounted, EvidenceTypes DEF Types, TypePunishment, Typed
<1>4. CASE ClickStart
  BY <1>0, <1>4, AskStartType, InputCounted, EvidenceTypes, EvidenceKept
     DEF Types, ClickStart, Clicked
<1>5. CASE ClickStop
  <2>1. game' \in GameType
    BY <1>5 DEF Types, ClickStop, GameType
  <2> QED
    BY <1>0, <1>5, <2>1, InputCounted, EvidenceTypes, EvidenceKept
       DEF Types, ClickStop, Clicked
<1>6. CASE Look \/ PressEscape
  BY <1>0, <1>6, InputCounted, EvidenceTypes DEF Types, Look, PressEscape, Clicked
<1>7. CASE Chat
  BY <1>0, <1>7, EvidenceTypes DEF Types, Chat, pluginVars
<1>8. CASE Dispatch
  <2>1. /\ Append(news.chat, Head(news.queue)) \in Seq(Recordings)
        /\ Tail(news.queue) \in Seq(Recordings)
    BY <1>8 DEF Types, NewsType, Dispatch
  <2>2. news' \in NewsType
    BY <1>8, <2>1 DEF Types, NewsType, Dispatch
  <2> QED
    BY <1>8, <2>2, EvidenceKept DEF Types, Dispatch
<1> QED
  BY <1>1, <1>2, <1>3, <1>4, <1>5, <1>6, <1>7, <1>8

LEMMA GameTypes ==
  ASSUME Types, GameStep
  PROVE  Types'
<1>1. CASE GameStart
  <2>1. game' \in GameType
    BY <1>1 DEF Types, GameStart, GameType
  <2> QED
    BY <1>1, <2>1, RecordStartType, EvidenceKept DEF Types, GameStart
<1>2. CASE GameStarted
  <2>1. game' \in GameType
    BY <1>2 DEF Types, GameStarted, GameType, Answer
  <2> QED
    BY <1>2, <2>1, StartedType, EvidenceKept DEF Types, GameStarted
<1>3. CASE GameStop
  <2>1. game' \in GameType
    BY <1>3 DEF Types, GameStop, GameType
  <2> QED
    BY <1>3, <2>1, RecordStopType, EvidenceKept DEF Types, GameStop
<1>4. CASE GameStopped
  <2>1. game' \in GameType
    BY <1>4 DEF Types, GameStopped, GameType, Answer
  <2>2. shown' \in ShownType
    BY <1>4 DEF Types, GameStopped, ShownType
  <2> QED
    BY <1>4, <2>1, <2>2, EvidenceKept DEF Types, GameStopped
<1> QED
  BY <1>1, <1>2, <1>3, <1>4 DEF GameStep

LEMMA StatusTypes ==
  ASSUME Types, StatusStep
  PROVE  Types'
<1>0. /\ 0 \in 0..(OfflineLimit - 1)
      /\ (status.offline + 1) % OfflineLimit \in 0..(OfflineLimit - 1)
      /\ NoReport \in Report
  BY PluginAssumption DEF Types, StatusType, Report, NoReport, Recordings
<1>1. CASE Poll
  <2>1. [recording |-> worker.recording, ready |-> worker.ready, last |-> worker.last]
          \in Report
    BY DEF Types, WorkerType, Report
  <2>2. status' \in StatusType
    BY <1>1, <2>1 DEF Types, Poll, StatusType, Answer
  <2>3. faults' \in 0..MaxFaults
    BY <1>1, PluginAssumption DEF Types, Poll, Offline, Fault
  <2> QED
    BY <1>1, <2>2, <2>3, EvidenceKept DEF Types, Poll
<1>2. CASE ApplyStatus
  <2>1. status' \in StatusType
    BY <1>0, <1>2 DEF Types, ApplyStatus, StatusType
  <2>2. shown' \in ShownType
    BY <1>2 DEF Types, ApplyStatus, Show, StatusType, Report, ShownType
  <2>3. news' \in NewsType
    BY <1>2, AnnounceType DEF Types, ApplyStatus, StatusType, Report
  <2> QED
    BY <1>2, <2>1, <2>2, <2>3, EvidenceKept DEF Types, ApplyStatus
<1>3. CASE PollFailed
  <2>1. status' \in StatusType
    BY <1>0, <1>3 DEF Types, PollFailed, StatusType, Answer
  <2>2. shown' \in ShownType
    BY <1>3 DEF Types, PollFailed, ShownType
  <2>3. worker' \in WorkerType
    BY <1>3 DEF Types, PollFailed, WorkerType
  <2> QED
    BY <1>3, <2>1, <2>2, <2>3, EvidenceKept DEF Types, PollFailed
<1>4. CASE CheckPending
  <2>1. status' \in StatusType
    BY <1>0, <1>4 DEF Types, CheckPending, StatusType, Answer
  <2> QED
    BY <1>4, <2>1, EvidenceKept DEF Types, CheckPending
<1>5. CASE StatusStart
  <2>1. status' \in StatusType
    BY <1>5 DEF Types, StatusStart, StatusType
  <2> QED
    BY <1>5, <2>1, RecordStartType, EvidenceKept DEF Types, StatusStart
<1>6. CASE StatusStarted
  <2>1. status' \in StatusType
    BY <1>6 DEF Types, StatusStarted, StatusType, Answer
  <2> QED
    BY <1>6, <2>1, StartedType, EvidenceKept DEF Types, StatusStarted
<1> QED
  BY <1>1, <1>2, <1>3, <1>4, <1>5, <1>6 DEF StatusStep

LEMMA WorkerTypes ==
  ASSUME Types, CaptureReady \/ Interrupted \/ UploadDone \/ Crash
  PROVE  Types'
<1>1. 0 \in Recordings
  BY PluginAssumption DEF Recordings
<1>2. faults' \in 0..MaxFaults
  <2>1. faults' = faults \/ Fault
    BY DEF CaptureReady, Interrupted, UploadDone, Crash
  <2> QED
    BY <2>1, PluginAssumption DEF Types, Fault
<1>3. worker' \in WorkerType
  <2>1. CASE CaptureReady
    BY <2>1 DEF Types, CaptureReady, WorkerType
  <2>2. CASE Interrupted
    BY <2>2 DEF Types, Interrupted, WorkerType
  <2>3. CASE UploadDone
    <3>1. PICK r \in worker.uploads :
            \/ worker' = [worker EXCEPT !.uploads = @ \ {r}, !.last = r, !.done = Append(@, r)]
            \/ worker' = [worker EXCEPT !.uploads = @ \ {r}, !.last = 0]
            \/ worker' = [worker EXCEPT !.last = 0]
      BY <2>3 DEF UploadDone
    <3>2. /\ worker \in WorkerType /\ r \in Recordings
          /\ worker.uploads \ {r} \in SUBSET Recordings
          /\ Append(worker.done, r) \in Seq(Recordings)
      BY DEF Types, WorkerType
    <3> QED
      BY <1>1, <3>1, <3>2 DEF WorkerType
  <2>4. CASE Crash
    BY <1>1, <2>4 DEF Types, Crash, WorkerType
  <2> QED
    BY <2>1, <2>2, <2>3, <2>4
<1> QED
  BY <1>2, <1>3, EvidenceKept DEF Types, CaptureReady, Interrupted, UploadDone, Crash

LEMMA InitTypes == PluginInit => Types
<1> SUFFICES ASSUME PluginInit PROVE Types
  OBVIOUS
<1>1. 0 \in Recordings /\ 0 \in 0..MaxFaults /\ 0 \in 0..MaxInputs /\ 0 \in 0..(OfflineLimit - 1)
  BY PluginAssumption DEF Recordings
<1>2. EvidenceTypeOK
  BY DEF PluginInit, EvidenceInit, EvidenceTypeOK
<1>3. shown \in ShownType /\ game \in GameType
  BY DEF PluginInit, ShownType, GameType, Answer
<1>4. status \in StatusType
  BY <1>1 DEF PluginInit, StatusType, Answer, Report, NoReport
<1>5. news \in NewsType /\ worker \in WorkerType
  BY <1>1 DEF PluginInit, NewsType, WorkerType
<1>6. inputs \in InputType /\ inputs.starts <= inputs.used
  BY <1>1 DEF PluginInit, InputType
<1> QED
  BY <1>1, <1>2, <1>3, <1>4, <1>5, <1>6 DEF PluginInit, Types

LEMMA StepTypes == Types /\ [PluginNext]_vars => Types'
<1> SUFFICES ASSUME Types, [PluginNext]_vars PROVE Types'
  OBVIOUS
<1>1. CASE UNCHANGED vars
  BY <1>1, EvidenceKept DEF Types, vars, pluginVars
<1> QED
  BY <1>1, PlayerTypes, GameTypes, StatusTypes, WorkerTypes DEF PluginNext

\* Every reachable state is well typed: no count goes beyond the inputs of the player, and
\* offline_polls stays below its limit (Plugin.cpp:749-774).
THEOREM PluginTypeCorrect == PluginSpec => []PluginTypeOK
BY InitTypes, StepTypes, TypesAreTypes, PTL DEF PluginSpec

-----------------------------------------------------------------------------
(* One recording for a request *)

\* The answers after which a start is put off.
PutOff == {"WORKER_OFFLINE", "CAPTURE_NOT_READY"}

\* The start that the thread of the game still has to ask for, or to put off.
GameOwes ==
  IF game.pc = "start" \/ (game.pc = "started" /\ game.answer \in PutOff) THEN 1 ELSE 0

\* The start that status_loop still has to ask for, or to put off again; when the answer is
\* there, what is pending is about to be replaced by it.
StatusOwes ==
  IF status.pc = "started" THEN IF status.answer \in PutOff THEN 1 ELSE 0
  ELSE IF status.pc = "start" \/ shown.pending THEN 1 ELSE 0

\* What is recorded and what is still owed were asked for.
Budget == worker.number + GameOwes + StatusOwes <= inputs.starts

LEMMA Counts ==
  ASSUME Types
  PROVE  worker.number \in Nat /\ inputs.starts \in Nat /\ shown.pending \in BOOLEAN
BY PluginAssumption DEF Types, WorkerType, InputType, ShownType, Recordings

\* A recording is made only with an answer that does not put it off.
LEMMA RecordStartCounts ==
  ASSUME Types, NEW answer, RecordStart(answer)
  PROVE  \/ worker'.number = worker.number
         \/ worker'.number = worker.number + 1 /\ answer \notin PutOff
BY DEF Types, WorkerType, RecordStart, PutOff

LEMMA StartedPending ==
  ASSUME Types, NEW answer, Started(answer)
  PROVE  shown'.pending = (answer \in PutOff)
BY DEF Types, ShownType, Started, PutOff

\* Asking for a start makes at most one owed that was not.
LEMMA AskStartOwes ==
  ASSUME Types, game.pc = "free", AskStart, UNCHANGED status
  PROVE  GameOwes' + StatusOwes' <= GameOwes + StatusOwes + 1
<1>1. CASE ~shown.online \/ ~shown.ready
  <2>1. shown'.pending = TRUE /\ game' = game
    BY <1>1 DEF AskStart, Types, ShownType
  <2> QED
    BY <2>1, Counts DEF GameOwes, StatusOwes
<1>2. CASE shown.online /\ shown.ready
  <2>1. shown' = shown /\ (game' = game \/ game'.pc = "start")
    BY <1>2 DEF AskStart, Types, GameType
  <2> QED
    BY <2>1 DEF GameOwes, StatusOwes
<1> QED
  BY <1>1, <1>2

LEMMA PlayerBudget ==
  ASSUME Types, Budget,
         \/ TypeStart \/ TypeStop \/ TypePunishment \/ ClickStart \/ ClickStop \/ Look
         \/ PressEscape \/ Chat \/ Dispatch
  PROVE  Budget'
<1>0. worker' = worker /\ status' = status
  BY DEF TypeStart, TypeStop, TypePunishment, ClickStart, ClickStop, Look, PressEscape, Chat,
         Dispatch, Typed, Clicked, pluginVars
<1>1. CASE TypeStart \/ ClickStart
  <2>1. game.pc = "free" /\ AskStart /\ inputs'.starts = inputs.starts + 1
    BY <1>1, InputCounted DEF Types, TypeStart, ClickStart, Input
  <2>2. GameOwes' + StatusOwes' <= GameOwes + StatusOwes + 1
    BY <1>0, <2>1, AskStartOwes
  <2> QED
    BY <1>0, <2>1, <2>2, Counts DEF Budget, GameOwes, StatusOwes
<1>2. CASE TypeStop \/ TypePunishment \/ ClickStop \/ Look \/ PressEscape
  <2>1. inputs'.starts = inputs.starts
    BY <1>2, InputCounted, Counts
       DEF Types, TypeStop, TypePunishment, ClickStop, Look, PressEscape
  <2>2. shown' = shown
    BY <1>2 DEF TypeStop, TypePunishment, ClickStop, Look, PressEscape
  <2>3. game.pc = "free" /\ game'.pc \in {"free", "stop"}
    BY <1>2
       DEF TypeStop, TypePunishment, ClickStop, Look, PressEscape, Input, Types, GameType
  <2> QED
    BY <1>0, <2>1, <2>2, <2>3 DEF Budget, GameOwes, StatusOwes
<1>3. CASE Chat \/ Dispatch
  BY <1>0, <1>3 DEF Chat, Dispatch, pluginVars, Budget, GameOwes, StatusOwes
<1> QED
  BY <1>1, <1>2, <1>3

LEMMA GameBudget ==
  ASSUME Types, Budget, GameStep
  PROVE  Budget'
<1>0. inputs' = inputs /\ status' = status
  BY DEF GameStep, GameStart, GameStarted, GameStop, GameStopped
<1>1. CASE GameStart
  <2>1. PICK answer \in Answer \ {"none"} :
          RecordStart(answer) /\ game' = [pc |-> "started", answer |-> answer]
    BY <1>1 DEF GameStart
  <2>2. game.pc = "start" /\ shown' = shown
    BY <1>1 DEF GameStart
  <2> QED
    BY <1>0, <2>1, <2>2, RecordStartCounts, Counts DEF Budget, GameOwes, StatusOwes
<1>2. CASE GameStarted
  <2>1. /\ shown'.pending = (game.answer \in PutOff)
        /\ game.pc = "started" /\ game'.pc = "free" /\ worker' = worker
    BY <1>2, StartedPending DEF GameStarted
  <2> QED
    BY <1>0, <2>1, Counts DEF Budget, GameOwes, StatusOwes
<1>3. CASE GameStop
  <2>1. worker'.number = worker.number
    BY <1>3 DEF GameStop, RecordStop, Types, WorkerType
  <2>2. game.pc = "stop" /\ game'.pc = "stopped" /\ shown' = shown
    BY <1>3 DEF GameStop
  <2> QED
    BY <1>0, <2>1, <2>2 DEF Budget, GameOwes, StatusOwes
<1>4. CASE GameStopped
  <2>1. shown'.pending = shown.pending
    BY <1>4 DEF GameStopped, Types, ShownType
  <2>2. game.pc = "stopped" /\ game'.pc = "free" /\ worker' = worker
    BY <1>4 DEF GameStopped
  <2> QED
    BY <1>0, <2>1, <2>2 DEF Budget, GameOwes, StatusOwes
<1> QED
  BY <1>1, <1>2, <1>3, <1>4 DEF GameStep

LEMMA StatusBudget ==
  ASSUME Types, Budget, StatusStep
  PROVE  Budget'
<1>0. inputs' = inputs /\ game' = game
  BY DEF StatusStep, Poll, ApplyStatus, PollFailed, CheckPending, StatusStart, StatusStarted
<1>1. CASE Poll \/ ApplyStatus \/ PollFailed
  <2>1. worker'.number = worker.number
    BY <1>1 DEF Poll, ApplyStatus, PollFailed, Types, WorkerType
  <2>2. shown'.pending = shown.pending
    BY <1>1 DEF Poll, ApplyStatus, PollFailed, Show, Types, ShownType
  <2>3. status.pc \in {"poll", "apply"} /\ status'.pc \in {"poll", "apply", "check"}
    BY <1>1 DEF Poll, ApplyStatus, PollFailed, Types, StatusType
  <2> QED
    BY <1>0, <2>1, <2>2, <2>3 DEF Budget, GameOwes, StatusOwes
<1>2. CASE CheckPending
  <2>1. /\ status.pc = "check" /\ shown' = shown /\ worker' = worker
        /\ status'.pc = "poll" \/ (status'.pc = "start" /\ shown.pending)
    BY <1>2 DEF CheckPending, Types, StatusType
  <2> QED
    BY <1>0, <2>1 DEF Budget, GameOwes, StatusOwes
<1>3. CASE StatusStart
  <2>1. PICK answer \in Answer \ {"none"} :
          /\ RecordStart(answer)
          /\ status' = [status EXCEPT !.pc = "started", !.answer = answer]
    BY <1>3 DEF StatusStart
  <2>2. status'.pc = "started" /\ status'.answer = answer
    BY <2>1 DEF Types, StatusType
  <2>3. status.pc = "start" /\ shown' = shown
    BY <1>3 DEF StatusStart
  <2> QED
    BY <1>0, <2>1, <2>2, <2>3, RecordStartCounts, Counts DEF Budget, GameOwes, StatusOwes
<1>4. CASE StatusStarted
  <2>1. /\ shown'.pending = (status.answer \in PutOff)
        /\ status.pc = "started" /\ worker' = worker
    BY <1>4, StartedPending DEF StatusStarted
  <2>2. status'.pc = "poll"
    BY <1>4 DEF StatusStarted, Types, StatusType
  <2> QED
    BY <1>0, <2>1, <2>2 DEF Budget, GameOwes, StatusOwes
<1> QED
  BY <1>1, <1>2, <1>3, <1>4 DEF StatusStep

LEMMA WorkerBudget ==
  ASSUME Types, Budget, CaptureReady \/ Interrupted \/ UploadDone \/ Crash
  PROVE  Budget'
<1>1. worker'.number = worker.number
  BY DEF CaptureReady, Interrupted, UploadDone, Crash, Types, WorkerType
<1>2. UNCHANGED <<inputs, game, shown, status>>
  BY DEF CaptureReady, Interrupted, UploadDone, Crash
<1> QED
  BY <1>1, <1>2 DEF Budget, GameOwes, StatusOwes

\* No request of the player starts two recordings: not by a poll that makes up for it
\* while the thread of the game asks, nor by an answer that puts it off after another
\* has been served (Plugin.cpp:252-268, 770).
THEOREM NoUnaskedRecording == PluginSpec => []StartedOnRequest
<1>1. PluginInit => Budget
  BY DEF PluginInit, Budget, GameOwes, StatusOwes
<1>2. Types /\ Budget /\ [PluginNext]_vars => Budget'
  <2> SUFFICES ASSUME Types, Budget, [PluginNext]_vars PROVE Budget'
    OBVIOUS
  <2>1. CASE UNCHANGED vars
    BY <2>1 DEF vars, pluginVars, Budget, GameOwes, StatusOwes
  <2> QED
    BY <2>1, PlayerBudget, GameBudget, StatusBudget, WorkerBudget DEF PluginNext
<1>3. Types /\ Budget => StartedOnRequest
  BY Counts DEF Budget, GameOwes, StatusOwes, StartedOnRequest
<1> QED
  BY <1>1, <1>2, <1>3, InitTypes, StepTypes, PTL DEF PluginSpec

-----------------------------------------------------------------------------
(* One prompt for a punishment *)

\* A command that may still be answered with a prompt has been counted.
PromptBudget ==
  seen.prompts + seen.expired + (IF logic.pending # 0 /\ ~logic.late THEN 1 ELSE 0)
    <= seen.commands

LEMMA EvidenceBudget ==
  ASSUME EvidenceTypeOK, PromptBudget, NEW recording,
         \/ Punish \/ Expire \/ (\E message \in Message : Confirm(recording, message))
         \/ Spectate(recording) \/ Escape
         \/ ClosePrompt
  PROVE  PromptBudget'
<1>0. /\ logic \in LogicType /\ seen \in SeenType
      /\ logic.late \in BOOLEAN
  BY DEF EvidenceTypeOK, LogicType, SeenType
<1>1. CASE Punish
  BY <1>0, <1>1 DEF Punish, PromptBudget, LogicType, SeenType
<1>2. CASE Expire
  BY <1>0, <1>2 DEF Expire, PromptBudget, LogicType, SeenType
<1>3. CASE \E message \in Message : Confirm(recording, message)
  BY <1>0, <1>3 DEF Confirm, PromptBudget, LogicType, SeenType
<1>4. CASE Spectate(recording)
  BY <1>0, <1>4 DEF Spectate, PromptBudget, LogicType, SeenType
<1>5. CASE Escape \/ ClosePrompt
  BY <1>5 DEF Escape, ClosePrompt, PromptBudget
<1> QED
  BY <1>1, <1>2, <1>3, <1>4, <1>5

\* However commands, confirmations and their time limits follow each other, no command
\* leads to two prompts, and none to a prompt after it has expired (Logic.cpp:74-91).
THEOREM OnePromptPerCommand == PluginSpec => []PromptedOnce
<1>1. PluginInit => PromptBudget
  BY DEF PluginInit, EvidenceInit, PromptBudget
<1>2. Types /\ PromptBudget /\ [PluginNext]_vars => PromptBudget'
  <2> SUFFICES ASSUME Types, PromptBudget, [PluginNext]_vars PROVE PromptBudget'
    OBVIOUS
  <2>1. ASSUME UNCHANGED evidenceVars PROVE PromptBudget'
    BY <2>1 DEF evidenceVars, PromptBudget
  <2>2. EvidenceTypeOK
    BY DEF Types
  <2>3. CASE TypePunishment \/ ClickStart \/ ClickStop \/ Look \/ PressEscape \/ Chat
    BY <2>1, <2>2, <2>3, EvidenceBudget
       DEF TypePunishment, ClickStart, ClickStop, Look, PressEscape, Chat
  <2>4. CASE TypeStart \/ TypeStop \/ GameStep \/ Dispatch \/ StatusStep
    BY <2>1, <2>4
       DEF TypeStart, TypeStop, GameStep, GameStart, GameStarted, GameStop, GameStopped,
           Dispatch, StatusStep, Poll, ApplyStatus, PollFailed, CheckPending, StatusStart,
           StatusStarted
  <2>5. CASE CaptureReady \/ Interrupted \/ UploadDone \/ Crash \/ UNCHANGED vars
    BY <2>1, <2>5 DEF CaptureReady, Interrupted, UploadDone, Crash, vars
  <2> QED
    BY <2>3, <2>4, <2>5 DEF PluginNext
<1>3. Types /\ PromptBudget => PromptedOnce
  BY DEF Types, EvidenceTypeOK, PromptBudget, PromptedOnce
<1> QED
  BY <1>1, <1>2, <1>3, InitTypes, StepTypes, PTL DEF PluginSpec

-----------------------------------------------------------------------------
(* Announcements in the order of the uploads *)

Within(s, x) == \E n \in DOMAIN s : s[n] = x
Earlier(s, x, y) == \E m, n \in DOMAIN s : m < n /\ s[m] = x /\ s[n] = y
Distinct(s) == \A m, n \in DOMAIN s : s[m] = s[n] => m = n

\* What the chat has heard and what is still to be sent.
Announced == news.chat \o news.queue

\* A recording is being made, waits for its upload, or is uploaded, and never two of these;
\* the last result is that of the last upload, or none.
Stages ==
  /\ Distinct(worker.done)
  /\ \A n \in DOMAIN worker.done :
       worker.done[n] \in 1..worker.number /\ worker.done[n] \notin worker.uploads
  /\ worker.uploads \subseteq 1..worker.number
  /\ worker.recording => /\ worker.number > 0 /\ worker.number \notin worker.uploads
                         /\ ~Within(worker.done, worker.number)
  /\ worker.last # 0 => worker.done # <<>> /\ worker.last = worker.done[Len(worker.done)]

\* The report of a poll tells of no upload before the one announced last, and that one comes
\* after all that were announced before it.
Passed ==
  /\ status.report.last # 0 =>
       /\ Within(worker.done, status.report.last)
       /\ \/ news.announced \in {0, status.report.last}
          \/ Earlier(worker.done, news.announced, status.report.last)
  /\ news.announced = 0 => Announced = <<>>
  /\ news.announced # 0 => Within(worker.done, news.announced)
  /\ \A i \in DOMAIN Announced :
       Announced[i] = news.announced \/ Earlier(worker.done, Announced[i], news.announced)
  /\ \A i, j \in DOMAIN Announced :
       i < j => Earlier(worker.done, Announced[i], Announced[j])

LEMMA EarlierIsOrder ==
  ASSUME NEW s \in Seq(Nat), Distinct(s)
  PROVE  /\ \A x, y : Earlier(s, x, y) => x # y /\ Within(s, x) /\ Within(s, y)
         /\ \A x, y, z : Earlier(s, x, y) /\ Earlier(s, y, z) => Earlier(s, x, z)
<1>1. ASSUME NEW x, NEW y, Earlier(s, x, y)
      PROVE  x # y /\ Within(s, x) /\ Within(s, y)
  <2>1. PICK m, n \in DOMAIN s : m < n /\ s[m] = x /\ s[n] = y
    BY <1>1 DEF Earlier
  <2>2. m # n
    BY <2>1
  <2> QED
    BY <2>1, <2>2 DEF Distinct, Within
<1>2. ASSUME NEW x, NEW y, NEW z, Earlier(s, x, y), Earlier(s, y, z)
      PROVE  Earlier(s, x, z)
  <2>1. PICK m, n \in DOMAIN s : m < n /\ s[m] = x /\ s[n] = y
    BY <1>2 DEF Earlier
  <2>2. PICK k, p \in DOMAIN s : k < p /\ s[k] = y /\ s[p] = z
    BY <1>2 DEF Earlier
  <2>3. n = k
    BY <2>1, <2>2 DEF Distinct
  <2>4. m < p
    BY <2>1, <2>2, <2>3
  <2> QED
    BY <2>1, <2>2, <2>4 DEF Earlier
<1> QED
  BY <1>1, <1>2

\* The last of a sequence comes after all the others.
LEMMA LastIsLatest ==
  ASSUME NEW s \in Seq(Nat), s # <<>>, NEW x, Within(s, x)
  PROVE  x = s[Len(s)] \/ Earlier(s, x, s[Len(s)])
<1>1. Len(s) \in DOMAIN s /\ \A n \in DOMAIN s : n = Len(s) \/ n < Len(s)
  OBVIOUS
<1> QED
  BY <1>1 DEF Within, Earlier

\* What has been uploaded stays, in its order.
LEMMA AppendKeeps ==
  ASSUME NEW s \in Seq(Nat), NEW r \in Nat
  PROVE  /\ Append(s, r) \in Seq(Nat) /\ Append(s, r) # <<>>
         /\ Append(s, r)[Len(Append(s, r))] = r
         /\ \A n \in DOMAIN Append(s, r) : Append(s, r)[n] = r \/ Within(s, Append(s, r)[n])
         /\ \A x : Within(s, x) => Within(Append(s, r), x)
         /\ \A x, y : Earlier(s, x, y) => Earlier(Append(s, r), x, y)
         /\ Distinct(s) /\ ~Within(s, r) => Distinct(Append(s, r))
<1> DEFINE t == Append(s, r)
<1>1. /\ t \in Seq(Nat) /\ Len(t) = Len(s) + 1 /\ t[Len(s) + 1] = r
      /\ \A n \in 1..Len(s) : t[n] = s[n]
  BY AppendProperties
<1>2. /\ DOMAIN s = 1..Len(s) /\ DOMAIN t = 1..(Len(s) + 1) /\ Len(s) \in Nat
      /\ \A n \in DOMAIN t : n \in DOMAIN s \/ n = Len(s) + 1
      /\ Len(s) + 1 \in DOMAIN t /\ Len(s) + 1 \notin DOMAIN s
      /\ DOMAIN s \subseteq DOMAIN t
  BY <1>1
<1>3. t # <<>>
  BY <1>1, <1>2
<1> HIDE DEF t
<1>4. \A n \in DOMAIN t : t[n] = r \/ Within(s, t[n])
  BY <1>1, <1>2 DEF Within
<1>5. \A x : Within(s, x) => Within(t, x)
  BY <1>1, <1>2 DEF Within
<1>6. \A x, y : Earlier(s, x, y) => Earlier(t, x, y)
  BY <1>1, <1>2 DEF Earlier
<1>7. Distinct(s) /\ ~Within(s, r) => Distinct(t)
  BY <1>1, <1>2 DEF Distinct, Within
<1>8. t[Len(t)] = r
  BY <1>1
<1> QED
  BY <1>1, <1>3, <1>4, <1>5, <1>6, <1>7, <1>8 DEF t

\* Dispatch takes the head of the queue to the end of the chat.
LEMMA DispatchMoves ==
  ASSUME NEW S, NEW c \in Seq(S), NEW q \in Seq(S), q # <<>>
  PROVE  Append(c, Head(q)) \o Tail(q) = c \o q
<1>1. Head(q) \in S /\ Tail(q) \in Seq(S) /\ <<Head(q)>> \in Seq(S)
  BY HeadTailProperties
<1>2. Append(c, Head(q)) = c \o <<Head(q)>>
  BY <1>1, AppendIsConcat
<1>3. <<Head(q)>> \o Tail(q) = q
  BY <1>1
<1> QED
  BY <1>1, <1>2, <1>3, ConcatAssociative

LEMMA AppendAnnounces ==
  ASSUME NEW S, NEW c \in Seq(S), NEW q \in Seq(S), NEW x \in S
  PROVE  c \o Append(q, x) = Append(c \o q, x)
<1>1. Append(q, x) = q \o <<x>> /\ Append(c \o q, x) = (c \o q) \o <<x>>
  BY AppendIsConcat, ConcatProperties
<1> QED
  BY <1>1, ConcatAssociative

LEMMA OrderTypes ==
  ASSUME Types
  PROVE  /\ worker.number \in Nat /\ worker.last \in Nat /\ worker.uploads \subseteq Nat
         /\ worker.done \in Seq(Nat)
         /\ news.announced \in Nat /\ status.report.last \in Nat
         /\ news.chat \in Seq(Nat) /\ news.queue \in Seq(Nat) /\ Announced \in Seq(Nat)
         /\ worker.recording \in BOOLEAN
<1>1. Recordings \subseteq Nat
  BY PluginAssumption DEF Recordings
<1>2. Seq(Recordings) \subseteq Seq(Nat)
  BY <1>1, SeqMonotonic
<1> QED
  BY <1>1, <1>2, ConcatProperties
     DEF Types, WorkerType, NewsType, StatusType, Report, Announced

LEMMA StagesKept ==
  ASSUME Stages, worker'.number = worker.number, worker'.uploads = worker.uploads,
         worker'.done = worker.done, worker'.recording => worker.recording,
         worker'.last \in {0, worker.last}
  PROVE  Stages'
BY DEF Stages, Within

LEMMA PassedKept ==
  ASSUME Passed, UNCHANGED news, worker'.done = worker.done, status'.report = status.report
  PROVE  Passed'
BY DEF Passed, Announced

LEMMA DispatchOrder ==
  ASSUME Types, Stages, Passed, Dispatch
  PROVE  Stages' /\ Passed'
<1>1. /\ news'.announced = news.announced
      /\ news'.chat = Append(news.chat, Head(news.queue)) /\ news'.queue = Tail(news.queue)
  BY DEF Dispatch, Types, NewsType
<1>2. Announced' = Announced
  BY <1>1, DispatchMoves, OrderTypes DEF Announced, Dispatch
<1>3. worker' = worker /\ status' = status
  BY DEF Dispatch
<1> QED
  BY <1>1, <1>2, <1>3 DEF Stages, Passed

\* What a poll brings is announced behind all that was announced before.
LEMMA ApplyOrder ==
  ASSUME Types, Stages, Passed, ApplyStatus
  PROVE  Stages' /\ Passed'
<1> DEFINE last == status.report.last
           done == worker.done
<1>1. worker' = worker /\ status'.report = status.report /\ Announce(last)
  BY DEF ApplyStatus, Types, StatusType
<1>2. Stages'
  BY <1>1 DEF Stages
<1>3. CASE last \in {0, news.announced}
  BY <1>1, <1>2, <1>3, PassedKept DEF Announce
<1>4. CASE last \notin {0, news.announced}
  <2>1. /\ news'.announced = last /\ news'.chat = news.chat
        /\ news'.queue = Append(news.queue, last)
    BY <1>1, <1>4 DEF Announce, Types, NewsType
  <2>2. Announced' = Append(Announced, last)
    <3>1. news.chat \in Seq(Nat) /\ news.queue \in Seq(Nat) /\ last \in Nat
      BY OrderTypes
    <3>2. \A c, q \in Seq(Nat), x \in Nat : c \o Append(q, x) = Append(c \o q, x)
      BY AppendAnnounces
    <3> QED
      BY <2>1, <3>1, <3>2 DEF Announced
  <2>3. \A i \in DOMAIN Announced : Earlier(done, Announced[i], last)
    <3>1. ASSUME NEW i \in DOMAIN Announced
          PROVE  Earlier(done, Announced[i], last)
      <4>1. news.announced # 0
        BY OrderTypes DEF Passed
      <4>2. Earlier(done, news.announced, last)
        BY <1>4, <4>1 DEF Passed
      <4>3. Announced[i] = news.announced \/ Earlier(done, Announced[i], news.announced)
        BY DEF Passed
      <4>4. done \in Seq(Nat) /\ Distinct(done)
        BY OrderTypes DEF Stages
      <4> HIDE DEF last, done
      <4> QED
        BY <4>2, <4>3, <4>4, EarlierIsOrder
    <3> QED
      BY <3>1
  <2>4. /\ DOMAIN Announced' = 1..(Len(Announced) + 1) /\ DOMAIN Announced = 1..Len(Announced)
        /\ Len(Announced) \in Nat
        /\ Announced'[Len(Announced) + 1] = last
        /\ \A i \in DOMAIN Announced : Announced'[i] = Announced[i]
    BY <2>2, AppendProperties, OrderTypes
  <2>5. \A i \in DOMAIN Announced' : Announced'[i] = last \/ Earlier(done, Announced'[i], last)
    BY <2>3, <2>4
  <2>6. \A i, j \in DOMAIN Announced' :
          i < j => Earlier(done, Announced'[i], Announced'[j])
    <3>1. ASSUME NEW i \in DOMAIN Announced', NEW j \in DOMAIN Announced', i < j
          PROVE  Earlier(done, Announced'[i], Announced'[j])
      <4>1. i \in DOMAIN Announced
        BY <2>4, <3>1
      <4>2. j \in DOMAIN Announced \/ j = Len(Announced) + 1
        BY <2>4
      <4>3. CASE j \in DOMAIN Announced
        BY <2>4, <3>1, <4>1, <4>3 DEF Passed
      <4>4. CASE j = Len(Announced) + 1
        BY <2>3, <2>4, <4>1, <4>4
      <4> QED
        BY <4>2, <4>3, <4>4
    <3> QED
      BY <3>1
  <2>7. Within(done, last)
    BY <1>4 DEF Passed
  <2> QED
    BY <1>1, <1>2, <1>4, <2>1, <2>5, <2>6, <2>7 DEF Passed
<1> QED
  BY <1>3, <1>4

\* The report of a poll is the last result, or nothing.
LEMMA ReportOrder ==
  ASSUME Types, Stages, Passed, UNCHANGED <<worker, news>>,
         status'.report.last \in {0, worker.last}
  PROVE  Stages' /\ Passed'
<1>1. Stages'
  BY DEF Stages
<1>2. CASE status'.report.last = 0
  BY <1>1, <1>2 DEF Passed, Announced
<1>3. CASE worker.last # 0 /\ status'.report.last = worker.last
  <2>1. worker.done \in Seq(Nat) /\ worker.done # <<>>
        /\ worker.last = worker.done[Len(worker.done)]
    BY <1>3, OrderTypes DEF Stages
  <2>2. Within(worker.done, worker.last)
    <3>1. Len(worker.done) \in DOMAIN worker.done
      BY <2>1
    <3> QED
      BY <2>1, <3>1 DEF Within
  <2>3. news.announced \in {0, worker.last} \/ Earlier(worker.done, news.announced, worker.last)
    BY <2>1, LastIsLatest DEF Passed
  <2> QED
    BY <1>1, <1>3, <2>2, <2>3 DEF Passed, Announced
<1> QED
  BY <1>2, <1>3

LEMMA RecordStartOrder ==
  ASSUME Types, Stages, Passed, UNCHANGED news, status'.report = status.report,
         NEW answer, RecordStart(answer)
  PROVE  Stages' /\ Passed'
<1>1. CASE worker' = worker
  BY <1>1, StagesKept, PassedKept
<1>2. CASE worker' # worker
  <2>1. /\ worker'.number = worker.number + 1
        /\ worker'.last = worker.last /\ worker'.uploads = worker.uploads
        /\ worker'.done = worker.done
    BY <1>2 DEF RecordStart, Types, WorkerType
  <2>2. /\ 1..worker.number \subseteq 1..(worker.number + 1)
        /\ worker.number + 1 \notin 1..worker.number /\ worker.number + 1 > 0
    BY OrderTypes
  <2>3. Stages'
    BY <2>1, <2>2 DEF Stages, Within
  <2> QED
    BY <2>1, <2>3, PassedKept
<1> QED
  BY <1>1, <1>2

LEMMA RecordStopOrder ==
  ASSUME Types, Stages, Passed, UNCHANGED <<news, status>>,
         NEW answer, RecordStop(answer)
  PROVE  Stages' /\ Passed'
<1>1. CASE worker' = worker
  BY <1>1, StagesKept, PassedKept
<1>2. CASE worker' # worker
  <2>1. PICK queued \in {{}, {worker.number}} :
          worker' = [worker EXCEPT !.recording = FALSE, !.uploads = @ \union queued]
    BY <1>2 DEF RecordStop
  <2>2. /\ worker'.number = worker.number /\ worker'.last = worker.last
        /\ worker'.done = worker.done
        /\ worker'.uploads = worker.uploads \union queued /\ ~worker'.recording
    BY <2>1 DEF Types, WorkerType
  <2>3. worker.recording
    BY <1>2 DEF RecordStop
  <2>4. worker.number \in 1..worker.number
    BY <2>3, OrderTypes DEF Stages
  <2>5. \A n \in DOMAIN worker.done : worker.done[n] # worker.number
    BY <2>3 DEF Stages, Within
  <2>6. Stages'
    BY <2>1, <2>2, <2>4, <2>5 DEF Stages
  <2> QED
    BY <2>2, <2>6, PassedKept
<1> QED
  BY <1>1, <1>2

\* An upload that succeeds comes after all those before it.
LEMMA UploadOrder ==
  ASSUME Types, Stages, Passed, UploadDone
  PROVE  Stages' /\ Passed'
<1>1. PICK r \in worker.uploads :
        \/ worker' = [worker EXCEPT !.uploads = @ \ {r}, !.last = r, !.done = Append(@, r)]
        \/ worker' = [worker EXCEPT !.uploads = @ \ {r}, !.last = 0]
        \/ worker' = [worker EXCEPT !.last = 0]
  BY DEF UploadDone
<1>2. news' = news /\ status' = status
  BY DEF UploadDone
<1>3. CASE worker' = [worker EXCEPT !.uploads = @ \ {r}, !.last = r, !.done = Append(@, r)]
  <2>1. /\ worker'.number = worker.number /\ worker'.recording = worker.recording
        /\ worker'.uploads = worker.uploads \ {r} /\ worker'.last = r
        /\ worker'.done = Append(worker.done, r)
    BY <1>3 DEF Types, WorkerType
  <2>2. r \in Nat /\ worker.done \in Seq(Nat)
    BY OrderTypes
  <2>3. r \in 1..worker.number /\ ~Within(worker.done, r)
    BY DEF Stages, Within
  <2>4. worker.recording => r # worker.number
    BY DEF Stages
  <2>5. /\ worker'.done # <<>> /\ worker'.done[Len(worker'.done)] = r
        /\ \A n \in DOMAIN worker'.done :
             worker'.done[n] = r \/ Within(worker.done, worker'.done[n])
        /\ Distinct(worker'.done)
    BY <2>1, <2>2, <2>3, AppendKeeps DEF Stages
  <2>6. \A x : Within(worker.done, x) => x \in 1..worker.number /\ x \notin worker.uploads
    BY DEF Stages, Within
  <2>7. worker.recording => ~Within(worker'.done, worker.number)
    BY <2>4, <2>5 DEF Stages, Within
  <2>8. Stages'
    BY <2>1, <2>3, <2>5, <2>6, <2>7 DEF Stages
  <2>9. /\ \A x : Within(worker.done, x) => Within(worker'.done, x)
        /\ \A x, y : Earlier(worker.done, x, y) => Earlier(worker'.done, x, y)
    BY <2>1, <2>2, AppendKeeps
  <2>10. Passed'
    BY <1>2, <2>9 DEF Passed, Announced
  <2> QED
    BY <2>8, <2>10
<1>4. CASE worker' = [worker EXCEPT !.uploads = @ \ {r}, !.last = 0]
  <2>1. /\ worker'.number = worker.number /\ worker'.recording = worker.recording
        /\ worker'.uploads = worker.uploads \ {r} /\ worker'.last = 0
        /\ worker'.done = worker.done
    BY <1>4 DEF Types, WorkerType
  <2>2. Stages'
    BY <2>1 DEF Stages
  <2> QED
    BY <1>2, <2>1, <2>2, PassedKept
<1>5. CASE worker' = [worker EXCEPT !.last = 0]
  <2>1. /\ worker'.number = worker.number /\ worker'.recording = worker.recording
        /\ worker'.uploads = worker.uploads /\ worker'.last = 0
        /\ worker'.done = worker.done
    BY <1>5 DEF Types, WorkerType
  <2> QED
    BY <1>2, <2>1, StagesKept, PassedKept
<1> QED
  BY <1>1, <1>3, <1>4, <1>5

\* The worker forgets its last result, or gives up its recording.
LEMMA WorkerOrder ==
  ASSUME Types, Stages, Passed, CaptureReady \/ Interrupted \/ Crash
  PROVE  Stages' /\ Passed'
<1>1. news' = news /\ status' = status
  BY DEF CaptureReady, Interrupted, Crash
<1>2. /\ worker'.number = worker.number /\ worker'.uploads = worker.uploads
      /\ worker'.done = worker.done /\ worker'.last \in {0, worker.last}
      /\ worker'.recording => worker.recording
  BY DEF CaptureReady, Interrupted, Crash, Types, WorkerType
<1> QED
  BY <1>1, <1>2, StagesKept, PassedKept

\* The chat hears of every upload once at most, of none that did not succeed, and in the
\* order in which the uploads ended, whatever worker and whatever poll brings the news
\* (Plugin.cpp:231-243, 768-769; UploadQueue.cpp:71-75).
THEOREM AnnouncementsInOrder == PluginSpec => []AnnouncedInOrder
<1>1. PluginInit => Stages /\ Passed
  BY ConcatEmptySeq, EmptySeq
     DEF PluginInit, NoReport, Stages, Passed, Announced, Distinct, Within, Earlier
<1>2. Types /\ Stages /\ Passed /\ [PluginNext]_vars => Stages' /\ Passed'
  <2> SUFFICES ASSUME Types, Stages, Passed, [PluginNext]_vars
               PROVE  Stages' /\ Passed'
    OBVIOUS
  <2>1. ASSUME UNCHANGED <<status, news, worker>> PROVE Stages' /\ Passed'
    BY <2>1, StagesKept, PassedKept
  <2>2. CASE \/ TypeStart \/ TypeStop \/ TypePunishment \/ ClickStart \/ ClickStop \/ Look
             \/ PressEscape \/ Chat \/ GameStarted \/ GameStopped \/ UNCHANGED vars
    BY <2>1, <2>2
       DEF TypeStart, TypeStop, TypePunishment, ClickStart, ClickStop, Look, PressEscape,
           Chat, Typed, Clicked, GameStarted, GameStopped, pluginVars, vars
  <2>3. CASE GameStart
    BY <2>3, RecordStartOrder DEF GameStart
  <2>4. CASE GameStop
    BY <2>4, RecordStopOrder DEF GameStop
  <2>5. CASE Poll
    <3>1. \/ status'.report = status.report
          \/ status'.report = [recording |-> worker.recording, ready |-> worker.ready,
                               last |-> worker.last]
      BY <2>5 DEF Poll, Types, StatusType
    <3>2. CASE status'.report = status.report
      BY <2>5, <3>2, StagesKept, PassedKept DEF Poll
    <3>3. CASE status'.report = [recording |-> worker.recording, ready |-> worker.ready,
                                 last |-> worker.last]
      BY <2>5, <3>3, ReportOrder DEF Poll
    <3> QED
      BY <3>1, <3>2, <3>3
  <2>6. CASE PollFailed
    <3>1. /\ news' = news /\ status'.report = status.report
          /\ worker'.number = worker.number /\ worker'.uploads = worker.uploads
          /\ worker'.done = worker.done /\ worker'.last = worker.last
          /\ worker'.recording = worker.recording
      BY <2>6 DEF PollFailed, Types, StatusType, WorkerType
    <3> QED
      BY <3>1, StagesKept, PassedKept
  <2>7. CASE CheckPending
    <3>1. status'.report.last = 0
      BY <2>7 DEF CheckPending, NoReport, Types, StatusType
    <3> QED
      BY <2>7, <3>1, ReportOrder DEF CheckPending
  <2>8. CASE StatusStart
    <3>1. status'.report = status.report /\ news' = news
      BY <2>8 DEF StatusStart, Types, StatusType
    <3> QED
      BY <2>8, <3>1, RecordStartOrder DEF StatusStart
  <2>9. CASE StatusStarted
    <3>1. status'.report = status.report /\ news' = news /\ worker' = worker
      BY <2>9 DEF StatusStarted, Types, StatusType
    <3> QED
      BY <3>1, StagesKept, PassedKept
  <2> QED
    BY <2>2, <2>3, <2>4, <2>5, <2>6, <2>7, <2>8, <2>9, DispatchOrder, ApplyOrder,
       UploadOrder, WorkerOrder
       DEF PluginNext, GameStep, StatusStep
<1>3. Types /\ Stages /\ Passed => AnnouncedInOrder
  <2> SUFFICES ASSUME Types, Stages, Passed PROVE AnnouncedInOrder
    OBVIOUS
  <2>1. worker.done \in Seq(Nat) /\ Distinct(worker.done)
    BY OrderTypes DEF Stages
  <2>2. ASSUME NEW i \in DOMAIN Announced PROVE Announced[i] \in ToSet(worker.done)
    <3>1. news.announced # 0
      BY OrderTypes DEF Passed
    <3>2. Within(worker.done, Announced[i])
      BY <2>1, <3>1, EarlierIsOrder DEF Passed
    <3> QED
      BY <3>2 DEF Within, ToSet
  <2>3. ASSUME NEW i \in DOMAIN Announced, NEW j \in DOMAIN Announced, i < j
        PROVE  /\ Announced[i] # Announced[j]
               /\ Earlier(worker.done, Announced[i], Announced[j])
    BY <2>1, <2>3, EarlierIsOrder DEF Passed
  <2> QED
    BY <2>2, <2>3 DEF AnnouncedInOrder, Announced, Earlier
<1> QED
  BY <1>1, <1>2, <1>3, InitTypes, StepTypes, PTL DEF PluginSpec
=============================================================================
