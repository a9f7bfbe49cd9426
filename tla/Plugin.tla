------------------------------- MODULE Plugin -------------------------------
(***************************************************************************)
(* The plugin in the game and its worker: the thread of the game with the  *)
(* commands, prompts and buttons, status_loop with its polls, the pending  *)
(* start, the announcements and the restart of the worker.  A request is   *)
(* one step, since g_ipc_mutex lets one through at a time; what a thread   *)
(* does before and after it are steps of their own.  The worker is what    *)
(* the requests see of it.                                                 *)
(***************************************************************************)
EXTENDS Evidence, Sequences, SequencesExt

CONSTANTS
  MaxInputs,   \* bound: commands and clicks of the player
  MaxFaults,   \* bound: requests that fail, crashes, interruptions of the capture
  OfflineLimit \* failed polls after which the worker is started again

ASSUME PluginAssumption == MaxInputs \in Nat /\ MaxFaults \in Nat /\ OfflineLimit \in Nat \ {0}

VARIABLES
  shown,   \* g_recording, g_worker_online, g_capture_ready, g_start_pending
  game,    \* the thread of the game: its step and the answer to its request
  status,  \* status_loop: its step, the answer to its request, offline_polls
  news,    \* announced_upload_url, g_server_commands, and history: what the chat got
  sender,  \* g_command_sender is known
  worker,  \* alive, capture ready, recording, its number, uploads to do, last upload, and
           \* history: the recordings that were uploaded, in the order in which that ended
  inputs,  \* history: inputs of the player, and how many asked for a recording
  faults   \* history: faults so far

pluginVars == <<shown, game, status, news, sender, worker, inputs, faults>>
vars == <<evidenceVars, pluginVars>>

-----------------------------------------------------------------------------
Recordings == 0..MaxInputs
Answer == {"none", "ok", "WORKER_OFFLINE", "CAPTURE_NOT_READY", "error"}
\* What a poll learns; last: the recording of the last upload that succeeded, 0: none.
Report == [recording: BOOLEAN, ready: BOOLEAN, last: Recordings]
NoReport == [recording |-> FALSE, ready |-> FALSE, last |-> 0]

PluginTypeOK ==
  /\ EvidenceTypeOK
  /\ shown \in [recording: BOOLEAN, online: BOOLEAN, ready: BOOLEAN, pending: BOOLEAN]
  /\ game \in [pc: {"free", "start", "started", "stop", "stopped"}, answer: Answer]
  /\ status \in [pc: {"poll", "apply", "check", "start", "started"}, answer: Answer,
                 report: Report, offline: 0..(OfflineLimit - 1)]
  /\ news \in [announced: Recordings, queue: Seq(Recordings), chat: Seq(Recordings)]
  /\ sender \in BOOLEAN
  /\ worker \in [alive: BOOLEAN, ready: BOOLEAN, recording: BOOLEAN, number: Recordings,
                 uploads: SUBSET Recordings, done: Seq(Recordings), last: Recordings]
  /\ inputs \in [used: 0..MaxInputs, starts: 0..MaxInputs]
  /\ faults \in 0..MaxFaults

\* initialize() has started the worker.
PluginInit ==
  /\ EvidenceInit
  /\ shown = [recording |-> FALSE, online |-> FALSE, ready |-> FALSE, pending |-> FALSE]
  /\ game = [pc |-> "free", answer |-> "none"]
  /\ status = [pc |-> "poll", answer |-> "none", report |-> NoReport, offline |-> 0]
  /\ news = [announced |-> 0, queue |-> <<>>, chat |-> <<>>]
  /\ sender = FALSE
  /\ worker = [alive |-> TRUE, ready |-> FALSE, recording |-> FALSE, number |-> 0,
               uploads |-> {}, done |-> <<>>, last |-> 0]
  /\ inputs = [used |-> 0, starts |-> 0]
  /\ faults = 0

Fault == faults < MaxFaults /\ faults' = faults + 1

-----------------------------------------------------------------------------
(* Requests, as the worker serves them *)

\* No worker, or none that listens at this moment.
Offline == \/ ~worker.alive /\ UNCHANGED faults
           \/ worker.alive /\ Fault

\* record_start; the answer may be lost after the worker has served it, or before.
RecordStart(answer) ==
  \/ answer = "WORKER_OFFLINE" /\ Offline /\ UNCHANGED worker
  \/ answer = "error" /\ worker.alive /\ Fault /\ UNCHANGED worker
  \/ /\ worker.alive /\ ~worker.ready
     /\ answer = "CAPTURE_NOT_READY" /\ UNCHANGED <<worker, faults>>
  \/ /\ worker.alive /\ worker.ready /\ worker.recording
     /\ answer = "error" /\ UNCHANGED <<worker, faults>>
  \/ /\ worker.alive /\ worker.ready /\ ~worker.recording /\ worker.number < MaxInputs
     /\ worker' = [worker EXCEPT !.recording = TRUE, !.number = @ + 1]
     /\ \/ answer = "ok" /\ UNCHANGED faults
        \/ answer = "error" /\ Fault

\* record_stop; the file may be queued for upload, and there is none when no keyframe came.
RecordStop(answer) ==
  \/ answer = "WORKER_OFFLINE" /\ Offline /\ UNCHANGED worker
  \/ answer = "error" /\ worker.alive /\ ~worker.recording /\ UNCHANGED <<worker, faults>>
  \/ /\ worker.alive /\ worker.recording
     /\ \E queued \in {{}, {worker.number}} :
          /\ worker' = [worker EXCEPT !.recording = FALSE, !.uploads = @ \union queued]
          /\ \/ answer = "ok" /\ UNCHANGED faults
             \/ answer = "error" /\ queued = {} /\ UNCHANGED faults
             \/ answer = "error" /\ Fault

\* status
Poll ==
  /\ status.pc = "poll"
  /\ \/ /\ worker.alive /\ UNCHANGED faults
        /\ status' = [status EXCEPT !.pc = "apply", !.answer = "ok",
                        !.report = [recording |-> worker.recording, ready |-> worker.ready,
                                    last |-> worker.last]]
     \/ /\ Offline
        /\ status' = [status EXCEPT !.pc = "apply", !.answer = "WORKER_OFFLINE"]
  /\ UNCHANGED <<evidenceVars, shown, game, news, sender, worker, inputs>>

-----------------------------------------------------------------------------
(* Starting and stopping *)

\* Variant: a start that succeeds is still wanted.
StartedWanted(answer) ==
  shown' = [shown EXCEPT !.recording = @ \/ answer = "ok",
                         !.online = @ /\ answer # "WORKER_OFFLINE",
                         !.pending = @ \/ answer \in {"WORKER_OFFLINE", "CAPTURE_NOT_READY"}]

\* start_recording_now, after the answer.
Started(answer) ==
  shown' = [shown EXCEPT !.recording = @ \/ answer = "ok",
                         !.online = @ /\ answer # "WORKER_OFFLINE",
                         !.pending = answer \in {"WORKER_OFFLINE", "CAPTURE_NOT_READY"}]

\* g_start_requesting
Requesting == game.pc = "start" \/ status.pc = "start"

\* start_recording: what is not ready yet is started later; one request at a time.
AskStart ==
  \/ /\ ~shown.online \/ ~shown.ready
     /\ shown' = [shown EXCEPT !.pending = TRUE]
     /\ UNCHANGED game
  \/ /\ shown.online /\ shown.ready
     /\ game' = IF Requesting THEN game ELSE [game EXCEPT !.pc = "start"]
     /\ UNCHANGED shown

Input(starts) ==
  /\ game.pc = "free" /\ inputs.used < MaxInputs
  /\ inputs' = [used |-> inputs.used + 1, starts |-> inputs.starts + starts]

\* What is typed while a prompt is open does not reach the chat.
Typed == prompt = "none" /\ sender' = TRUE /\ UNCHANGED <<status, news, worker, faults>>
Clicked == UNCHANGED <<sender, status, news, worker, faults>>

TypeStart == Input(1) /\ AskStart /\ Typed /\ UNCHANGED evidenceVars
TypeStop ==
  /\ Input(0) /\ Typed
  /\ game' = IF shown.recording THEN [game EXCEPT !.pc = "stop"] ELSE game
  /\ UNCHANGED <<evidenceVars, shown>>
TypePunishment == Input(0) /\ Punish /\ Typed /\ UNCHANGED <<shown, game>>

\* The button of the start prompt or of the page; the prompt closes.
ClickStart ==
  /\ Input(1) /\ AskStart /\ Clicked
  /\ \/ prompt = "start" /\ ~dismiss /\ ClosePrompt
     \/ prompt = "none" /\ ~shown.recording /\ UNCHANGED evidenceVars

\* Of the finish prompt, whatever is recorded, or of the page.
ClickStop ==
  /\ Input(0) /\ Clicked
  /\ game' = [game EXCEPT !.pc = "stop"]
  /\ \/ prompt = "finish" /\ ~dismiss /\ ClosePrompt
     \/ prompt = "none" /\ shown.recording /\ UNCHANGED evidenceVars
  /\ UNCHANGED shown

GameStart ==
  /\ game.pc = "start"
  /\ \E answer \in Answer \ {"none"} :
       RecordStart(answer) /\ game' = [pc |-> "started", answer |-> answer]
  /\ UNCHANGED <<evidenceVars, shown, status, news, sender, inputs>>

GameStarted ==
  /\ game.pc = "started"
  /\ Started(game.answer)
  /\ game' = [pc |-> "free", answer |-> "none"]
  /\ UNCHANGED <<evidenceVars, status, news, sender, worker, inputs, faults>>

GameStop ==
  /\ game.pc = "stop"
  /\ \E answer \in Answer \ {"none"} :
       RecordStop(answer) /\ game' = [pc |-> "stopped", answer |-> answer]
  /\ UNCHANGED <<evidenceVars, shown, status, news, sender, inputs>>

GameStopped ==
  /\ game.pc = "stopped"
  /\ shown' = [shown EXCEPT !.recording = @ /\ game.answer # "ok"]
  /\ game' = [pc |-> "free", answer |-> "none"]
  /\ UNCHANGED <<evidenceVars, status, news, sender, worker, inputs, faults>>

\* The player looks at another one, or presses Escape.
Look == Input(0) /\ Spectate(shown.recording) /\ Clicked /\ UNCHANGED <<shown, game>>
PressEscape == Input(0) /\ Escape /\ Clicked /\ UNCHANGED <<shown, game>>

\* The chat, the 30 seconds, and a prompt that closes by a button that does nothing else or
\* by the frame after Escape, while the game does not wait for an answer.
Chat ==
  /\ game.pc = "free"
  /\ \/ \E message \in Message : Confirm(shown.recording, message)
     \/ Expire \/ ClosePrompt
  /\ UNCHANGED pluginVars

\* Variant: what cannot be sent yet is dropped.
DispatchDrops ==
  /\ game.pc = "free" /\ news.queue # <<>>
  /\ news' = [news EXCEPT !.queue = Tail(@),
                          !.chat = IF sender THEN Append(@, Head(news.queue)) ELSE @]
  /\ UNCHANGED <<evidenceVars, shown, game, status, sender, worker, inputs, faults>>

\* dispatch_server_command, at every frame.
Dispatch ==
  /\ game.pc = "free" /\ sender /\ news.queue # <<>>
  /\ news' = [news EXCEPT !.queue = Tail(@), !.chat = Append(@, Head(news.queue))]
  /\ UNCHANGED <<evidenceVars, shown, game, status, sender, worker, inputs, faults>>

-----------------------------------------------------------------------------
(* status_loop *)

\* Variant: a report does not end a recording that is shown.
ShowPartly(report) ==
  shown' = [shown EXCEPT !.online = TRUE, !.ready = report.ready,
                         !.recording = @ \/ report.recording]

\* The report replaces what is shown.
Show(report) ==
  shown' = [shown EXCEPT !.online = TRUE, !.ready = report.ready,
                         !.recording = report.recording]

\* Variant: what was announced is not kept.
AnnounceAgain(last) ==
  news' = IF last = 0 \/ Len(news.queue) = 2 THEN news
          ELSE [news EXCEPT !.queue = Append(@, last)]

\* An upload that is new in the report is announced.
Announce(last) ==
  news' = IF last \in {0, news.announced} THEN news
          ELSE [news EXCEPT !.announced = last, !.queue = Append(@, last)]

ApplyStatus ==
  /\ status.pc = "apply" /\ status.answer = "ok"
  /\ Show(status.report) /\ Announce(status.report.last)
  /\ status' = [status EXCEPT !.pc = "check", !.offline = 0]
  /\ UNCHANGED <<evidenceVars, game, sender, worker, inputs, faults>>

\* After some failed polls the worker is started again; one that is alive keeps the mutex,
\* and the new one ends.
PollFailed ==
  /\ status.pc = "apply" /\ status.answer # "ok"
  /\ shown' = [shown EXCEPT !.online = FALSE, !.ready = FALSE]
  /\ status' = [status EXCEPT !.pc = "poll", !.answer = "none",
                              !.offline = (@ + 1) % OfflineLimit]
  /\ worker' = [worker EXCEPT !.alive = @ \/ status.offline + 1 = OfflineLimit]
  /\ UNCHANGED <<evidenceVars, game, news, sender, inputs, faults>>

\* Variant: a start that is pending is left to the player.
PassOver ==
  /\ status.pc = "check"
  /\ status' = [status EXCEPT !.pc = "poll", !.answer = "none", !.report = NoReport]
  /\ UNCHANGED <<evidenceVars, shown, game, news, sender, worker, inputs, faults>>

\* A start that is pending is made up for.
CheckPending ==
  /\ status.pc = "check"
  /\ status' = [status EXCEPT !.answer = "none", !.report = NoReport,
                  !.pc = IF shown.pending /\ shown.ready /\ ~shown.recording /\ ~Requesting
                         THEN "start" ELSE "poll"]
  /\ UNCHANGED <<evidenceVars, shown, game, news, sender, worker, inputs, faults>>

StatusStart ==
  /\ status.pc = "start"
  /\ \E answer \in Answer \ {"none"} :
       RecordStart(answer) /\ status' = [status EXCEPT !.pc = "started", !.answer = answer]
  /\ UNCHANGED <<evidenceVars, shown, game, news, sender, inputs>>

StatusStarted ==
  /\ status.pc = "started"
  /\ Started(status.answer)
  /\ status' = [status EXCEPT !.pc = "poll", !.answer = "none"]
  /\ UNCHANGED <<evidenceVars, game, news, sender, worker, inputs, faults>>

-----------------------------------------------------------------------------
(* The worker *)

CaptureReady ==
  /\ worker.alive /\ ~worker.ready
  /\ worker' = [worker EXCEPT !.ready = TRUE]
  /\ UNCHANGED <<evidenceVars, shown, game, status, news, sender, inputs, faults>>

\* A recovery or a new size ends the recording, whose file is not uploaded.
Interrupted ==
  /\ worker.alive /\ worker.ready /\ Fault
  /\ worker' = [worker EXCEPT !.ready = FALSE, !.recording = FALSE]
  /\ UNCHANGED <<evidenceVars, shown, game, status, news, sender, inputs>>

\* An attempt ends: the video is there, or the job is dropped, or it is kept for a retry.  Any
\* job may be the first that is due, since those before it may wait for theirs.  The result
\* and the save of the queue are one step, as no poll is served between them.
UploadDone ==
  /\ worker.alive
  /\ \E r \in worker.uploads :
       \/ worker' = [worker EXCEPT !.uploads = @ \ {r}, !.last = r, !.done = Append(@, r)]
       \/ worker' = [worker EXCEPT !.uploads = @ \ {r}, !.last = 0]
       \/ worker' = [worker EXCEPT !.last = 0]
  /\ UNCHANGED <<evidenceVars, shown, game, status, news, sender, inputs, faults>>

\* The queue of uploads is on disk, the last result is not.
Crash ==
  /\ worker.alive /\ Fault
  /\ worker' = [worker EXCEPT !.alive = FALSE, !.ready = FALSE, !.recording = FALSE, !.last = 0]
  /\ UNCHANGED <<evidenceVars, shown, game, status, news, sender, inputs>>

GameStep == GameStart \/ GameStarted \/ GameStop \/ GameStopped
StatusStep == Poll \/ ApplyStatus \/ PollFailed \/ CheckPending \/ StatusStart \/ StatusStarted

PluginNext ==
  \/ TypeStart \/ TypeStop \/ TypePunishment \/ ClickStart \/ ClickStop \/ Look \/ PressEscape
  \/ GameStep \/ Chat \/ Dispatch \/ StatusStep
  \/ CaptureReady \/ Interrupted \/ UploadDone \/ Crash

\* The threads of the plugin run, and the capture of a live worker becomes ready.
PluginFairness ==
  WF_vars(GameStep) /\ WF_vars(Dispatch) /\ WF_vars(StatusStep) /\ WF_vars(CaptureReady)

PluginSpec == PluginInit /\ [][PluginNext]_vars /\ PluginFairness

-----------------------------------------------------------------------------
(* Properties *)

\* No request of the player starts two recordings, whether it is served at once, made up
\* for by a poll, or repeated because its answer came from a worker that was not ready
\* (Plugin.cpp:252-268, 770).
StartedOnRequest == worker.number <= inputs.starts

\* A punishment command leads to one prompt at most, and to none when the server answers
\* later than 30 seconds; a command that took the place of another leaves that one without
\* (Logic.cpp:74-91).
PromptedOnce == seen.prompts + seen.expired <= seen.commands

\* The chat hears of the uploads in the order in which they ended, which retries make another
\* one than that of the recordings, and never twice of one or of one that did not succeed,
\* whatever is lost between polls and whichever worker reports it (Plugin.cpp:231-243, 768-769;
\* UploadQueue.cpp:71-75).
AnnouncedInOrder ==
  LET announced == news.chat \o news.queue IN
    /\ \A i \in DOMAIN announced : announced[i] \in ToSet(worker.done)
    /\ \A i, j \in DOMAIN announced :
         i < j => /\ announced[i] # announced[j]
                  /\ \E m, n \in DOMAIN worker.done :
                       m < n /\ worker.done[m] = announced[i] /\ worker.done[n] = announced[j]

\* An upload that stays the last one is announced, once the player has typed a command
\* (Plugin.cpp:231-243, 769).
LastUploadAnnounced ==
  \A r \in 1..MaxInputs :
    worker.last = r ~> worker.last # r \/ ~sender \/ r \in ToSet(news.chat)

\* What is shown comes to agree with the worker, after answers that were lost or overtaken
\* and after a crash (Plugin.cpp:256-260, 270-277, 763-774).
ShownSettles == []<>(worker.alive /\ shown.online /\ shown.recording = worker.recording)

\* A start that was put off is settled: it is made, given up with a notice, or meets a
\* recording that runs already (Plugin.cpp:252-266, 770).
PendingSettles == shown.pending ~> ~shown.pending \/ shown.recording
=============================================================================
