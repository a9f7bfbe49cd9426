----------------------------- MODULE WorkerLife -----------------------------
(***************************************************************************)
(* The life of the worker beside the game: its start by the plugin and     *)
(* with its config file, IpcServer with the pipe, a request of the plugin, *)
(* the capture, and the end of the worker after that of the game, in the   *)
(* order of wmain and ~Application.  A process that ends closes its        *)
(* handles.                                                                *)
(***************************************************************************)
EXTENDS Capture

VARIABLES
  game,   \* the game runs
  client, \* the request of the plugin: "idle", or "wait" for the answer
  main,   \* the main thread: its step; "none", there is no worker
  server, \* the thread of IpcServer: its step; "off", there is none; "failed", it has ended
  pipe,   \* "none", "listening", "open", "left" by the client, "cut" by stop()
  active, \* active_pipe_ is the pipe
  config, \* config.json: cut, after a crash in the middle of a save, and its audio source
  missed  \* history: the pipe was created when stop() had already tried to wake the thread

lifeVars == <<game, client, main, server, pipe, active, config, missed>>
vars == <<captureVars, lifeVars>>

WorkerTypeOK ==
  /\ CaptureTypeOK
  /\ game \in BOOLEAN /\ active \in BOOLEAN /\ missed \in BOOLEAN
  /\ client \in {"idle", "wait"}
  /\ main \in {"none", "config", "run", "ipc", "wake", "join", "capture", "encoder"}
  /\ server \in {"off", "failed", "loop", "create", "publish", "connect", "handle", "save", "close"}
  /\ pipe \in {"none", "listening", "open", "left", "cut"}
  /\ config \in [cut: BOOLEAN, source: Sources \cup {NoSource}]

WorkerInit ==
  /\ CaptureInit
  /\ game = TRUE /\ client = "idle" /\ main = "none" /\ server = "off"
  /\ pipe = "none" /\ active = FALSE /\ missed = FALSE
  /\ config = [cut |-> FALSE, source |-> setting]

-----------------------------------------------------------------------------
(* The process *)

\* launch_worker, after polls that found nobody; a second worker ends at the mutex.
Launch ==
  /\ game /\ main = "none" /\ client = "idle"
  /\ main' = "config"
  /\ UNCHANGED <<captureVars, game, client, server, pipe, active, config, missed>>

\* Every thread and every handle is gone.
Gone ==
  /\ NoThreads
  /\ main' = "none" /\ server' = "off" /\ pipe' = "none" /\ active' = FALSE
  /\ client' = "idle" /\ missed' = FALSE

\* load_or_create: a file that does not parse throws; the others give the settings that
\* were saved.  A file that is missing is created with defaults, before the first start here.
LoadConfig == ~config.cut /\ setting' = config.source

\* wmain up to initialize(): the config must be readable, and the game be there.
Begin ==
  /\ main = "config"
  /\ \/ /\ LoadConfig /\ game
        /\ main' = "run" /\ server' = "loop" /\ monitor' = "look" /\ video' = "pop"
        /\ UNCHANGED <<client, pipe, active, missed, capture, backend, frames, lost, audio>>
     \/ LoadConfig /\ ~game /\ Gone
     \/ config.cut /\ Gone /\ UNCHANGED setting
  /\ UNCHANGED <<window, faults, game, config>>

\* The worker dies; one that was saving leaves the file cut.
Crash ==
  /\ main # "none" /\ Fault
  /\ config' = [config EXCEPT !.cut = @ \/ server = "save"]
  /\ Gone
  /\ UNCHANGED <<setting, window, game>>

\* The watcher sees the end of the game.
Watch ==
  /\ main = "run" /\ ~game
  /\ main' = "ipc"
  /\ UNCHANGED <<captureVars, game, client, server, pipe, active, config, missed>>

-----------------------------------------------------------------------------
(* IpcServer::stop and the rest of ~Application *)

\* The pipe that is known is cut under whoever uses it.
CutPipe ==
  /\ main = "ipc"
  /\ pipe' = IF active THEN "cut" ELSE pipe
  /\ client' = IF active THEN "idle" ELSE client
  /\ active' = FALSE
  /\ main' = "wake"
  /\ UNCHANGED <<captureVars, game, server, config, missed>>

\* Variant: nobody is woken.
WakeNobody ==
  /\ main = "wake" /\ main' = "join"
  /\ UNCHANGED <<captureVars, game, client, server, pipe, active, config, missed>>

\* A pipe that listens is opened and closed again.
Wake ==
  /\ main = "wake"
  /\ pipe' = IF pipe = "listening" THEN "left" ELSE pipe
  /\ main' = "join"
  /\ UNCHANGED <<captureVars, game, client, server, active, config, missed>>

Join ==
  /\ main = "join" /\ server \in {"off", "failed"}
  /\ main' = "capture"
  /\ UNCHANGED <<captureVars, game, client, server, pipe, active, config, missed>>

EndCapture ==
  /\ main = "capture" /\ StopCapture
  /\ main' = "encoder"
  /\ UNCHANGED <<audioVars, window, frames, video, lost, faults, game, client, server, pipe,
                 active, config, missed>>

\* The main thread and a recovery stop the capture at once: both join the monitor thread,
\* and the behaviour is undefined; the process may end.
Clash ==
  /\ main = "capture" /\ video = "halt"
  /\ Gone
  /\ UNCHANGED <<setting, window, faults, game, config>>

\* The encoder thread ends after its frame or its recovery, and the process with it.
End ==
  /\ main = "encoder" /\ video = "pop"
  /\ Gone
  /\ UNCHANGED <<setting, window, faults, game, config>>

Closing == CutPipe \/ Wake \/ Join \/ EndCapture \/ End

-----------------------------------------------------------------------------
(* IpcServer::run *)

StopRequested == main \in {"wake", "join", "capture", "encoder"}

ServerGoto(pc) ==
  server' = pc /\ UNCHANGED <<captureVars, game, main, config>>

Loop ==
  /\ server = "loop"
  /\ ServerGoto(IF StopRequested THEN "off" ELSE "create")
  /\ UNCHANGED <<client, pipe, active, missed>>

\* CreateNamedPipe; a client can open the pipe from now on.
Create ==
  /\ server = "create" /\ ServerGoto("publish")
  /\ pipe' = "listening"
  /\ missed' = (main = "join")
  /\ UNCHANGED <<client, active>>

\* The thread ends, and the worker lives on without it.
CreateFails ==
  /\ server = "create" /\ Fault
  /\ server' = "failed"
  /\ UNCHANGED <<audioVars, window, capture, backend, monitor, frames, video, lost, game, client, main,
                 pipe, active, config, missed>>

Publish ==
  /\ server = "publish" /\ ServerGoto("connect")
  /\ active' = TRUE
  /\ UNCHANGED <<client, pipe, missed>>

Connect ==
  /\ server = "connect" /\ pipe # "listening"
  /\ ServerGoto(IF pipe = "cut" \/ StopRequested THEN "close" ELSE "handle")
  /\ UNCHANGED <<client, pipe, active, missed>>

\* Variant: the answer is not written.
HandleSilently ==
  /\ server = "handle" /\ ServerGoto("connect")
  /\ pipe' = IF pipe = "open" THEN "listening" ELSE pipe
  /\ UNCHANGED <<client, active, missed>>

\* The request is served and answered; a client that is gone gets nothing.
Handle ==
  /\ server = "handle" /\ ServerGoto("close")
  /\ client' = "idle"
  /\ UNCHANGED <<pipe, active, missed>>

\* settings_set: Config::save cuts the file and writes it again, under settings_mutex_.
Save ==
  /\ server = "handle" /\ pipe # "left"
  /\ server' = "save"
  /\ \E source \in Sources \cup {NoSource} : ChooseSource(source)
  /\ UNCHANGED <<window, capture, backend, monitor, frames, video, lost, faults, game, client,
                 main, pipe, active, config, missed>>

Saved ==
  /\ server = "save" /\ server' = "close"
  /\ config' = [config EXCEPT !.source = setting]
  /\ client' = "idle"
  /\ UNCHANGED <<captureVars, game, main, pipe, active, missed>>

\* The file cannot be opened: the setting holds until the worker ends.
SaveFails ==
  /\ server = "save" /\ server' = "close" /\ Fault
  /\ client' = "idle"
  /\ UNCHANGED <<audioVars, window, capture, backend, monitor, frames, video, lost, game, main,
                 pipe, active, config, missed>>

\* Variant: the thread ends with its client.
ServeOnce ==
  /\ server = "close" /\ ServerGoto("off")
  /\ pipe' = "none" /\ active' = FALSE /\ client' = "idle"
  /\ UNCHANGED missed

\* Disconnected and closed, by this thread or by stop(); a client that still waits fails.
Close ==
  /\ server = "close" /\ ServerGoto("loop")
  /\ pipe' = "none" /\ active' = FALSE /\ client' = "idle"
  /\ UNCHANGED missed

Serving == Loop \/ Create \/ Publish \/ Connect \/ Handle \/ Saved \/ Close

-----------------------------------------------------------------------------
(* The plugin *)

\* IpcClient::request; it waits without a limit for the answer.
Request ==
  /\ game /\ client = "idle" /\ pipe = "listening"
  /\ client' = "wait" /\ pipe' = "open"
  /\ UNCHANGED <<captureVars, game, main, server, active, config, missed>>

GameEnds ==
  /\ game /\ game' = FALSE
  /\ client' = "idle"
  /\ pipe' = IF client = "wait" THEN "left" ELSE pipe
  /\ UNCHANGED <<captureVars, main, server, active, config, missed>>

\* The settings are read under settings_mutex_, and no frame is taken once the end of the
\* thread was asked for; the queue is closed then.
EncoderMay ==
  /\ video = "audio" => server # "save"
  /\ video = "pop" => main # "encoder"
  /\ UNCHANGED lifeVars

EncoderStep == Encoding /\ EncoderMay
FrameStep == Frame /\ main # "encoder" /\ UNCHANGED lifeVars
CaptureStep == Capturing /\ UNCHANGED lifeVars
TroubleStep == (EncodingFails /\ EncoderMay) \/ (Trouble /\ UNCHANGED lifeVars)

WorkerNext ==
  \/ Launch \/ Begin \/ Crash \/ Watch \/ Closing \/ Clash
  \/ Serving \/ CreateFails \/ Save \/ SaveFails \/ Request \/ GameEnds
  \/ CaptureStep \/ FrameStep \/ EncoderStep \/ TroubleStep

\* The threads of the worker run, a backend that runs delivers frames, and the plugin polls
\* and starts the worker again.  The encoder thread is strong: it is let into settings_mutex_
\* although the IPC thread takes it again and again.
WorkerFairness ==
  /\ WF_vars(Launch) /\ WF_vars(Begin \/ Watch \/ Closing) /\ WF_vars(Serving)
  /\ WF_vars(CaptureStep) /\ WF_vars(FrameStep) /\ SF_vars(EncoderStep)

WorkerSpec == WorkerInit /\ [][WorkerNext]_vars /\ WorkerFairness

-----------------------------------------------------------------------------
(* Properties *)

\* The worker ends together with the game, unless the thread of the pipe had passed its
\* check of the stop when stop() tried to wake it (README.md:68, main.cpp:86-93,
\* IpcServer.cpp:47-60, Application.cpp:11-19).
WorkerEnds == ~game ~> main = "none" \/ missed

\* The plugin never waits for ever for an answer, however the worker ends
\* (IpcClient.cpp:8-28, IpcServer.cpp:75-79).
ClientReturns == client = "wait" ~> client = "idle"

\* While the game runs there is a worker that listens, again and again, unless its config
\* was cut or its pipe could not be created (Plugin.cpp:749-774, IpcServer.cpp:65-80,
\* Config.cpp:45, 86).
WorkerListens ==
  game ~> \/ pipe = "listening" \/ ~game \/ config.cut
          \/ main = "run" /\ server = "failed"

\* A window that stays is captured, whatever fails, unless a recovery failed
\* (CaptureManager.cpp:36-63, Application.cpp:66-74).
CaptureRecovers ==
  main = "run" /\ window ~> main # "run" \/ ~window \/ lost \/ (backend = "live" /\ capture.hwnd)

\* A choice of the audio source that stays takes effect while the window is captured: the
\* microphone that was turned off is left, and the new source is used unless one could not
\* be started (Application.cpp:53-61, 67-71, 118-124).
AudioFollows ==
  \A source \in Sources \cup {NoSource} :
    setting = source /\ main = "run" ~>
      \/ setting # source \/ main # "run" \/ ~window \/ lost
      \/ IF source = NoSource \/ audio.failed THEN ~audio.on
         ELSE audio.on /\ audio.source = source
=============================================================================
