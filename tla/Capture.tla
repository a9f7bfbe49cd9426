------------------------------- MODULE Capture -------------------------------
(***************************************************************************)
(* The capture of the worker: CaptureManager with its monitor thread, the  *)
(* backend it starts (Windows Graphics Capture, or desktop duplication),   *)
(* the BoundedQueue of frames, and the encoder thread that takes them,     *)
(* looks after the audio and renews the pipeline.  Of the game there is    *)
(* one window, which may be there or not; pictures, sizes and times are    *)
(* left out.                                                               *)
(***************************************************************************)
EXTENDS Naturals, AudioSource

CONSTANTS
  QueueFrames, \* video.queue_frames
  MaxFaults    \* bound: what goes wrong in a run

ASSUME CaptureAssumption == QueueFrames \in Nat \ {0} /\ MaxFaults \in Nat

VARIABLES
  window,  \* find_window() finds one
  capture, \* CaptureManager: state_, whether hwnd_ is set, backend_failed_
  backend, \* "none", "live", or "dead": it has reported an error and ended
  monitor, \* the monitor thread: its step; "off", there is none
  frames,  \* frames_: how many, and history: some were made with an earlier device
  video,   \* the encoder thread: its step
  lost,    \* history: a recovery failed, so that nothing starts the capture again
  faults   \* history: faults so far

captureVars == <<audioVars, window, capture, backend, monitor, frames, video, lost, faults>>

CaptureTypeOK ==
  /\ AudioTypeOK
  /\ window \in BOOLEAN
  /\ capture \in [state: {"waiting", "starting", "running", "restarting", "error"},
                  hwnd: BOOLEAN, failed: BOOLEAN]
  /\ backend \in {"none", "live", "dead"}
  /\ monitor \in {"off", "look", "start", "set"}
  /\ frames \in [count: 0..QueueFrames, old: BOOLEAN]
  /\ video \in {"off", "pop", "audio", "halt", "renew"}
  /\ lost \in BOOLEAN
  /\ faults \in 0..MaxFaults

\* What there is before initialize() and after the end of the process.
NoThreads ==
  /\ capture' = [state |-> "waiting", hwnd |-> FALSE, failed |-> FALSE]
  /\ backend' = "none" /\ monitor' = "off" /\ video' = "off"
  /\ frames' = [count |-> 0, old |-> FALSE] /\ lost' = FALSE
  /\ audio' = [on |-> FALSE, source |-> NoSource, failed |-> FALSE]

CaptureInit ==
  /\ AudioInit
  /\ window = TRUE
  /\ capture = [state |-> "waiting", hwnd |-> FALSE, failed |-> FALSE]
  /\ backend = "none" /\ monitor = "off" /\ video = "off"
  /\ frames = [count |-> 0, old |-> FALSE] /\ lost = FALSE
  /\ faults = 0

Fault == faults < MaxFaults /\ faults' = faults + 1

-----------------------------------------------------------------------------
(* The monitor thread *)

\* Without a window the backend is stopped; a window that is not captured, or whose capture
\* has failed, is connected to: connect() first stops what there is.
Look ==
  /\ monitor = "look"
  /\ \/ /\ ~window
        /\ capture' = [capture EXCEPT !.hwnd = FALSE, !.state = "waiting"]
        /\ backend' = "none" /\ UNCHANGED monitor
     \/ /\ window /\ (~capture.hwnd \/ capture.failed)
        /\ capture' = [state |-> IF capture.hwnd THEN "restarting" ELSE "starting",
                       hwnd |-> FALSE, failed |-> FALSE]
        /\ backend' = "none" /\ monitor' = "start"
  /\ UNCHANGED <<audioVars, window, frames, video, lost, faults>>

StartBackend ==
  /\ monitor = "start"
  /\ backend' = "live" /\ monitor' = "set"
  /\ UNCHANGED <<audioVars, window, capture, frames, video, lost, faults>>

\* Neither backend can be started: the next look tries again.
StartFails ==
  /\ monitor = "start" /\ Fault
  /\ capture' = [capture EXCEPT !.state = "error"]
  /\ monitor' = "look"
  /\ UNCHANGED <<audioVars, window, backend, frames, video, lost>>

\* Variant: a failure from before this step is forgotten.
ConnectedClean ==
  /\ monitor = "set"
  /\ capture' = [state |-> "running", hwnd |-> TRUE, failed |-> FALSE]
  /\ monitor' = "look"
  /\ UNCHANGED <<audioVars, window, backend, frames, video, lost, faults>>

\* state_ is set whether the backend has reported an error meanwhile or not.
Connected ==
  /\ monitor = "set"
  /\ capture' = [capture EXCEPT !.state = "running", !.hwnd = TRUE]
  /\ monitor' = "look"
  /\ UNCHANGED <<audioVars, window, backend, frames, video, lost, faults>>

\* An error of a backend that runs; desktop duplication ends with it.
BackendFails ==
  /\ backend = "live" /\ Fault
  /\ capture' = [capture EXCEPT !.state = "restarting", !.failed = TRUE]
  /\ backend' \in {"live", "dead"}
  /\ UNCHANGED <<audioVars, window, monitor, frames, video, lost>>

\* The window is minimized, restored, or replaced.
WindowChanges ==
  /\ Fault /\ window' = ~window
  /\ UNCHANGED <<audioVars, capture, backend, monitor, frames, video, lost>>

\* The oldest frame is dropped from a full queue.
PushDropOldest == frames' = [frames EXCEPT !.count = IF @ < QueueFrames THEN @ + 1 ELSE @]

Frame ==
  /\ backend = "live" /\ PushDropOldest
  /\ UNCHANGED <<audioVars, window, capture, backend, monitor, video, lost, faults>>

\* CaptureManager::stop, once the monitor thread has ended.
StopCapture ==
  /\ monitor \in {"look", "off"}
  /\ monitor' = "off" /\ backend' = "none"
  /\ capture' = [capture EXCEPT !.hwnd = FALSE, !.state = "waiting"]

-----------------------------------------------------------------------------
(* The encoder thread *)

\* A frame that comes too early, and one that fails before the third, change nothing here.
Encode ==
  /\ video = "pop" /\ frames.count > 0
  /\ frames' = [frames EXCEPT !.count = @ - 1]
  /\ video' = "audio"
  /\ UNCHANGED <<audioVars, window, capture, backend, monitor, lost, faults>>

\* The audio after a frame; a source is started with the process that owns hwnd_.
AfterFrame ==
  /\ video = "audio" /\ video' = "pop"
  /\ KeepAudio(capture.hwnd) \/ StartAudio(capture.hwnd)
  /\ UNCHANGED <<window, capture, backend, monitor, frames, lost, faults>>

AfterFrameFails ==
  /\ video = "audio" /\ video' = "pop"
  /\ AudioFails(capture.hwnd) /\ Fault
  /\ UNCHANGED <<window, capture, backend, monitor, frames, lost>>

AudioDeviceLost ==
  /\ AudioLost /\ Fault
  /\ UNCHANGED <<window, capture, backend, monitor, frames, video, lost>>

\* The third failure in a row.
EncodeFails ==
  /\ video = "pop" /\ frames.count > 0 /\ Fault
  /\ frames' = [frames EXCEPT !.count = @ - 1]
  /\ video' = "halt"
  /\ UNCHANGED <<audioVars, window, capture, backend, monitor, lost>>

\* Variant: the queue keeps its frames.
HaltKeeping ==
  /\ video = "halt" /\ StopCapture /\ StopAudio
  /\ video' = "renew"
  /\ UNCHANGED <<window, frames, lost, faults>>

\* recover_pipeline: capture and audio are stopped before the queue is emptied.
Halt ==
  /\ video = "halt" /\ StopCapture /\ StopAudio
  /\ frames' = [frames EXCEPT !.count = 0]
  /\ video' = "renew"
  /\ UNCHANGED <<window, lost, faults>>

\* What the queue holds when the device is made again is of the old one.
NewDevice == frames' = [frames EXCEPT !.old = frames.count > 0]

\* Variant: the capture is left stopped.
RenewOnly ==
  /\ video = "renew" /\ NewDevice
  /\ video' = "pop" /\ ForgetAudio
  /\ UNCHANGED <<window, capture, backend, monitor, lost, faults>>

Renew ==
  /\ video = "renew" /\ NewDevice
  /\ monitor' = "look" /\ video' = "pop" /\ ForgetAudio
  /\ UNCHANGED <<window, capture, backend, lost, faults>>

\* recreate() throws, and the capture is not started again.
RenewFails ==
  /\ video = "renew" /\ Fault
  /\ video' = "pop" /\ lost' = TRUE
  /\ UNCHANGED <<audioVars, window, capture, backend, monitor, frames>>

Capturing == Look \/ StartBackend \/ Connected
Encoding == Encode \/ AfterFrame \/ Halt \/ Renew
EncodingFails == EncodeFails \/ AfterFrameFails \/ RenewFails
Trouble == StartFails \/ BackendFails \/ WindowChanges \/ AudioDeviceLost

-----------------------------------------------------------------------------
\* A backend that has ended is going to be noticed, also when it ends before connect() has
\* said that it runs (CaptureManager.cpp:38, 42, 49, 60).
InterruptionNoted == backend = "dead" => capture.failed

\* No frame of the device that a recovery replaced is left for the encoder
\* (Application.cpp:67-72, BoundedQueue.hpp:29).
FramesOfDevice == ~frames.old
=============================================================================
