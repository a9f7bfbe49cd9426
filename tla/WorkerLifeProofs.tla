-------------------------- MODULE WorkerLifeProofs --------------------------
(***************************************************************************)
(* Proofs about the life of the worker and its capture, for a queue of any *)
(* length, any set of audio sources and any number of faults.              *)
(***************************************************************************)
EXTENDS WorkerLife, TLAPS

\* While the device is made again nothing can put a frame of the old one into the queue:
\* the monitor thread is gone, and with it the backend.
Renewing ==
  video = "renew" => monitor = "off" /\ backend = "none" /\ frames.count = 0

\* The inductive invariant.
CaptureSafe == WorkerTypeOK /\ InterruptionNoted /\ FramesOfDevice /\ Renewing

CaptureRecord ==
  [state: {"waiting", "starting", "running", "restarting", "error"},
   hwnd: BOOLEAN, failed: BOOLEAN]
AudioRecord == [on: BOOLEAN, source: Sources \cup {NoSource}, failed: BOOLEAN]
FrameRecord == [count: 0..QueueFrames, old: BOOLEAN]

-----------------------------------------------------------------------------
(* Types *)

\* What a look of the monitor thread makes of the CaptureManager.
LEMMA LookType ==
  ASSUME CaptureTypeOK, Look
  PROVE  CaptureTypeOK'
<1>1. PICK state \in {"waiting", "starting", "restarting"}, failed \in BOOLEAN :
        capture' = [state |-> state, hwnd |-> FALSE, failed |-> failed]
  <2>1. CASE ~window
    <3>1. capture' = [state |-> "waiting", hwnd |-> FALSE, failed |-> capture.failed]
      BY <2>1 DEF Look, CaptureTypeOK
    <3> QED
      BY <3>1 DEF CaptureTypeOK
  <2>2. CASE window
    <3>1. capture' = [state |-> IF capture.hwnd THEN "restarting" ELSE "starting",
                      hwnd |-> FALSE, failed |-> FALSE]
      BY <2>2 DEF Look
    <3> QED
      BY <3>1
  <2> QED
    BY <2>1, <2>2
<1>2. capture' \in CaptureRecord
  BY <1>1 DEF CaptureRecord
<1>3. /\ backend' \in {"none", "live", "dead"}
      /\ monitor' \in {"off", "look", "start", "set"}
  BY DEF Look, CaptureTypeOK
<1> QED
  BY <1>2, <1>3 DEF CaptureTypeOK, AudioTypeOK, audioVars, Look, CaptureRecord

\* The monitor thread, the backend and the window.
LEMMA MonitorTypes ==
  ASSUME CaptureTypeOK,
         \/ Look \/ StartBackend \/ Connected \/ StartFails
         \/ BackendFails \/ WindowChanges \/ Frame
  PROVE  CaptureTypeOK'
<1>1. CASE Look
  BY <1>1, LookType
<1>2. CASE StartBackend
  BY <1>2 DEF CaptureTypeOK, AudioTypeOK, audioVars, StartBackend
<1>3. CASE Connected
  BY <1>3 DEF CaptureTypeOK, AudioTypeOK, audioVars, Connected
<1>4. CASE StartFails
  BY <1>4, CaptureAssumption DEF CaptureTypeOK, AudioTypeOK, audioVars, StartFails, Fault
<1>5. CASE BackendFails
  <2>1. capture' \in CaptureRecord
    BY <1>5 DEF BackendFails, CaptureTypeOK, CaptureRecord
  <2>2. backend' \in {"none", "live", "dead"} /\ faults' \in 0..MaxFaults
    BY <1>5, CaptureAssumption DEF BackendFails, Fault, CaptureTypeOK
  <2> QED
    BY <1>5, <2>1, <2>2
       DEF CaptureTypeOK, AudioTypeOK, audioVars, BackendFails, CaptureRecord
<1>6. CASE WindowChanges
  BY <1>6, CaptureAssumption DEF CaptureTypeOK, AudioTypeOK, audioVars, WindowChanges, Fault
<1>7. CASE Frame
  BY <1>7, CaptureAssumption
     DEF CaptureTypeOK, AudioTypeOK, audioVars, Frame, PushDropOldest
<1> QED
  BY <1>1, <1>2, <1>3, <1>4, <1>5, <1>6, <1>7

\* What the encoder thread makes of the audio after a frame, and the loss of its device.
LEMMA AudioTypes ==
  ASSUME CaptureTypeOK, AfterFrame \/ AfterFrameFails \/ AudioDeviceLost
  PROVE  CaptureTypeOK'
<1>1. CASE AfterFrame
  <2>1. audio' \in AudioRecord /\ setting' = setting
    <3>1. CASE KeepAudio(capture.hwnd)
      BY <3>1 DEF KeepAudio, Kept, CaptureTypeOK, AudioTypeOK, AudioRecord
    <3>2. CASE StartAudio(capture.hwnd)
      BY <3>2 DEF StartAudio, CaptureTypeOK, AudioTypeOK, AudioRecord
    <3> QED
      BY <1>1, <3>1, <3>2 DEF AfterFrame
  <2> QED
    BY <1>1, <2>1 DEF CaptureTypeOK, AudioTypeOK, AfterFrame, AudioRecord
<1>2. CASE AfterFrameFails
  <2>1. audio' \in AudioRecord /\ setting' = setting
    BY <1>2 DEF AfterFrameFails, AudioFails, CaptureTypeOK, AudioTypeOK, AudioRecord
  <2>2. faults' \in 0..MaxFaults
    BY <1>2, CaptureAssumption DEF AfterFrameFails, Fault, CaptureTypeOK
  <2> QED
    BY <1>2, <2>1, <2>2 DEF CaptureTypeOK, AudioTypeOK, AfterFrameFails, AudioRecord
<1>3. CASE AudioDeviceLost
  <2>1. audio' \in AudioRecord /\ setting' = setting
    BY <1>3 DEF AudioDeviceLost, AudioLost, CaptureTypeOK, AudioTypeOK, AudioRecord
  <2>2. faults' \in 0..MaxFaults
    BY <1>3, CaptureAssumption DEF AudioDeviceLost, Fault, CaptureTypeOK
  <2> QED
    BY <1>3, <2>1, <2>2 DEF CaptureTypeOK, AudioTypeOK, AudioDeviceLost, AudioRecord
<1> QED
  BY <1>1, <1>2, <1>3

\* The frames of the encoder thread and the recovery.
LEMMA EncoderTypes ==
  ASSUME CaptureTypeOK, Encode \/ EncodeFails \/ Halt \/ Renew \/ RenewFails
  PROVE  CaptureTypeOK'
<1>1. CASE Encode
  BY <1>1, CaptureAssumption DEF CaptureTypeOK, AudioTypeOK, audioVars, Encode
<1>2. CASE EncodeFails
  BY <1>2, CaptureAssumption DEF CaptureTypeOK, AudioTypeOK, audioVars, EncodeFails, Fault
<1>3. CASE Halt
  <2>1. capture' \in CaptureRecord
    BY <1>3 DEF Halt, StopCapture, CaptureTypeOK, CaptureRecord
  <2>2. audio' \in AudioRecord /\ setting' = setting
    BY <1>3 DEF Halt, StopAudio, CaptureTypeOK, AudioTypeOK, AudioRecord
  <2>3. frames' \in FrameRecord
    BY <1>3, CaptureAssumption DEF Halt, CaptureTypeOK, FrameRecord
  <2> QED
    BY <1>3, <2>1, <2>2, <2>3
       DEF CaptureTypeOK, AudioTypeOK, Halt, StopCapture, AudioRecord, CaptureRecord,
           FrameRecord
<1>4. CASE Renew
  <2>1. frames' \in FrameRecord
    <3>1. frames.count \in 0..QueueFrames /\ (frames.count > 0) \in BOOLEAN
      BY CaptureAssumption DEF CaptureTypeOK
    <3> QED
      BY <1>4, <3>1 DEF Renew, NewDevice, CaptureTypeOK, FrameRecord
  <2>2. audio' \in AudioRecord /\ setting' = setting
    BY <1>4 DEF Renew, ForgetAudio, CaptureTypeOK, AudioTypeOK, AudioRecord
  <2> QED
    BY <1>4, <2>1, <2>2 DEF CaptureTypeOK, AudioTypeOK, Renew, AudioRecord, FrameRecord
<1>5. CASE RenewFails
  BY <1>5, CaptureAssumption DEF CaptureTypeOK, AudioTypeOK, audioVars, RenewFails, Fault
<1> QED
  BY <1>1, <1>2, <1>3, <1>4, <1>5

\* The steps that leave the capture and the audio alone.
LEMMA LifeTypes ==
  ASSUME WorkerTypeOK,
         \/ Launch \/ Watch \/ CutPipe \/ Wake \/ Join
         \/ Loop \/ Create \/ Publish \/ Connect \/ Handle \/ Saved \/ Close
         \/ Request \/ GameEnds
  PROVE  WorkerTypeOK' /\ UNCHANGED captureVars
<1>1. UNCHANGED captureVars
  BY DEF Launch, Watch, CutPipe, Wake, Join, Loop, Create, Publish, Connect, Handle, Saved,
         Close, Request, GameEnds, ServerGoto
<1>2. CaptureTypeOK'
  BY <1>1 DEF WorkerTypeOK, CaptureTypeOK, AudioTypeOK, captureVars, audioVars
<1>3. CASE Launch \/ Watch \/ CutPipe \/ Wake \/ Join
  BY <1>2, <1>3 DEF WorkerTypeOK, Launch, Watch, CutPipe, Wake, Join
<1>4. CASE Loop \/ Create \/ Publish \/ Connect \/ Handle \/ Close
  BY <1>2, <1>4 DEF WorkerTypeOK, Loop, Create, Publish, Connect, Handle, Close, ServerGoto
<1>5. CASE Saved
  BY <1>2, <1>5 DEF WorkerTypeOK, Saved, captureVars, audioVars, CaptureTypeOK, AudioTypeOK
<1>6. CASE Request \/ GameEnds
  BY <1>2, <1>6 DEF WorkerTypeOK, Request, GameEnds
<1> QED
  BY <1>1, <1>3, <1>4, <1>5, <1>6

-----------------------------------------------------------------------------
(* The invariant *)

\* A process that has ended holds nothing that could be stale.
LEMMA GoneIsSafe ==
  ASSUME WorkerTypeOK, Gone, setting' \in Sources \cup {NoSource},
         window' = window, game' = game, faults' \in 0..MaxFaults,
         config' \in [cut: BOOLEAN, source: Sources \cup {NoSource}]
  PROVE  CaptureSafe'
<1>1. capture' \in CaptureRecord /\ audio' \in AudioRecord /\ frames' \in FrameRecord
  BY CaptureAssumption DEF Gone, NoThreads, CaptureRecord, AudioRecord, FrameRecord
<1>2. CaptureTypeOK'
  BY <1>1 DEF WorkerTypeOK, CaptureTypeOK, AudioTypeOK, Gone, NoThreads, CaptureRecord,
              AudioRecord, FrameRecord
<1>3. WorkerTypeOK'
  BY <1>2 DEF WorkerTypeOK, Gone
<1>4. InterruptionNoted' /\ FramesOfDevice' /\ Renewing'
  BY DEF Gone, NoThreads, InterruptionNoted, FramesOfDevice, Renewing
<1> QED
  BY <1>3, <1>4 DEF CaptureSafe

\* No step of the capture or of the encoder thread leaves an interruption unnoticed or a
\* frame of the old device in the queue.
LEMMA CaptureStaysSafe ==
  ASSUME CaptureSafe, Capturing \/ Encoding \/ EncodingFails \/ Trouble \/ Frame
  PROVE  CaptureTypeOK' /\ InterruptionNoted' /\ FramesOfDevice' /\ Renewing'
<1> USE DEF CaptureSafe, InterruptionNoted, FramesOfDevice, Renewing
<1>1. CaptureTypeOK'
  BY MonitorTypes, AudioTypes, EncoderTypes
     DEF WorkerTypeOK, Capturing, Encoding, EncodingFails, Trouble
<1>2. CASE Look \/ StartBackend \/ Connected \/ StartFails
  BY <1>1, <1>2 DEF Look, StartBackend, Connected, StartFails, WorkerTypeOK, CaptureTypeOK
<1>3. CASE BackendFails \/ WindowChanges \/ AudioDeviceLost
  BY <1>1, <1>3 DEF BackendFails, WindowChanges, AudioDeviceLost, WorkerTypeOK, CaptureTypeOK
<1>4. CASE Frame
  BY <1>1, <1>4 DEF Frame, PushDropOldest, WorkerTypeOK, CaptureTypeOK
<1>5. CASE Encode \/ EncodeFails
  BY <1>1, <1>5 DEF Encode, EncodeFails, WorkerTypeOK, CaptureTypeOK
<1>6. CASE AfterFrame \/ AfterFrameFails
  BY <1>1, <1>6 DEF AfterFrame, AfterFrameFails
<1>7. CASE Halt
  BY <1>1, <1>7 DEF Halt, StopCapture, WorkerTypeOK, CaptureTypeOK
<1>8. CASE Renew
  BY <1>1, <1>8, CaptureAssumption DEF Renew, NewDevice, WorkerTypeOK, CaptureTypeOK
<1>9. CASE RenewFails
  BY <1>1, <1>9 DEF RenewFails
<1> QED
  BY <1>2, <1>3, <1>4, <1>5, <1>6, <1>7, <1>8, <1>9
     DEF Capturing, Encoding, EncodingFails, Trouble

\* The first states.
LEMMA InitIsSafe == WorkerInit => CaptureSafe
<1> SUFFICES ASSUME WorkerInit PROVE CaptureSafe
  OBVIOUS
<1>1. capture \in CaptureRecord /\ audio \in AudioRecord /\ frames \in FrameRecord
  BY CaptureAssumption
     DEF WorkerInit, CaptureInit, AudioInit, CaptureRecord, AudioRecord, FrameRecord
<1>2. faults \in 0..MaxFaults /\ setting \in Sources \cup {NoSource}
  BY CaptureAssumption DEF WorkerInit, CaptureInit, AudioInit
<1>3. CaptureTypeOK
  BY <1>1, <1>2
     DEF WorkerInit, CaptureInit, CaptureTypeOK, AudioTypeOK, CaptureRecord, AudioRecord,
         FrameRecord
<1>4. WorkerTypeOK
  BY <1>2, <1>3 DEF WorkerInit, WorkerTypeOK
<1> QED
  BY <1>4
     DEF WorkerInit, CaptureInit, CaptureSafe, InterruptionNoted, FramesOfDevice, Renewing

\* Every step keeps the invariant.
LEMMA StepIsSafe == CaptureSafe /\ [WorkerNext]_vars => CaptureSafe'
<1> SUFFICES ASSUME CaptureSafe, [WorkerNext]_vars PROVE CaptureSafe'
  OBVIOUS
<1>0. WorkerTypeOK /\ CaptureTypeOK
  BY DEF CaptureSafe, WorkerTypeOK
<1>1. ASSUME UNCHANGED captureVars, WorkerTypeOK' PROVE CaptureSafe'
  BY <1>1 DEF CaptureSafe, captureVars, InterruptionNoted, FramesOfDevice, Renewing
<1>2. ASSUME UNCHANGED lifeVars, CaptureTypeOK' PROVE WorkerTypeOK'
  BY <1>0, <1>2 DEF WorkerTypeOK, lifeVars
<1>3. CASE \/ Launch \/ Watch \/ CutPipe \/ Wake \/ Join \/ Serving \/ Request \/ GameEnds
  BY <1>0, <1>1, <1>3, LifeTypes DEF Serving
<1>4. CASE CaptureStep \/ FrameStep \/ EncoderStep \/ TroubleStep
  BY <1>2, <1>4, CaptureStaysSafe
     DEF CaptureStep, FrameStep, EncoderStep, TroubleStep, EncoderMay, CaptureSafe
<1>5. CASE Begin
  <2>1. setting' \in Sources \cup {NoSource} /\ faults' \in 0..MaxFaults
    <3>1. setting' \in {config.source, setting}
      BY <1>5 DEF Begin, LoadConfig
    <3>2. config.source \in Sources \cup {NoSource} /\ setting \in Sources \cup {NoSource}
      BY <1>0 DEF WorkerTypeOK, CaptureTypeOK, AudioTypeOK
    <3>3. faults' \in 0..MaxFaults
      BY <1>0, <1>5 DEF Begin, WorkerTypeOK, CaptureTypeOK
    <3> QED
      BY <3>1, <3>2, <3>3
  <2>2. CASE Gone
    BY <1>0, <1>5, <2>1, <2>2, GoneIsSafe DEF Begin, LoadConfig, WorkerTypeOK
  <2>3. CASE ~Gone
    <3>1. CaptureTypeOK'
      BY <1>0, <1>5, <2>1, <2>3 DEF Begin, LoadConfig, CaptureTypeOK, AudioTypeOK
    <3>2. WorkerTypeOK'
      BY <1>0, <1>5, <2>3, <3>1 DEF Begin, LoadConfig, WorkerTypeOK
    <3> QED
      BY <1>5, <2>3, <3>2 DEF Begin, LoadConfig, CaptureSafe, InterruptionNoted, FramesOfDevice, Renewing
  <2> QED
    BY <2>2, <2>3
<1>6. CASE Crash
  <2>1. config' \in [cut: BOOLEAN, source: Sources \cup {NoSource}]
    BY <1>0, <1>6 DEF Crash, WorkerTypeOK
  <2>2. faults' \in 0..MaxFaults
    BY <1>0, <1>6, CaptureAssumption DEF Crash, Fault, CaptureTypeOK
  <2> QED
    BY <1>0, <1>6, <2>1, <2>2, GoneIsSafe DEF Crash, CaptureTypeOK, AudioTypeOK
<1>7. CASE Clash \/ End
  BY <1>0, <1>7, GoneIsSafe DEF Clash, End, WorkerTypeOK, CaptureTypeOK, AudioTypeOK
<1>8. CASE EndCapture
  <2>1. capture' \in CaptureRecord
    BY <1>0, <1>8 DEF EndCapture, StopCapture, CaptureTypeOK, CaptureRecord
  <2>2. CaptureTypeOK'
    BY <1>0, <1>8, <2>1
       DEF CaptureTypeOK, AudioTypeOK, EndCapture, StopCapture, audioVars, CaptureRecord
  <2>3. WorkerTypeOK'
    BY <1>0, <1>8, <2>2 DEF WorkerTypeOK, EndCapture
  <2> QED
    BY <1>8, <2>3
       DEF EndCapture, StopCapture, CaptureSafe, InterruptionNoted, FramesOfDevice, Renewing
<1>9. CASE CreateFails \/ SaveFails
  <2>1. faults' \in 0..MaxFaults
    BY <1>0, <1>9, CaptureAssumption DEF CreateFails, SaveFails, Fault, CaptureTypeOK
  <2>2. CaptureTypeOK'
    BY <1>0, <1>9, <2>1 DEF CreateFails, SaveFails, CaptureTypeOK, AudioTypeOK, audioVars
  <2>3. WorkerTypeOK'
    BY <1>0, <1>9, <2>2 DEF WorkerTypeOK, CreateFails, SaveFails
  <2> QED
    BY <1>9, <2>3
       DEF CreateFails, SaveFails, CaptureSafe, InterruptionNoted, FramesOfDevice, Renewing
<1>10. CASE Save
  <2>1. CaptureTypeOK'
    BY <1>0, <1>10 DEF Save, ChooseSource, CaptureTypeOK, AudioTypeOK
  <2>2. WorkerTypeOK'
    BY <1>0, <1>10, <2>1 DEF WorkerTypeOK, Save
  <2> QED
    BY <1>10, <2>2 DEF Save, CaptureSafe, InterruptionNoted, FramesOfDevice, Renewing
<1>11. CASE UNCHANGED vars
  BY <1>0, <1>1, <1>2, <1>11
     DEF vars, captureVars, audioVars, lifeVars, CaptureTypeOK, AudioTypeOK
<1> QED
  BY <1>3, <1>4, <1>5, <1>6, <1>7, <1>8, <1>9, <1>10, <1>11 DEF WorkerNext, Closing

-----------------------------------------------------------------------------
(* The theorems *)

\* The inductive invariant of the worker: its state is well formed, and while the pipeline
\* is renewed nothing feeds the queue (Application.cpp:66-74).
THEOREM CaptureSafeInvariant == WorkerSpec => []CaptureSafe
BY InitIsSafe, StepIsSafe, PTL DEF WorkerSpec

\* A backend that has ended is going to be noticed by the monitor thread, in whatever order
\* its error, the start of the capture and a recovery come (CaptureManager.cpp:38-60).
THEOREM DeadBackendNoticed == WorkerSpec => []InterruptionNoted
<1>1. CaptureSafe => InterruptionNoted
  BY DEF CaptureSafe
<1> QED
  BY <1>1, CaptureSafeInvariant, PTL

\* The encoder never meets a frame of the device that a recovery replaced, however long the
\* queue is and whatever the monitor thread does meanwhile (Application.cpp:67-72).
THEOREM NoFrameOfOldDevice == WorkerSpec => []FramesOfDevice
<1>1. CaptureSafe => FramesOfDevice
  BY DEF CaptureSafe
<1> QED
  BY <1>1, CaptureSafeInvariant, PTL
=============================================================================
