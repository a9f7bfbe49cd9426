------------------------------ MODULE Recorder ------------------------------
(***************************************************************************)
(* The recording path of the worker: the encoder thread                    *)
(* (Application::encoder_loop and recover_pipeline, MediaFoundationEncoder),*)
(* the RecordingSession it feeds with its Mp4Muxer, and the IPC thread that *)
(* serves record_start and record_stop.  An action is a critical section   *)
(* of RecordingSession::mutex_ or of stream_mutex_, or what a thread does  *)
(* between two of them; encode() and stop() of the encoder hold its own    *)
(* mutex over several actions.  Audio and presentation times are left out. *)
(***************************************************************************)
EXTENDS Integers, Sequences

CONSTANTS
  Requests,    \* the record_start commands a run may see
  Sizes,       \* the sizes the frames of the game may have
  Latency,     \* how many frames the encoder holds back
  MaxFailures, \* consecutive failures that make the pipeline recover: 3 in the source
  MaxFaults,   \* bound: encoder and disk errors in a run
  None         \* no request

ASSUME RecorderAssumption ==
  /\ Sizes \subseteq Nat \ {0}
  /\ Latency \in Nat /\ MaxFailures \in Nat \ {0} /\ MaxFaults \in Nat
  /\ None \notin Requests

VARIABLES
  session, \* RecordingSession: state_, whether muxer_ and path_ are set, the pending
           \* request and size
  file,    \* the last .mp4 file made, the one that muxer_ and path_ are of
  encoder, \* the size it is configured for (0: none), the frames it holds, force_keyframe_
  stream,  \* stream_.width and height; 0 when there is none
  video,   \* the encoder thread
  ipc,     \* the IPC thread
  capture, \* whether it runs, or is halted, with or without frames left in frames_
  faults,  \* history: errors so far
  owner    \* history: the request that set the session waiting, with calm (see Calm)

vars == <<session, file, encoder, stream, video, ipc, capture, faults, owner>>

-----------------------------------------------------------------------------
Size == Sizes \cup {0}
Sample == [size: Sizes, key: BOOLEAN]
\* The size declared and whether another one was written.  History: early, the file was
\* begun while record_start was between its two steps; reported, a record_stop has
\* reported its path.
File == [request: Requests \cup {None}, owner: Requests \cup {None}, size: Size,
         mixed: BOOLEAN, status: {"none", "open", "final", "broken"},
         calm: BOOLEAN, early: BOOLEAN, reported: BOOLEAN]
Session == [state: {"stopped", "waiting", "recording", "error"},
            muxer: BOOLEAN, path: BOOLEAN, request: Requests \cup {None}, size: Size]
Encoder == [size: Size, held: Seq(Sample), force: BOOLEAN]
Steps == {"idle", "stop", "drain", "encode", "emit", "request",
          "failed", "device", "republish"}
Thread == [pc: Steps, size: Size, recovering: BOOLEAN, failures: 0..MaxFailures]
Capturing == {"runs", "halted", "left"}
Command == [pc: {"idle", "ready", "start", "lock", "key"},
            request: Requests \cup {None}, size: Size]

RecTypeOK ==
  /\ session \in Session
  /\ file \in File
  /\ encoder \in Encoder /\ Len(encoder.held) <= Latency + 1 + faults
  /\ stream \in Size
  /\ video \in Thread
  /\ ipc \in Command
  /\ capture \in Capturing
  /\ faults \in 0..MaxFaults
  /\ owner \in [request: Requests \cup {None}, calm: BOOLEAN]

NoCommand == [pc |-> "idle", request |-> None, size |-> 0]

RecInit ==
  /\ session = [state |-> "stopped", muxer |-> FALSE, path |-> FALSE,
                request |-> None, size |-> 0]
  /\ file = [request |-> None, owner |-> None, size |-> 0, mixed |-> FALSE,
             status |-> "none", calm |-> FALSE, early |-> FALSE, reported |-> FALSE]
  /\ encoder = [size |-> 0, held |-> <<>>, force |-> FALSE]
  /\ stream = 0
  /\ video = [pc |-> "idle", size |-> 0, recovering |-> FALSE, failures |-> 0]
  /\ ipc = NoCommand
  /\ capture = "runs"
  /\ faults = 0
  /\ owner = [request |-> None, calm |-> FALSE]

Fault == faults < MaxFaults /\ faults' = faults + 1

-----------------------------------------------------------------------------
(* RecordingSession: on_sample and stop, each in one critical section *)

Waiting == session.state = "waiting"
\* The encoder's mutex is taken.
Encoding == video.pc \in {"drain", "emit"}

NewFile(status, sample) ==
  [request |-> session.request, owner |-> owner.request, size |-> session.size,
   mixed |-> sample.size # session.size, status |-> status,
   calm |-> owner.calm, early |-> ipc.pc = "lock", reported |-> FALSE]

\* Opens the file at the first keyframe; path_ is set even when the muxer cannot open it.
OpenFile(sample) ==
  /\ Waiting /\ sample.key
  /\ \/ /\ file' = NewFile("open", sample)
        /\ session' = [session EXCEPT !.state = "recording", !.muxer = TRUE, !.path = TRUE]
        /\ UNCHANGED faults
     \/ /\ Fault
        /\ file' = NewFile("broken", sample)
        /\ session' = [session EXCEPT !.state = "error", !.path = TRUE]

WriteSample(sample) ==
  /\ session.state = "recording"
  /\ \/ /\ file' = [file EXCEPT !.mixed = @ \/ sample.size # file.size]
        /\ UNCHANGED <<session, faults>>
     \/ /\ Fault
        /\ file' = [file EXCEPT !.status = "broken"]
        /\ session' = [session EXCEPT !.state = "error", !.muxer = FALSE]

IgnoreSample(sample) ==
  /\ session.state \in {"stopped", "error"} \/ (Waiting /\ ~sample.key)
  /\ UNCHANGED <<session, file, faults>>

OnSample(sample) == OpenFile(sample) \/ WriteSample(sample) \/ IgnoreSample(sample)

\* The muxer still has a file to finalize.
Unfinished == session.muxer /\ file.status = "open"

\* Variant: the muxer goes without finalizing.
StopUnfinalized(path, told) ==
  /\ session.state # "stopped"
  /\ path = session.path
  /\ session' = [session EXCEPT !.state = "stopped", !.muxer = FALSE]
  /\ file' = [file EXCEPT !.reported = @ \/ told]
  /\ UNCHANGED faults

\* Finalizes the file, if there is one, and returns path_.  When that fails the muxer
\* stays, so that the next stop finds nothing to finalize and returns the path.  told
\* says that the path goes to a client.
StopSession(path, told) ==
  /\ session.state # "stopped"
  /\ \/ /\ path = session.path
        /\ session' = [session EXCEPT !.state = "stopped", !.muxer = FALSE]
        /\ file' = [file EXCEPT !.status = IF Unfinished THEN "final" ELSE @,
                                !.reported = @ \/ told]
        /\ UNCHANGED faults
     \/ /\ ~path
        /\ Unfinished /\ Fault
        /\ session' = [session EXCEPT !.state = "error"]
        /\ file' = [file EXCEPT !.status = "broken"]

-----------------------------------------------------------------------------
(* The encoder thread *)

Goto(pc) == video' = [video EXCEPT !.pc = pc]
\* The end of an iteration, after so many consecutive failures.
NextFrame(failures) ==
  video' = [pc |-> "idle", size |-> 0, recovering |-> FALSE, failures |-> failures]

\* A frame: a size other than the published one restarts everything.
PopFrame(size) ==
  /\ video.pc = "idle" /\ capture # "halted"
  /\ video' = [video EXCEPT !.size = size,
                            !.pc = IF stream \in {0, size} THEN "encode" ELSE "stop"]
  /\ capture' = capture \/ (capture = "left" /\ capture' = "halted")
  /\ UNCHANGED <<session, file, encoder, stream, ipc, faults, owner>>

\* Variant: only a recording that has begun is stopped.
StopRecordingBegun ==
  /\ video.pc = "stop"
  /\ \/ session.state = "recording" /\ \E path \in BOOLEAN : StopSession(path, FALSE)
     \/ session.state # "recording" /\ UNCHANGED <<session, file, faults>>
  /\ Goto(IF video.recovering THEN "device" ELSE "drain")
  /\ UNCHANGED <<encoder, stream, ipc, capture, owner>>

\* recording_->stop(): the path is dropped.  After a change of size the encoder is
\* stopped next, in recovery it has been.
StopRecording ==
  /\ video.pc = "stop"
  /\ \/ \E path \in BOOLEAN : StopSession(path, FALSE)
     \/ session.state = "stopped" /\ UNCHANGED <<session, file, faults>>
  /\ Goto(IF video.recovering THEN "device" ELSE "drain")
  /\ UNCHANGED <<encoder, stream, ipc, capture, owner>>

\* encoder_->stop() emits what it holds, then tears the encoder down.
DrainSample ==
  /\ video.pc = "drain" /\ encoder.held # <<>>
  /\ OnSample(Head(encoder.held))
  /\ encoder' = [encoder EXCEPT !.held = Tail(@)]
  /\ UNCHANGED <<stream, video, ipc, capture, owner>>

Drained ==
  /\ video.pc = "drain" /\ encoder.held = <<>>
  /\ encoder' = [encoder EXCEPT !.size = 0]
  /\ Goto(IF video.recovering THEN "stop" ELSE "encode")
  /\ UNCHANGED <<session, file, stream, ipc, capture, faults, owner>>

\* encode() takes its mutex, configures the encoder when it must (the first frame is then
\* a keyframe) and gives it the frame; a keyframe comes when one is forced, or is due.
Encode ==
  /\ video.pc = "encode"
  /\ LET configure == encoder.size # video.size
         held == IF configure THEN <<>> ELSE encoder.held
     IN \E key \in BOOLEAN :
          /\ configure \/ encoder.force => key
          /\ encoder' = [size |-> video.size, force |-> FALSE,
                         held |-> Append(held, [size |-> video.size, key |-> key])]
  /\ Goto("emit")
  /\ UNCHANGED <<session, file, stream, ipc, capture, faults, owner>>

\* encode() throws, whatever it has done; a hardware encoder is then torn down, with the
\* frames it holds.
EncodeFails ==
  /\ video.pc \in {"encode", "emit"} /\ Fault
  /\ \E force \in {encoder.force, FALSE} :
       \/ encoder' = [size |-> 0, held |-> <<>>, force |-> force]
       \/ encoder' = [encoder EXCEPT !.force = force]
  /\ Goto("failed")
  /\ UNCHANGED <<session, file, stream, ipc, capture, owner>>

\* So does encoder_->stop(); in recovery this ends the recovery, before frames_ is cleared.
DrainFails ==
  /\ video.pc = "drain" /\ Fault
  /\ \/ ~video.recovering /\ Goto("failed") /\ UNCHANGED capture
     \/ video.recovering /\ NextFrame(MaxFailures) /\ capture' \in {"halted", "left"}
  /\ UNCHANGED <<session, file, encoder, stream, ipc, owner>>

EmitSample ==
  /\ video.pc = "emit" /\ encoder.held # <<>>
  /\ OnSample(Head(encoder.held))
  /\ encoder' = [encoder EXCEPT !.held = Tail(@)]
  /\ UNCHANGED <<stream, video, ipc, capture, owner>>

\* The encoder may keep Latency frames; encode() returns and the size is published.
Publish ==
  /\ video.pc = "emit" /\ Len(encoder.held) <= Latency
  /\ stream' = encoder.size
  /\ Goto("request")
  /\ UNCHANGED <<session, file, encoder, ipc, capture, faults, owner>>

\* Variant: the keyframe is requested by record_start alone.
EndFrameSilently ==
  /\ video.pc = "request"
  /\ NextFrame(0)
  /\ UNCHANGED <<session, file, encoder, stream, ipc, capture, faults, owner>>

\* A session that waits asks for a keyframe with every frame.
EndFrame ==
  /\ video.pc = "request"
  /\ encoder' = [encoder EXCEPT !.force = @ \/ Waiting]
  /\ NextFrame(0)
  /\ UNCHANGED <<session, file, stream, ipc, capture, faults, owner>>

\* The failure is counted; at MaxFailures recover_pipeline stops the capture first.
CountFailure ==
  /\ video.pc = "failed"
  /\ \/ /\ video.failures + 1 < MaxFailures
        /\ NextFrame(video.failures + 1)
        /\ UNCHANGED capture
     \/ /\ video.failures + 1 >= MaxFailures
        /\ video' = [video EXCEPT !.pc = "drain", !.failures = MaxFailures,
                                  !.recovering = TRUE]
        /\ capture' = "halted"
  /\ UNCHANGED <<session, file, encoder, stream, ipc, faults, owner>>

\* d3d_.recreate(): when it throws, nothing starts the capture again.
RecreateDevice ==
  /\ video.pc = "device"
  /\ \/ capture' = "runs" /\ Goto("republish")
     \/ NextFrame(MaxFailures) /\ UNCHANGED capture
  /\ UNCHANGED <<session, file, encoder, stream, ipc, faults, owner>>

Republish ==
  /\ video.pc = "republish"
  /\ stream' = 0
  /\ NextFrame(0)
  /\ UNCHANGED <<session, file, encoder, ipc, capture, faults, owner>>

Video ==
  \/ StopRecording \/ DrainSample \/ Drained \/ Encode \/ EmitSample
  \/ Publish \/ EndFrame \/ CountFailure \/ RecreateDevice \/ Republish

-----------------------------------------------------------------------------
(* The IPC thread *)

\* A command is new when nothing is left of an older one of its name.
New(r) == r \notin {ipc.request, owner.request, session.request, file.owner, file.request}

\* record_start copies the description first.
ReadStream(r) ==
  /\ ipc.pc = "idle" /\ New(r)
  /\ ipc' = [pc |-> "ready", request |-> r, size |-> stream]
  /\ UNCHANGED <<session, file, encoder, stream, video, capture, faults, owner>>

\* capture_ready(): the last frame may also be too old.
CheckReady ==
  /\ ipc.pc = "ready"
  /\ \/ capture = "runs" /\ stream # 0 /\ ipc' = [ipc EXCEPT !.pc = "start"]
     \/ ipc' = NoCommand
  /\ UNCHANGED <<session, file, encoder, stream, video, capture, faults, owner>>

\* The size that was copied is that of all frames on their way, and no change of size or
\* recovery is past the point where it stops the recording.
Calm ==
  /\ stream # 0 /\ stream = ipc.size
  /\ video.pc \notin {"drain", "device", "republish"}
  /\ video.pc \in {"encode", "emit"} => video.size = stream
  /\ \A i \in DOMAIN encoder.held : encoder.held[i].size = stream

\* Variant: the answer of compare_exchange_strong is ignored.
StartUnchecked ==
  /\ ipc.pc = "start"
  /\ IF session.state = "stopped"
     THEN /\ session' = [session EXCEPT !.state = "waiting"]
          /\ owner' = [request |-> ipc.request, calm |-> Calm]
     ELSE UNCHANGED <<session, owner>>
  /\ ipc' = [ipc EXCEPT !.pc = "lock"]
  /\ UNCHANGED <<file, encoder, stream, video, capture, faults>>

\* RecordingSession::start sets state_ before it takes the mutex.
Start ==
  /\ ipc.pc = "start"
  /\ \/ /\ session.state = "stopped"
        /\ session' = [session EXCEPT !.state = "waiting"]
        /\ owner' = [request |-> ipc.request, calm |-> Calm]
        /\ ipc' = [ipc EXCEPT !.pc = "lock"]
     \/ /\ session.state # "stopped"
        /\ ipc' = NoCommand
        /\ UNCHANGED <<session, owner>>
  /\ UNCHANGED <<file, encoder, stream, video, capture, faults>>

StartLocked ==
  /\ ipc.pc = "lock"
  /\ session' = [session EXCEPT !.request = ipc.request, !.size = ipc.size, !.path = FALSE]
  /\ ipc' = [ipc EXCEPT !.pc = "key"]
  /\ UNCHANGED <<file, encoder, stream, video, capture, faults, owner>>

RequestKeyframe ==
  /\ ipc.pc = "key" /\ ~Encoding
  /\ encoder' = [encoder EXCEPT !.force = TRUE]
  /\ ipc' = NoCommand
  /\ UNCHANGED <<session, file, stream, video, capture, faults, owner>>

\* A path that is not empty is reported, and may be queued for upload.
RecordStop ==
  /\ ipc.pc = "idle"
  /\ \E path \in BOOLEAN : StopSession(path, path)
  /\ UNCHANGED <<encoder, stream, video, ipc, capture, owner>>

RecNext ==
  \/ \E size \in Sizes : PopFrame(size)
  \/ Video \/ EncodeFails \/ DrainFails
  \/ \E r \in Requests : ReadStream(r)
  \/ CheckReady \/ Start \/ StartLocked \/ RequestKeyframe
  \/ RecordStop

\* The encoder thread runs, frames come as long as the capture does, and a command that
\* was received is served.
RecFairness ==
  /\ WF_vars(\E size \in Sizes : PopFrame(size)) /\ WF_vars(Video)
  /\ WF_vars(CheckReady \/ Start \/ StartLocked \/ RequestKeyframe)

RecSpec == RecInit /\ [][RecNext]_vars /\ RecFairness

-----------------------------------------------------------------------------
(* Properties *)

\* The path that record_stop reports, and that an upload reads, is of a file that is
\* closed, and a file is open exactly while the session records
\* (RecordingSession.cpp:15-29, Application.cpp:94).
ReportedIsClosed ==
  /\ file.reported => file.status # "open"
  /\ (file.status = "open") = (session.state = "recording")

\* A record_stop that ends a recording reports its file, unless the file was begun while
\* record_start was between its two steps: the second one then clears its path
\* (RecordingSession.cpp:9-10, 24-29).
RecordingReported ==
  [][/\ file.status = "open" /\ file'.status = "final"
     /\ video' = video /\ ~file.early
     => file'.reported]_vars

\* A file carries the metadata of the command that asked for it, whatever other commands
\* came, with the same exception (RecordingSession.cpp:7-16).
OwnRequest == file.status # "none" /\ ~file.early => file.request = file.owner

\* A file holds frames of its declared size only, however the window changes, unless its
\* command came while a change of size or a recovery was under way
\* (Application.cpp:40-50, 66-73).
SteadyFiles == file.status # "none" /\ file.calm /\ ~file.early => ~file.mixed

\* A session does not wait for ever: the keyframe it waits for comes, or the recording is
\* stopped, or the capture is (Application.cpp:51, 91).
WaitingEnds == Waiting ~> (~Waiting \/ capture # "runs")
=============================================================================
