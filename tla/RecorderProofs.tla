--------------------------- MODULE RecorderProofs ---------------------------
(***************************************************************************)
(* Proofs about the recording path: the encoder thread, the recording      *)
(* session and the IPC thread, for any frame sizes, latency, number of     *)
(* commands and number of failures.                                        *)
(***************************************************************************)
EXTENDS Recorder, TLAPS

\* The encoder thread: a frame in work has a size, the encoder is configured for it once
\* the frame is in, and no more frames are held than encode() and its failures leave.
PipelineInv ==
  /\ video.pc # "idle" => video.size # 0
  /\ video.pc = "emit" => encoder.size = video.size
  /\ Len(encoder.held) <= Latency + faults + (IF video.pc = "emit" THEN 1 ELSE 0)

\* The file of a session that records: its muxer is open, and once record_start is done
\* with the session the path and the size are those of the file.
RecordingInv ==
  session.state = "recording" =>
    /\ session.muxer
    /\ ~file.early => /\ ipc.pc # "lock" /\ session.path
                      /\ file.size = session.size /\ file.calm = owner.calm

\* The session has the request that set it waiting, from the second step of record_start on.
CommandInv ==
  IF ipc.pc = "lock" THEN ipc.request = owner.request ELSE session.request = owner.request

\* All frames on their way have this size, and the next one of another size, or a
\* recovery, stops the recording before it changes anything.
SteadyAt(size) ==
  /\ size # 0 /\ stream = size
  /\ video.pc \notin {"device", "republish"}
  /\ video.pc = "drain" => video.recovering
  /\ video.pc \in {"encode", "emit"} => video.size = size
  /\ \A i \in DOMAIN encoder.held : encoder.held[i].size = size

\* A session that was set waiting in a calm stays in it as long as it waits or records.
CalmInv ==
  owner.calm /\ session.state \in {"waiting", "recording"} =>
    SteadyAt(IF ipc.pc = "lock" THEN ipc.size ELSE session.size)

-----------------------------------------------------------------------------
(* What a step does to the session, its file and record_start *)

\* What the critical sections of the session do to it is well typed.
LEMMA OnSampleType ==
  ASSUME RecTypeOK, NEW sample \in Sample, OnSample(sample)
  PROVE  session' \in Session /\ file' \in File /\ faults' \in faults..MaxFaults
<1> USE RecorderAssumption
<1>1. session \in Session /\ file \in File /\ faults \in 0..MaxFaults
  BY DEF RecTypeOK
<1>2. CASE OpenFile(sample)
  <2>1. session' \in Session
    BY <1>1, <1>2 DEF OpenFile, Session
  <2>2. ASSUME NEW status \in {"open", "broken"} PROVE NewFile(status, sample) \in File
    <3>1. owner.request \in Requests \cup {None} /\ owner.calm \in BOOLEAN
      BY DEF RecTypeOK
    <3> QED
      BY <1>1, <3>1 DEF NewFile, File, Session
  <2>3. faults' \in faults..MaxFaults
    BY <1>1, <1>2 DEF OpenFile, Fault
  <2> QED
    BY <1>2, <2>1, <2>2, <2>3 DEF OpenFile
<1>3. CASE WriteSample(sample)
  <2>1. session' \in Session
    BY <1>1, <1>3 DEF WriteSample, Session
  <2>3. faults' \in faults..MaxFaults
    BY <1>1, <1>3 DEF WriteSample, Fault
  <2>2. file' \in File
    BY <1>1, <1>3 DEF WriteSample, File
  <2> QED
    BY <2>1, <2>2, <2>3
<1>4. CASE IgnoreSample(sample)
  BY <1>1, <1>4 DEF IgnoreSample
<1> QED
  BY <1>2, <1>3, <1>4 DEF OnSample

LEMMA StopSessionType ==
  ASSUME RecTypeOK, NEW path \in BOOLEAN, NEW told \in BOOLEAN,
         StopSession(path, told)
  PROVE  session' \in Session /\ file' \in File /\ faults' \in faults..MaxFaults
<1>1. session \in Session /\ file \in File /\ faults \in 0..MaxFaults /\ MaxFaults \in Nat
  BY RecorderAssumption DEF RecTypeOK
<1>2. session' \in Session
  BY <1>1 DEF StopSession, Session
<1>3. file' \in File
  BY <1>1 DEF StopSession, File
<1>4. faults' \in faults..MaxFaults
  BY <1>1 DEF StopSession, Fault
<1> QED
  BY <1>2, <1>3, <1>4

\* What the encoder holds are samples.
LEMMA HeldSample ==
  ASSUME RecTypeOK, encoder.held # <<>>
  PROVE  /\ Head(encoder.held) \in Sample
         /\ Tail(encoder.held) \in Seq(Sample)
         /\ Len(Tail(encoder.held)) = Len(encoder.held) - 1
         /\ \A i \in DOMAIN Tail(encoder.held) :
              i + 1 \in DOMAIN encoder.held /\ Tail(encoder.held)[i] = encoder.held[i + 1]
<1>1. encoder.held \in Seq(Sample)
  BY DEF RecTypeOK, Encoder
<1> QED
  BY <1>1

\* Whoever runs, the session and its file change only by a sample, by a stop, or by one of
\* the two steps of record_start.
LEMMA SessionStep ==
  ASSUME RecTypeOK, [RecNext]_vars
  PROVE  \/ UNCHANGED <<session, file, owner, ipc>>
         \/ /\ UNCHANGED <<session, file, owner>>
            /\ ipc.pc # "lock" /\ ipc'.pc # "lock"
         \/ \E sample \in Sample : OnSample(sample) /\ UNCHANGED <<owner, ipc>>
         \/ /\ \E path \in BOOLEAN : StopSession(path, FALSE)
            /\ video' # video /\ UNCHANGED <<owner, ipc>>
         \/ /\ \E path \in BOOLEAN : StopSession(path, path)
            /\ UNCHANGED <<owner, ipc>>
         \/ Start
         \/ StartLocked
<1>1. CASE Video
  <2>1. CASE StopRecording
    <3>1. video' # video
      BY <2>1 DEF StopRecording, Goto, RecTypeOK, Thread, Steps
    <3> QED
      BY <2>1, <3>1 DEF StopRecording
  <2>2. CASE DrainSample \/ EmitSample
    BY <2>2, HeldSample DEF DrainSample, EmitSample
  <2>3. CASE \/ Drained \/ Encode \/ Publish \/ EndFrame
             \/ CountFailure \/ RecreateDevice \/ Republish
    BY <2>3 DEF Drained, Encode, Publish, EndFrame, CountFailure, RecreateDevice, Republish
  <2> QED
    BY <1>1, <2>1, <2>2, <2>3 DEF Video
<1>2. CASE (\E size \in Sizes : PopFrame(size)) \/ EncodeFails \/ DrainFails
  BY <1>2 DEF PopFrame, EncodeFails, DrainFails
<1>3. CASE (\E r \in Requests : ReadStream(r)) \/ CheckReady \/ RequestKeyframe
  <2>1. ipc.pc # "lock" /\ UNCHANGED <<session, file, owner>>
    BY <1>3 DEF ReadStream, CheckReady, RequestKeyframe
  <2>2. ipc \in Command
    BY DEF RecTypeOK
  <2>3. ipc'.pc # "lock"
    BY <1>3, <2>2 DEF ReadStream, CheckReady, RequestKeyframe, NoCommand, Command
  <2> QED
    BY <2>1, <2>3
<1>4. CASE RecordStop
  BY <1>4 DEF RecordStop
<1>5. CASE UNCHANGED vars
  BY <1>5 DEF vars
<1> QED
  BY <1>1, <1>2, <1>3, <1>4, <1>5 DEF RecNext

-----------------------------------------------------------------------------
(* Types *)

\* Every reachable state of the recording path is well typed; in particular the encoder
\* never holds more frames than its latency, the one being encoded and one for each
\* failure so far (MediaFoundationEncoder.cpp:67-94).
THEOREM RecorderTypeCorrect == RecSpec => [](RecTypeOK /\ PipelineInv)
<1>1. RecInit => RecTypeOK /\ PipelineInv
  BY RecorderAssumption
     DEF RecInit, RecTypeOK, PipelineInv, Size, Session, File, Encoder, Thread, Steps,
         Capturing, Command, NoCommand
<1>2. RecTypeOK /\ PipelineInv /\ [RecNext]_vars => RecTypeOK' /\ PipelineInv'
  <2> SUFFICES ASSUME RecTypeOK, PipelineInv, [RecNext]_vars
               PROVE  RecTypeOK' /\ PipelineInv'
    OBVIOUS
  <2>0. /\ Sizes \subseteq Nat \ {0} /\ Latency \in Nat /\ MaxFailures \in Nat \ {0}
        /\ MaxFaults \in Nat /\ 0 \in Size
        /\ faults \in 0..MaxFaults /\ Len(encoder.held) \in Nat
        /\ encoder \in Encoder /\ encoder.held \in Seq(Sample)
        /\ video \in Thread /\ ipc \in Command /\ stream \in Size
    BY RecorderAssumption DEF RecTypeOK, Size, Encoder
  <2>1. ASSUME NEW size \in Sizes, PopFrame(size) PROVE RecTypeOK' /\ PipelineInv'
    <3>1. video' \in Thread /\ video'.size # 0 /\ video'.pc # "emit"
      BY <2>0, <2>1 DEF PopFrame, Thread, Steps, Size
    <3>2. capture' \in Capturing
      BY <2>1 DEF PopFrame, RecTypeOK, Capturing
    <3> QED
      BY <2>0, <2>1, <3>1, <3>2 DEF PopFrame, RecTypeOK, PipelineInv
  <2>2. CASE StopRecording
    <3>1. session' \in Session /\ file' \in File /\ faults' \in faults..MaxFaults
      <4>1. CASE UNCHANGED <<session, file, faults>>
        BY <2>0, <4>1 DEF RecTypeOK
      <4>2. CASE \E path \in BOOLEAN : StopSession(path, FALSE)
        BY <4>2, StopSessionType
      <4> QED
        BY <2>2, <4>1, <4>2 DEF StopRecording
    <3>2. video' \in Thread /\ video'.size = video.size /\ video'.pc # "emit"
      BY <2>0, <2>2 DEF StopRecording, Goto, Thread, Steps
    <3>3. UNCHANGED <<encoder, stream, ipc, capture, owner>> /\ video.pc = "stop"
      BY <2>2 DEF StopRecording
    <3> QED
      BY <2>0, <3>1, <3>2, <3>3 DEF RecTypeOK, PipelineInv
  <2>3. CASE DrainSample \/ EmitSample
    <3>1. /\ encoder.held # <<>> /\ OnSample(Head(encoder.held))
          /\ encoder' = [encoder EXCEPT !.held = Tail(@)]
          /\ UNCHANGED <<stream, video, ipc, capture, owner>>
      BY <2>3 DEF DrainSample, EmitSample
    <3>2. session' \in Session /\ file' \in File /\ faults' \in faults..MaxFaults
      BY <3>1, HeldSample, OnSampleType
    <3>3. /\ encoder' \in Encoder /\ encoder'.size = encoder.size
          /\ Len(encoder'.held) = Len(encoder.held) - 1
      BY <2>0, <3>1, HeldSample DEF Encoder
    <3>4. faults' \in 0..MaxFaults /\ faults <= faults'
      BY <2>0, <3>2
    <3>5. RecTypeOK'
      <4>1. Len(encoder'.held) <= Latency + 1 + faults'
        <5>1. Len(encoder.held) <= Latency + 1 + faults
          BY DEF RecTypeOK
        <5>2. /\ Latency \in Int /\ faults \in Int /\ faults' \in Int
              /\ Len(encoder.held) \in Int /\ Len(encoder'.held) = Len(encoder.held) - 1
          BY <2>0, <3>3, <3>4
        <5> QED
          BY <3>4, <5>1, <5>2
      <4> QED
        BY <3>1, <3>2, <3>3, <3>4, <4>1 DEF RecTypeOK
    <3>6. PipelineInv'
      <4>1. video' = video /\ encoder'.size = encoder.size
        BY <3>1, <3>3
      <4>2. Len(encoder'.held) <= Latency + faults' + (IF video.pc = "emit" THEN 1 ELSE 0)
        <5>1. Len(encoder.held) <= Latency + faults + (IF video.pc = "emit" THEN 1 ELSE 0)
          BY DEF PipelineInv
        <5>2. /\ Latency \in Int /\ faults \in Int /\ faults' \in Int
              /\ Len(encoder.held) \in Int /\ Len(encoder'.held) = Len(encoder.held) - 1
          BY <2>0, <3>3, <3>4
        <5> QED
          BY <3>4, <5>1, <5>2
      <4> QED
        BY <4>1, <4>2 DEF PipelineInv
    <3> QED
      BY <3>5, <3>6
  <2>4. CASE Drained
    <3>1. encoder' \in Encoder /\ encoder'.held = encoder.held
      BY <2>0, <2>4 DEF Drained, Encoder
    <3>2. video' \in Thread /\ video'.size = video.size /\ video'.pc # "emit"
      BY <2>0, <2>4 DEF Drained, Goto, Thread, Steps
    <3> QED
      BY <2>0, <2>4, <3>1, <3>2 DEF Drained, RecTypeOK, PipelineInv
  <2>5. CASE Encode
    <3> DEFINE held == IF encoder.size # video.size THEN <<>> ELSE encoder.held
    <3>1. PICK key \in BOOLEAN :
            encoder' = [size |-> video.size, force |-> FALSE,
                        held |-> Append(held, [size |-> video.size, key |-> key])]
      BY <2>5 DEF Encode
    <3>2. held \in Seq(Sample) /\ Len(held) <= Latency + faults
      BY <2>0, <2>5 DEF Encode, PipelineInv
    <3>3. [size |-> video.size, key |-> key] \in Sample
      BY <2>0, <2>5 DEF Encode, Sample, PipelineInv, Thread, Size
    <3> HIDE DEF held
    <3>4. /\ Append(held, [size |-> video.size, key |-> key]) \in Seq(Sample)
          /\ Len(Append(held, [size |-> video.size, key |-> key])) = Len(held) + 1
      BY <3>2, <3>3
    <3>5. /\ encoder' \in Encoder /\ encoder'.size = video.size
          /\ Len(encoder'.held) <= Latency + faults + 1
      BY <2>0, <3>1, <3>2, <3>4 DEF Encoder, Thread
    <3>6. video' \in Thread /\ video'.size = video.size /\ video'.pc = "emit"
      BY <2>0, <2>5 DEF Encode, Goto, Thread, Steps
    <3>7. video.pc = "encode" /\ UNCHANGED <<session, file, stream, ipc, capture, faults, owner>>
      BY <2>5 DEF Encode
    <3> QED
      BY <2>0, <3>5, <3>6, <3>7 DEF RecTypeOK, PipelineInv
  <2>6. CASE EncodeFails
    <3>1. encoder' \in Encoder /\ Len(encoder'.held) <= Len(encoder.held)
      <4>1. PICK force \in {encoder.force, FALSE} :
              \/ encoder' = [size |-> 0, held |-> <<>>, force |-> force]
              \/ encoder' = [encoder EXCEPT !.force = force]
        BY <2>6 DEF EncodeFails
      <4>2. force \in BOOLEAN
        BY <2>0 DEF Encoder
      <4>3. CASE encoder' = [size |-> 0, held |-> <<>>, force |-> force]
        BY <2>0, <4>2, <4>3 DEF Encoder
      <4>4. CASE encoder' = [encoder EXCEPT !.force = force]
        BY <2>0, <4>2, <4>4 DEF Encoder
      <4> QED
        BY <4>1, <4>3, <4>4
    <3>2. video' \in Thread /\ video'.size = video.size /\ video'.pc = "failed"
      BY <2>0, <2>6 DEF EncodeFails, Goto, Thread, Steps
    <3>3. /\ faults' = faults + 1 /\ faults' \in 0..MaxFaults /\ video.pc # "idle"
          /\ UNCHANGED <<session, file, stream, ipc, capture, owner>>
      BY <2>0, <2>6 DEF EncodeFails, Fault
    <3> QED
      BY <2>0, <3>1, <3>2, <3>3 DEF RecTypeOK, PipelineInv
  <2>7. CASE DrainFails
    <3>1. video' \in Thread /\ (video'.pc = "idle" \/ video'.size = video.size)
          /\ video'.pc # "emit"
      <4>1. CASE NextFrame(MaxFailures)
        BY <2>0, <4>1 DEF NextFrame, Thread, Steps
      <4>2. CASE Goto("failed")
        BY <2>0, <4>2 DEF Goto, Thread, Steps
      <4> QED
        BY <2>7, <4>1, <4>2 DEF DrainFails
    <3>2. /\ faults' = faults + 1 /\ faults' \in 0..MaxFaults /\ video.pc = "drain"
          /\ UNCHANGED <<session, file, encoder, stream, ipc, owner>>
      BY <2>0, <2>7 DEF DrainFails, Fault
    <3>3. capture' \in Capturing
      BY <2>7 DEF DrainFails, RecTypeOK, Capturing
    <3> QED
      BY <2>0, <3>1, <3>2, <3>3 DEF RecTypeOK, PipelineInv
  <2>8. CASE Publish
    <3>1. video' \in Thread /\ video'.size = video.size /\ video'.pc = "request"
      BY <2>0, <2>8 DEF Publish, Goto, Thread, Steps
    <3> QED
      BY <2>0, <2>8, <3>1 DEF Publish, RecTypeOK, PipelineInv, Encoder
  <2>9. CASE EndFrame
    <3>1. encoder' \in Encoder /\ encoder'.held = encoder.held
      BY <2>0, <2>9 DEF EndFrame, Encoder, Waiting
    <3>2. video' \in Thread /\ video'.pc = "idle"
      BY <2>0, <2>9 DEF EndFrame, NextFrame, Thread, Steps
    <3> QED
      BY <2>0, <2>9, <3>1, <3>2 DEF EndFrame, RecTypeOK, PipelineInv
  <2>10. CASE CountFailure
    <3>1. video' \in Thread /\ (video'.pc = "idle" \/ video'.size = video.size)
          /\ video'.pc # "emit" /\ video.pc = "failed"
      <4>1. CASE video.failures + 1 < MaxFailures /\ NextFrame(video.failures + 1)
        BY <2>0, <2>10, <4>1 DEF CountFailure, NextFrame, Thread, Steps
      <4>2. CASE video' = [video EXCEPT !.pc = "drain", !.failures = MaxFailures,
                                        !.recovering = TRUE]
        <5>1. MaxFailures \in 0..MaxFailures
          BY <2>0
        <5>2. video' \in Thread
          BY <2>0, <4>2, <5>1 DEF Thread, Steps
        <5> QED
          BY <2>0, <2>10, <4>2, <5>2 DEF CountFailure, Thread
      <4> QED
        BY <2>10, <4>1, <4>2 DEF CountFailure
    <3>2. capture' \in Capturing
      BY <2>10 DEF CountFailure, RecTypeOK, Capturing
    <3> QED
      BY <2>0, <2>10, <3>1, <3>2 DEF CountFailure, RecTypeOK, PipelineInv
  <2>11. CASE RecreateDevice
    <3>1. video' \in Thread /\ (video'.pc = "idle" \/ video'.size = video.size)
          /\ video'.pc # "emit" /\ video.pc = "device"
      <4>1. CASE NextFrame(MaxFailures)
        BY <2>0, <2>11, <4>1 DEF RecreateDevice, NextFrame, Thread, Steps
      <4>2. CASE Goto("republish")
        BY <2>0, <2>11, <4>2 DEF RecreateDevice, Goto, Thread, Steps
      <4> QED
        BY <2>11, <4>1, <4>2 DEF RecreateDevice
    <3>2. capture' \in Capturing
      BY <2>11 DEF RecreateDevice, RecTypeOK, Capturing
    <3> QED
      BY <2>0, <2>11, <3>1, <3>2 DEF RecreateDevice, RecTypeOK, PipelineInv
  <2>12. CASE Republish
    <3>1. video' \in Thread /\ video'.pc = "idle" /\ video.pc = "republish"
      BY <2>0, <2>12 DEF Republish, NextFrame, Thread, Steps
    <3> QED
      BY <2>0, <2>12, <3>1 DEF Republish, RecTypeOK, PipelineInv
  <2>13. CASE (\E r \in Requests : ReadStream(r)) \/ CheckReady
    <3>1. ipc' \in Command
      BY <2>0, <2>13 DEF ReadStream, CheckReady, NoCommand, Command
    <3>2. UNCHANGED <<session, file, encoder, stream, video, capture, faults, owner>>
      BY <2>13 DEF ReadStream, CheckReady
    <3> QED
      BY <3>1, <3>2 DEF RecTypeOK, PipelineInv
  <2>14. CASE Start
    <3>1. ipc' \in Command
      BY <2>0, <2>14 DEF Start, NoCommand, Command
    <3>2. session' \in Session
      BY <2>14 DEF Start, Session, RecTypeOK
    <3>3. owner' \in [request: Requests \cup {None}, calm: BOOLEAN]
      <4>1. Calm \in BOOLEAN
        BY DEF Calm
      <4>2. ipc.request \in Requests \cup {None}
        BY <2>0 DEF Command
      <4>3. \/ owner' = [request |-> ipc.request, calm |-> Calm]
            \/ owner' = owner
        BY <2>14 DEF Start
      <4> QED
        BY <4>1, <4>2, <4>3 DEF RecTypeOK
    <3>4. UNCHANGED <<file, encoder, stream, video, capture, faults>>
      BY <2>14 DEF Start
    <3> QED
      BY <3>1, <3>2, <3>3, <3>4 DEF RecTypeOK, PipelineInv
  <2>15. CASE StartLocked
    <3>1. ipc' \in Command
      BY <2>0, <2>15 DEF StartLocked, Command
    <3>2. session' \in Session
      BY <2>0, <2>15 DEF StartLocked, Session, RecTypeOK, Command
    <3> QED
      BY <2>15, <3>1, <3>2 DEF StartLocked, RecTypeOK, PipelineInv
  <2>16. CASE RequestKeyframe
    <3>1. encoder' \in Encoder /\ encoder'.held = encoder.held /\ encoder'.size = encoder.size
      BY <2>0, <2>16 DEF RequestKeyframe, Encoder
    <3>2. ipc' \in Command
      BY <2>0, <2>16 DEF RequestKeyframe, NoCommand, Command
    <3> QED
      BY <2>0, <2>16, <3>1, <3>2 DEF RequestKeyframe, RecTypeOK, PipelineInv
  <2>17. CASE RecordStop
    <3>1. session' \in Session /\ file' \in File /\ faults' \in faults..MaxFaults
      BY <2>17, StopSessionType DEF RecordStop
    <3>2. UNCHANGED <<encoder, stream, video, ipc, capture, owner>>
      BY <2>17 DEF RecordStop
    <3> QED
      BY <2>0, <3>1, <3>2 DEF RecTypeOK, PipelineInv
  <2>18. CASE UNCHANGED vars
    BY <2>18 DEF vars, RecTypeOK, PipelineInv
  <2> QED
    BY <2>1, <2>2, <2>3, <2>4, <2>5, <2>6, <2>7, <2>8, <2>9, <2>10, <2>11, <2>12, <2>13,
       <2>14, <2>15, <2>16, <2>17, <2>18 DEF RecNext, Video
<1> QED
  BY <1>1, <1>2, PTL DEF RecSpec

-----------------------------------------------------------------------------
(* The session and its file *)

\* What is known of the session and its file, whatever the pipeline does.
SessionInv == ReportedIsClosed /\ RecordingInv /\ CommandInv /\ OwnRequest

\* A sample begins a file for the request that set the session waiting, or goes to the file
\* that is open.
LEMMA OnSampleKeeps ==
  ASSUME RecTypeOK, SessionInv, NEW sample \in Sample, OnSample(sample),
         UNCHANGED <<owner, ipc>>
  PROVE  SessionInv'
<1> USE DEF SessionInv, ReportedIsClosed, RecordingInv, CommandInv, OwnRequest
<1>1. session \in Session /\ file \in File
  BY DEF RecTypeOK
<1>2. CASE OpenFile(sample)
  <2>1. /\ session.state = "waiting" /\ session'.request = session.request
        /\ session'.size = session.size
    BY <1>1, <1>2 DEF OpenFile, Waiting, Session
  <2>2. CASE file' = NewFile("open", sample)
             /\ session' = [session EXCEPT !.state = "recording", !.muxer = TRUE,
                                           !.path = TRUE]
    <3>1. session'.state = "recording" /\ session'.muxer /\ session'.path
      BY <1>1, <2>2 DEF Session
    <3> QED
      BY <2>1, <2>2, <3>1 DEF NewFile
  <2>3. CASE file' = NewFile("broken", sample)
             /\ session' = [session EXCEPT !.state = "error", !.path = TRUE]
    <3>1. session'.state = "error"
      BY <1>1, <2>3 DEF Session
    <3> QED
      BY <2>1, <2>3, <3>1 DEF NewFile
  <2> QED
    BY <1>2, <2>2, <2>3 DEF OpenFile
<1>3. CASE WriteSample(sample)
  <2>1. /\ file'.reported = file.reported /\ file'.early = file.early
        /\ file'.size = file.size /\ file'.calm = file.calm
        /\ file'.request = file.request /\ file'.owner = file.owner
    <3>1. \/ \E mixed \in BOOLEAN : file' = [file EXCEPT !.mixed = mixed]
          \/ file' = [file EXCEPT !.status = "broken"]
      <4>1. file.mixed \in BOOLEAN
        BY <1>1 DEF File
      <4>2. (file.mixed \/ sample.size # file.size) \in BOOLEAN
        BY <4>1
      <4> QED
        BY <1>3, <4>2, Zenon DEF WriteSample
    <3> QED
      BY <1>1, <3>1 DEF File
  <2>2. /\ session'.request = session.request
        /\ \/ session' = session /\ file'.status = file.status
           \/ session'.state = "error" /\ file'.status = "broken"
    <3>1. CASE /\ file' = [file EXCEPT !.mixed = @ \/ sample.size # file.size]
               /\ session' = session
      BY <1>1, <3>1 DEF File
    <3>2. CASE /\ file' = [file EXCEPT !.status = "broken"]
               /\ session' = [session EXCEPT !.state = "error", !.muxer = FALSE]
      <4>1. file'.status = "broken"
        BY <1>1, <3>2 DEF File
      <4>2. session'.request = session.request /\ session'.state = "error"
        BY <1>1, <3>2 DEF Session
      <4> QED
        BY <4>1, <4>2
    <3> QED
      BY <1>3, <3>1, <3>2 DEF WriteSample
  <2> QED
    BY <1>1, <1>3, <2>1, <2>2 DEF WriteSample
<1>4. CASE IgnoreSample(sample)
  BY <1>4 DEF IgnoreSample
<1> QED
  BY <1>2, <1>3, <1>4 DEF OnSample

\* A stop closes the file and keeps the rest of what is known of it.
LEMMA StopSessionKeeps ==
  ASSUME RecTypeOK, SessionInv, NEW path \in BOOLEAN, NEW told \in BOOLEAN,
         StopSession(path, told), UNCHANGED <<owner, ipc>>
  PROVE  SessionInv'
<1> USE DEF SessionInv, ReportedIsClosed, RecordingInv, CommandInv, OwnRequest
<1>1. session \in Session /\ file \in File
  BY DEF RecTypeOK
<1>2. /\ file'.early = file.early /\ file'.request = file.request
      /\ file'.owner = file.owner /\ session'.request = session.request
  BY <1>1 DEF StopSession, File, Session
<1>3. session'.state \in {"stopped", "error"}
  BY <1>1 DEF StopSession, Session
<1>4. file'.status = (IF Unfinished THEN "final" ELSE file.status) \/ file'.status = "broken"
  BY <1>1 DEF StopSession, File
<1>5. file'.status # "open" /\ (file'.status = "none" => file.status = "none")
  BY <1>4, <1>1 DEF Unfinished
<1>6. file.status = "none" => file'.status = "none"
  BY <1>1 DEF StopSession, File, Unfinished
<1> QED
  BY <1>2, <1>3, <1>5, <1>6

LEMMA SessionInvariant == RecSpec => []SessionInv
<1>1. RecInit => SessionInv
  BY DEF RecInit, NoCommand, SessionInv, ReportedIsClosed, RecordingInv, CommandInv, OwnRequest
<1>2. RecTypeOK /\ SessionInv /\ [RecNext]_vars => SessionInv'
  <2> SUFFICES ASSUME RecTypeOK, SessionInv, [RecNext]_vars PROVE SessionInv'
    OBVIOUS
  <2>0. session \in Session /\ ipc \in Command
    BY DEF RecTypeOK
  <2>1. CASE UNCHANGED <<session, file, owner, ipc>>
    BY <2>1 DEF SessionInv, ReportedIsClosed, RecordingInv, CommandInv, OwnRequest
  <2>2. CASE UNCHANGED <<session, file, owner>> /\ ipc.pc # "lock" /\ ipc'.pc # "lock"
    BY <2>2 DEF SessionInv, ReportedIsClosed, RecordingInv, CommandInv, OwnRequest
  <2>3. CASE \E sample \in Sample : OnSample(sample) /\ UNCHANGED <<owner, ipc>>
    BY <2>3, OnSampleKeeps
  <2>4. CASE /\ \E path \in BOOLEAN : \E told \in BOOLEAN : StopSession(path, told)
             /\ UNCHANGED <<owner, ipc>>
    BY <2>4, StopSessionKeeps
  <2>5. CASE Start
    <3> USE DEF SessionInv, ReportedIsClosed, RecordingInv, CommandInv, OwnRequest
    <3>1. CASE session.state = "stopped"
      <4>1. /\ session'.state = "waiting" /\ owner'.request = ipc.request
            /\ ipc'.pc = "lock" /\ ipc'.request = ipc.request /\ file' = file
        BY <2>0, <2>5, <3>1 DEF Start, Session, Command
      <4> QED
        BY <3>1, <4>1
    <3>2. CASE session.state # "stopped"
      BY <2>5, <3>2 DEF Start, NoCommand
    <3> QED
      BY <3>1, <3>2
  <2>6. CASE StartLocked
    <3> USE DEF SessionInv, ReportedIsClosed, RecordingInv, CommandInv, OwnRequest
    <3>1. /\ session'.state = session.state /\ session'.muxer = session.muxer
          /\ session'.request = ipc.request /\ ipc'.pc = "key" /\ ipc.pc = "lock"
          /\ file' = file /\ owner' = owner
      BY <2>0, <2>6 DEF StartLocked, Session, Command
    <3> QED
      BY <3>1
  <2> QED
    BY <2>1, <2>2, <2>3, <2>4, <2>5, <2>6, SessionStep
<1> QED
  BY <1>1, <1>2, RecorderTypeCorrect, PTL DEF RecSpec

\* The path that a record_stop reports, and that an upload reads, is never of a file that
\* is still being written, and a file is open exactly while the session records, however
\* many commands and failures (RecordingSession.cpp:15-29, Application.cpp:94).
THEOREM ReportedFilesAreClosed == RecSpec => []ReportedIsClosed
BY SessionInvariant, PTL DEF SessionInv

\* A file carries the metadata of the command that asked for it, unless it was begun
\* between the two steps of that command (RecordingSession.cpp:7-16).
THEOREM FilesAreOfTheirRequest == RecSpec => []OwnRequest
BY SessionInvariant, PTL DEF SessionInv

\* A record_stop that ends a recording reports its file, with the same exception
\* (RecordingSession.cpp:24-29).
THEOREM RecordingsAreReported == RecSpec => RecordingReported
<1>1. RecTypeOK /\ SessionInv /\ [RecNext]_vars =>
        [/\ file.status = "open" /\ file'.status = "final"
         /\ video' = video /\ ~file.early
         => file'.reported]_vars
  <2> SUFFICES ASSUME RecTypeOK, SessionInv, [RecNext]_vars,
                      file.status = "open", file'.status = "final",
                      video' = video, ~file.early
               PROVE  file'.reported
    OBVIOUS
  <2>0. session \in Session /\ file \in File
    BY DEF RecTypeOK
  <2>1. session.state = "recording" /\ session.path
    BY DEF SessionInv, ReportedIsClosed, RecordingInv
  <2>2. CASE \E sample \in Sample : OnSample(sample)
    BY <2>0, <2>2 DEF OnSample, OpenFile, WriteSample, IgnoreSample, NewFile, File
  <2>3. CASE \E path \in BOOLEAN : StopSession(path, path)
    <3>1. PICK path \in BOOLEAN : StopSession(path, path)
      BY <2>3
    <3>2. file'.status # "broken"
      OBVIOUS
    <3>3. path = session.path /\ file'.reported = (file.reported \/ path)
      BY <2>0, <3>1, <3>2 DEF StopSession, File
    <3> QED
      BY <2>1, <3>3
  <2>4. CASE Start \/ StartLocked
    BY <2>4 DEF Start, StartLocked
  <2> QED
    BY <2>2, <2>3, <2>4, SessionStep
<1> QED
  BY <1>1, SessionInvariant, RecorderTypeCorrect, PTL DEF RecSpec, RecordingReported

-----------------------------------------------------------------------------
(* Frames of one size *)

\* The file that a session in a calm has open holds frames of its size only.
SteadyInv == CalmInv /\ SteadyFiles

\* A sample of the pipeline, written while the session and its file are as SessionInv says,
\* is of the size of the file.
LEMMA SteadySample ==
  ASSUME RecTypeOK, SessionInv, SteadyInv, encoder.held # <<>>,
         OnSample(Head(encoder.held)), UNCHANGED <<stream, video, ipc, owner>>,
         encoder' = [encoder EXCEPT !.held = Tail(@)]
  PROVE  SteadyInv'
<1> DEFINE sample == Head(encoder.held)
<1>0. /\ session \in Session /\ file \in File /\ encoder \in Encoder
      /\ encoder.held \in Seq(Sample)
  BY DEF RecTypeOK, Encoder
<1>1. /\ session'.size = session.size
      /\ session'.state \in {"waiting", "recording"} =>
           session.state \in {"waiting", "recording"}
  BY <1>0 DEF OnSample, OpenFile, WriteSample, IgnoreSample, Waiting, Session
<1>2. \A size : SteadyAt(size) => SteadyAt(size)'
  <2> SUFFICES ASSUME NEW size, SteadyAt(size) PROVE SteadyAt(size)'
    OBVIOUS
  <2>1. encoder'.held = Tail(encoder.held) /\ stream' = stream /\ video' = video
    BY <1>0 DEF Encoder
  <2>2. \A i \in DOMAIN encoder'.held : encoder'.held[i].size = size
    BY <2>1, HeldSample DEF SteadyAt
  <2> QED
    BY <2>1, <2>2 DEF SteadyAt
<1>3. CalmInv'
  BY <1>1, <1>2 DEF SteadyInv, CalmInv
<1>4. ASSUME NEW size, SteadyAt(size) PROVE sample.size = size
  <2>1. 1 \in DOMAIN encoder.held /\ sample = encoder.held[1]
    BY <1>0
  <2> QED
    BY <1>4, <2>1 DEF SteadyAt
<1>5. SteadyFiles'
  <2> SUFFICES ASSUME file'.status # "none", file'.calm, ~file'.early
               PROVE  ~file'.mixed
    BY DEF SteadyFiles
  <2> HIDE DEF sample
  <2>1. OnSample(sample)
    BY DEF sample
  <2>2. CASE OpenFile(sample)
    <3>0. PICK status : file' = NewFile(status, sample)
      BY <2>2 DEF OpenFile
    <3>1. owner.calm /\ ipc.pc # "lock" /\ (file'.mixed => sample.size # session.size)
      BY <3>0 DEF NewFile
    <3>2. SteadyAt(session.size)
      BY <2>2, <3>1 DEF OpenFile, Waiting, SteadyInv, CalmInv
    <3> QED
      BY <1>4, <3>1, <3>2
  <2>3. CASE WriteSample(sample)
    <3>1. session.state = "recording" /\ file'.calm = file.calm /\ file'.early = file.early
      BY <1>0, <2>3 DEF WriteSample, File
    <3>2. /\ ipc.pc # "lock" /\ file.size = session.size /\ owner.calm
          /\ file.status = "open"
      BY <3>1 DEF SessionInv, RecordingInv, ReportedIsClosed
    <3>3. SteadyAt(file.size) /\ ~file.mixed
      BY <3>1, <3>2 DEF SteadyInv, CalmInv, SteadyFiles
    <3>4. file'.mixed = file.mixed \/ file'.mixed = (file.mixed \/ sample.size # file.size)
      BY <1>0, <2>3 DEF WriteSample, File
    <3> QED
      BY <1>4, <3>3, <3>4
  <2>4. CASE IgnoreSample(sample)
    BY <2>4 DEF IgnoreSample, SteadyInv, SteadyFiles
  <2> QED
    BY <2>1, <2>2, <2>3, <2>4 DEF OnSample
<1> QED
  BY <1>3, <1>5 DEF SteadyInv

\* A stop ends the wait or the recording: nothing is left to be steady.
LEMMA SteadyStop ==
  ASSUME RecTypeOK, SteadyInv, NEW path \in BOOLEAN, NEW told \in BOOLEAN,
         StopSession(path, told), owner' = owner
  PROVE  SteadyInv'
<1>0. session \in Session /\ file \in File
  BY DEF RecTypeOK
<1>1. session'.state \in {"stopped", "error"}
  BY <1>0 DEF StopSession, Session
<1>2. /\ file'.calm = file.calm /\ file'.early = file.early /\ file'.mixed = file.mixed
      /\ file.status = "none" => file'.status = "none"
  BY <1>0 DEF StopSession, File, Unfinished
<1> QED
  BY <1>1, <1>2 DEF SteadyInv, CalmInv, SteadyFiles

\* A step of the pipeline that leaves the session alone keeps a steady size, or the session
\* neither waits nor records.
LEMMA SteadyPipeline ==
  ASSUME SteadyInv, UNCHANGED <<session, file, ipc, owner>>,
         \A size : SteadyAt(size) => SteadyAt(size)'
  PROVE  SteadyInv'
BY DEF SteadyInv, CalmInv, SteadyFiles

LEMMA SteadyInvariant == RecSpec => []SteadyInv
<1>1. RecInit => SteadyInv
  BY DEF RecInit, NoCommand, SteadyInv, CalmInv, SteadyFiles
<1>2. RecTypeOK /\ PipelineInv /\ SessionInv /\ SteadyInv /\ [RecNext]_vars => SteadyInv'
  <2> SUFFICES ASSUME RecTypeOK, PipelineInv, SessionInv, SteadyInv, [RecNext]_vars
               PROVE  SteadyInv'
    OBVIOUS
  <2>0. /\ session \in Session /\ ipc \in Command /\ video \in Thread /\ encoder \in Encoder
        /\ Sizes \subseteq Nat \ {0}
    BY RecorderAssumption DEF RecTypeOK
  <2>1. ASSUME NEW size \in Sizes, PopFrame(size) PROVE SteadyInv'
    <3>1. ASSUME NEW z, SteadyAt(z) PROVE SteadyAt(z)'
      <4>1. /\ video'.pc = (IF stream \in {0, size} THEN "encode" ELSE "stop")
            /\ video'.size = size /\ UNCHANGED <<encoder, stream>>
        BY <2>0, <2>1 DEF PopFrame, Thread
      <4> QED
        BY <3>1, <4>1 DEF SteadyAt
    <3> QED
      BY <2>1, <3>1, SteadyPipeline DEF PopFrame
  <2>2. CASE StopRecording
    <3>1. CASE \E path \in BOOLEAN : StopSession(path, FALSE)
      BY <2>2, <3>1, SteadyStop DEF StopRecording
    <3>2. CASE session.state = "stopped" /\ UNCHANGED <<session, file, faults>>
      BY <2>2, <3>2 DEF StopRecording, SteadyInv, CalmInv, SteadyFiles
    <3> QED
      BY <2>2, <3>1, <3>2 DEF StopRecording
  <2>3. CASE DrainSample \/ EmitSample
    BY <2>3, SteadySample DEF DrainSample, EmitSample
  <2>4. CASE Drained
    <3>1. ASSUME NEW z, SteadyAt(z) PROVE SteadyAt(z)'
      <4>1. /\ video'.pc = (IF video.recovering THEN "stop" ELSE "encode")
            /\ encoder'.held = encoder.held /\ video.pc = "drain" /\ stream' = stream
        BY <2>0, <2>4 DEF Drained, Goto, Thread, Encoder
      <4> QED
        BY <3>1, <4>1 DEF SteadyAt
    <3> QED
      BY <2>4, <3>1, SteadyPipeline DEF Drained
  <2>5. CASE Encode
    <3>1. ASSUME NEW z, SteadyAt(z) PROVE SteadyAt(z)'
      <4> DEFINE held == IF encoder.size # video.size THEN <<>> ELSE encoder.held
      <4>1. PICK key \in BOOLEAN :
              encoder' = [size |-> video.size, force |-> FALSE,
                          held |-> Append(held, [size |-> video.size, key |-> key])]
        BY <2>5 DEF Encode
      <4>2. /\ video.pc = "encode" /\ video'.pc = "emit" /\ video'.size = video.size
            /\ stream' = stream
        BY <2>0, <2>5 DEF Encode, Goto, Thread
      <4>3. held \in Seq(Sample) /\ \A i \in DOMAIN held : held[i].size = z
        BY <2>0, <3>1 DEF SteadyAt, Encoder
      <4> HIDE DEF held
      <4>4. \A i \in DOMAIN encoder'.held : encoder'.held[i].size = z
        <5> SUFFICES ASSUME NEW i \in DOMAIN encoder'.held PROVE encoder'.held[i].size = z
          OBVIOUS
        <5>1. encoder'.held = Append(held, [size |-> video.size, key |-> key])
          BY <4>1
        <5>2. video.size = z
          BY <3>1, <4>2 DEF SteadyAt
        <5>3. CASE i = Len(held) + 1
          BY <4>3, <5>1, <5>2, <5>3
        <5>4. CASE i # Len(held) + 1
          <6>1. i \in DOMAIN held /\ encoder'.held[i] = held[i]
            BY <4>3, <5>1, <5>4
          <6> QED
            BY <4>3, <6>1
        <5> QED
          BY <5>3, <5>4
      <4> QED
        BY <3>1, <4>2, <4>4 DEF SteadyAt
    <3> QED
      BY <2>5, <3>1, SteadyPipeline DEF Encode
  <2>6. CASE EncodeFails
    <3>1. ASSUME NEW z, SteadyAt(z) PROVE SteadyAt(z)'
      <4>1. encoder'.held = <<>> \/ encoder'.held = encoder.held
        BY <2>0, <2>6 DEF EncodeFails, Encoder
      <4>2. video'.pc = "failed" /\ stream' = stream
        BY <2>0, <2>6 DEF EncodeFails, Goto, Thread
      <4> QED
        BY <3>1, <4>1, <4>2 DEF SteadyAt
    <3> QED
      BY <2>6, <3>1, SteadyPipeline DEF EncodeFails
  <2>7. CASE DrainFails
    <3>1. ASSUME NEW z, SteadyAt(z) PROVE SteadyAt(z)'
      <4>1. video'.pc \in {"idle", "failed"} /\ UNCHANGED <<encoder, stream>>
        BY <2>0, <2>7 DEF DrainFails, Goto, NextFrame, Thread
      <4> QED
        BY <3>1, <4>1 DEF SteadyAt
    <3> QED
      BY <2>7, <3>1, SteadyPipeline DEF DrainFails
  <2>8. CASE Publish
    <3>1. ASSUME NEW z, SteadyAt(z) PROVE SteadyAt(z)'
      <4>1. /\ video.pc = "emit" /\ video'.pc = "request" /\ encoder' = encoder
            /\ stream' = encoder.size
        BY <2>0, <2>8 DEF Publish, Goto, Thread
      <4>2. stream' = z
        BY <3>1, <4>1 DEF SteadyAt, PipelineInv
      <4> QED
        BY <3>1, <4>1, <4>2 DEF SteadyAt
    <3> QED
      BY <2>8, <3>1, SteadyPipeline DEF Publish
  <2>9. CASE EndFrame
    <3>1. ASSUME NEW z, SteadyAt(z) PROVE SteadyAt(z)'
      <4>1. encoder'.held = encoder.held /\ video'.pc = "idle" /\ stream' = stream
        BY <2>0, <2>9 DEF EndFrame, NextFrame, Encoder
      <4> QED
        BY <3>1, <4>1 DEF SteadyAt
    <3> QED
      BY <2>9, <3>1, SteadyPipeline DEF EndFrame
  <2>10. CASE CountFailure
    <3>1. ASSUME NEW z, SteadyAt(z) PROVE SteadyAt(z)'
      <4>1. /\ video'.pc = "idle" \/ (video'.pc = "drain" /\ video'.recovering)
            /\ UNCHANGED <<encoder, stream>>
        <5>1. CASE NextFrame(video.failures + 1)
          BY <2>10, <5>1 DEF CountFailure, NextFrame
        <5>2. CASE video' = [video EXCEPT !.pc = "drain", !.failures = MaxFailures,
                                          !.recovering = TRUE]
          BY <2>0, <2>10, <5>2 DEF CountFailure, Thread
        <5> QED
          BY <2>10, <5>1, <5>2 DEF CountFailure
      <4> QED
        BY <3>1, <4>1 DEF SteadyAt
    <3> QED
      BY <2>10, <3>1, SteadyPipeline DEF CountFailure
  <2>11. CASE RecreateDevice \/ Republish
    <3>1. ASSUME NEW z PROVE ~SteadyAt(z)
      BY <2>11 DEF RecreateDevice, Republish, SteadyAt
    <3> QED
      BY <2>11, <3>1, SteadyPipeline DEF RecreateDevice, Republish
  <2>12. CASE (\E r \in Requests : ReadStream(r)) \/ CheckReady
    <3>1. /\ UNCHANGED <<session, file, encoder, stream, video, owner>>
          /\ ipc.pc # "lock" /\ ipc'.pc # "lock"
      BY <2>0, <2>12 DEF ReadStream, CheckReady, NoCommand, Command
    <3> QED
      BY <3>1 DEF SteadyInv, CalmInv, SteadyAt, SteadyFiles
  <2>13. CASE Start
    <3>1. CASE session.state = "stopped"
      <4>1. /\ owner' = [request |-> ipc.request, calm |-> Calm]
            /\ ipc'.pc = "lock" /\ ipc'.size = ipc.size
            /\ UNCHANGED <<file, encoder, stream, video>>
        BY <2>0, <2>13, <3>1 DEF Start, Command
      <4>2. Calm => SteadyAt(ipc.size)'
        BY <4>1 DEF Calm, SteadyAt
      <4> QED
        BY <4>1, <4>2 DEF SteadyInv, CalmInv, SteadyFiles
    <3>2. CASE session.state # "stopped"
      <4>1. /\ UNCHANGED <<session, file, encoder, stream, video, owner>>
            /\ ipc.pc # "lock" /\ ipc'.pc # "lock"
        BY <2>13, <3>2 DEF Start, NoCommand
      <4> QED
        BY <4>1 DEF SteadyInv, CalmInv, SteadyAt, SteadyFiles
    <3> QED
      BY <3>1, <3>2
  <2>14. CASE StartLocked
    <3>1. /\ session'.state = session.state /\ session'.size = ipc.size
          /\ ipc.pc = "lock" /\ ipc'.pc = "key"
          /\ UNCHANGED <<file, encoder, stream, video, owner>>
      BY <2>0, <2>14 DEF StartLocked, Session, Command
    <3> QED
      BY <3>1 DEF SteadyInv, CalmInv, SteadyAt, SteadyFiles
  <2>15. CASE RequestKeyframe
    <3>1. /\ UNCHANGED <<session, file, stream, video, owner>>
          /\ encoder'.held = encoder.held /\ ipc.pc # "lock" /\ ipc'.pc # "lock"
      BY <2>0, <2>15 DEF RequestKeyframe, NoCommand, Encoder
    <3> QED
      BY <3>1 DEF SteadyInv, CalmInv, SteadyAt, SteadyFiles
  <2>16. CASE RecordStop
    BY <2>16, SteadyStop DEF RecordStop
  <2>17. CASE UNCHANGED vars
    BY <2>17 DEF vars, SteadyInv, CalmInv, SteadyAt, SteadyFiles
  <2> QED
    BY <2>1, <2>2, <2>3, <2>4, <2>5, <2>6, <2>7, <2>8, <2>9, <2>10, <2>11, <2>12, <2>13,
       <2>14, <2>15, <2>16, <2>17 DEF RecNext, Video
<1> QED
  BY <1>1, <1>2, RecorderTypeCorrect, SessionInvariant, PTL DEF RecSpec

\* A file holds frames of its declared size only, however the window changes and the
\* encoder fails, unless its command came while a change of size or a recovery was under
\* way (Application.cpp:40-50, 66-73).
THEOREM FilesAreSteady == RecSpec => []SteadyFiles
BY SteadyInvariant, PTL DEF SteadyInv

=============================================================================
