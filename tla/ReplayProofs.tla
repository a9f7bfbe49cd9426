---------------------------- MODULE ReplayProofs ----------------------------
(***************************************************************************)
(* Proofs about replays: first the buffer and the threads that drive it,   *)
(* for any frame sizes, latency and number of failures (ReplayPath), then  *)
(* the ring buffer of samples, for any retention, length of a segment,     *)
(* times and saves (SegmentStore).  The two models share no variable.      *)
(***************************************************************************)
EXTENDS ReplayPath, SegmentStore, SequenceTheorems, WellFoundedInduction, TLAPS

\* The encoder holds no more frames than encode() and its failures leave, and has a size
\* then; a frame in work has a size, and the encoder is configured for it once it is in.
EncoderInv ==
  /\ encoder.held > 0 => encoder.size # 0
  /\ encoder.held <= Latency + faults + (IF video.pc = "emit" THEN 1 ELSE 0)
  /\ video.pc # "idle" => video.size # 0
  /\ video.pc = "emit" => encoder.size = video.size
  /\ video.pc \in {"idle", "encode", "emit"} => ~video.recovering
  /\ video.pc = "device" => video.recovering

\* Nothing is missing from the store; and when a sample has been, or is going to be, missed,
\* the store begins anew or its last sample came late, so that no hole is between two.
WholeInv ==
  /\ ~store.hole /\ ~writer.taken.hole
  /\ store.key => \/ store.late
                  \/ ~feed.missed /\ state \notin {"stopped", "starting"} /\ ipc.pc # "stopped"

\* Unless a frame of a size that was never published got in, the store holds frames of the
\* published size; and nothing once a change of size, or a recovery, has reset it.
SizesInv ==
  /\ ~store.foreign => store.sizes \subseteq {stream}
  /\ /\ ~store.foreign /\ ~video.recovering
     /\ video.pc \in {"drain", "encode", "emit"} /\ video.size # stream
     => store.sizes = {}
  /\ video.pc = "device" => store.sizes = {}

\* The command that is being served is calm as long as the size it copied is that of the
\* frames.
OrderInv ==
  /\ ipc.pc \in {"ready", "lock", "mark", "snapshot"} /\ ipc.order.calm =>
       /\ stream # 0 /\ ipc.order.size = stream
       /\ ~video.recovering /\ (video.pc = "idle" \/ video.size = stream)
  /\ ReplayOneSize

\* Without a write error state_ is what the thread in charge of it has set.
LifeInv ==
  faults = 0 =>
    /\ ipc.pc = "starting" => state = "starting"
    /\ ipc.pc \in {"clear", "stopped"} => state # "saving"
    /\ ipc.pc = "mark" => state = "running"
    /\ ipc.pc = "snapshot" => writer.pc \in {"idle", "done"}
    /\ ipc.pc = "snapshot" \/ writer.pc \in {"write", "end", "run"} => state = "saving"

-----------------------------------------------------------------------------
(* Types *)

\* A change of size keeps the command a command, and it is not calm any more.
LEMMA DisturbType ==
  ASSUME ipc \in Command, Disturb
  PROVE  /\ ipc' \in Command /\ ipc'.pc = ipc.pc /\ ~ipc'.order.calm
         /\ ipc'.order.size = ipc.order.size
<1>1. ipc.order \in Order /\ ipc.order = [size |-> ipc.order.size, calm |-> ipc.order.calm]
  BY DEF Command, Order
<1>2. ipc' = [pc |-> ipc.pc, order |-> [size |-> ipc.order.size, calm |-> FALSE]]
  BY <1>1 DEF Disturb, Command, Order
<1> QED
  BY <1>1, <1>2 DEF Command, Order

\* What a step of on_sample does is well typed.
LEMMA FeedType ==
  ASSUME PathTypeOK, EncoderInv, Feed
  PROVE  /\ state' \in {state, "error"} /\ store' \in Content /\ feed' \in Feeding
         /\ faults' \in faults..MaxFaults
         /\ encoder' \in Encoder /\ encoder'.size = encoder.size
         /\ encoder'.held <= encoder.held
         /\ UNCHANGED <<writer, future, video, stream, ipc>>
<1>1. /\ store \in Content /\ feed \in Feeding /\ faults \in 0..MaxFaults /\ MaxFaults \in Nat
      /\ encoder \in Encoder /\ encoder.held > 0 /\ encoder.size \in Sizes
  BY ReplayAssumption DEF PathTypeOK, BufferTypeOK, EncoderInv, Feed, Encoder, Size
<1>2. UNCHANGED <<video, stream, ipc>>
  BY DEF Feed
<1>3. CASE (FirstLoad \/ SecondLoad) /\ UNCHANGED encoder
  <2>1. feed' \in Feeding
    BY <1>1, <1>3 DEF FirstLoad, SecondLoad, Feeding
  <2>2. UNCHANGED <<state, store, writer, future, faults, encoder>>
    BY <1>3 DEF FirstLoad, SecondLoad
  <2> QED
    BY <1>1, <1>2, <2>1, <2>2 DEF Encoder
<1>4. ASSUME encoder' = [encoder EXCEPT !.held = @ - 1]
      PROVE  /\ encoder' \in Encoder /\ encoder'.size = encoder.size
             /\ encoder'.held <= encoder.held
  BY <1>1, <1>4 DEF Encoder
<1>5. CASE Ignore /\ encoder' = [encoder EXCEPT !.held = @ - 1]
  <2>1. feed' \in Feeding
    BY <1>1, <1>5 DEF Ignore, Feeding
  <2> QED
    BY <1>1, <1>2, <1>4, <1>5, <2>1 DEF Ignore
<1>6. CASE AppendFails /\ encoder' = [encoder EXCEPT !.held = @ - 1]
  <2>1. feed' \in Feeding
    BY <1>6 DEF AppendFails, Feeding
  <2> QED
    BY <1>1, <1>2, <1>4, <1>6, <2>1 DEF AppendFails, Fault
<1>7. ASSUME NEW sizes \in SUBSET Sizes, NEW late \in BOOLEAN, NEW foreign \in BOOLEAN,
             AppendSample(sizes, late, foreign), encoder' = [encoder EXCEPT !.held = @ - 1]
      PROVE  /\ store' \in Content /\ feed' \in Feeding
             /\ UNCHANGED <<state, writer, future, faults>>
  <2>1. /\ store.sizes \cup sizes \in SUBSET Sizes /\ store.hole \in BOOLEAN
        /\ store.late \in BOOLEAN /\ store.foreign \in BOOLEAN /\ feed.missed \in BOOLEAN
    BY <1>1 DEF Content, Feeding
  <2>2. store' \in Content
    <3>1. CASE store.key
      <4> DEFINE hole == store.hole \/ (feed.missed /\ ~store.late)
                 other == store.foreign \/ foreign
      <4>1. hole \in BOOLEAN /\ other \in BOOLEAN
        OBVIOUS
      <4>2. store' = [key |-> TRUE, sizes |-> store.sizes \cup sizes, hole |-> hole,
                      late |-> late, foreign |-> other]
        BY <1>7, <3>1 DEF AppendSample
      <4> HIDE DEF hole, other
      <4> QED
        BY <2>1, <4>1, <4>2 DEF Content
    <3>2. CASE ~store.key
      BY <1>7, <2>1, <3>2 DEF AppendSample, Content, Empty
    <3> QED
      BY <3>1, <3>2
  <2> QED
    BY <1>7, <2>2 DEF AppendSample, Feeding
<1> DEFINE sizes == IF video.pc = "drain" /\ ~video.recovering THEN {} ELSE {encoder.size}
           late == state \notin {"running", "saving"} \/ ipc.pc = "stopped"
           foreign == ~(video.pc = "drain" /\ ~video.recovering) /\ stream # encoder.size
<1>8. CASE AppendSample(sizes, late, foreign) /\ encoder' = [encoder EXCEPT !.held = @ - 1]
  <2>1. sizes \in SUBSET Sizes /\ late \in BOOLEAN /\ foreign \in BOOLEAN
    BY <1>1
  <2> HIDE DEF sizes, late, foreign
  <2> QED
    BY <1>1, <1>2, <1>4, <1>7, <1>8, <2>1
<1> QED
  BY <1>3, <1>5, <1>6, <1>8 DEF Feed

\* Every reachable state of the replay path is well typed; in particular the encoder never
\* holds more frames than its latency, the one being encoded and one for each failure so
\* far (MediaFoundationEncoder.cpp:67-94).
THEOREM ReplayTypeCorrect == PathSpec => [](PathTypeOK /\ EncoderInv)
<1> USE ReplayAssumption, LatencyAssumption
<1>1. PathInit => PathTypeOK /\ EncoderInv
  BY DEF PathInit, BufferInit, PathTypeOK, BufferTypeOK, EncoderInv, Size, Thread, Encoder,
         Command, Feeding, Saving, Order, Content, NoOrder, Empty
<1>2. PathTypeOK /\ EncoderInv /\ [PathNext]_vars => PathTypeOK' /\ EncoderInv'
  <2> SUFFICES ASSUME PathTypeOK, EncoderInv, [PathNext]_vars
               PROVE  PathTypeOK' /\ EncoderInv'
    OBVIOUS
  <2>0. /\ faults \in 0..MaxFaults /\ encoder \in Encoder /\ encoder.held \in Nat
        /\ encoder.size \in Size /\ stream \in Size /\ Sizes \subseteq Size /\ 0 \notin Sizes
        /\ video \in Thread /\ video.size \in Size /\ ipc \in Command
        /\ writer \in Saving /\ store \in Content
        /\ Empty \in Content /\ NoOrder \in Order /\ 0 \in Size
    BY DEF PathTypeOK, BufferTypeOK, Encoder, Thread, Size, Empty, NoOrder, Content, Order
  <2>1. ASSUME NEW size \in Sizes, PopFrame(size) PROVE PathTypeOK' /\ EncoderInv'
    <3>1. /\ video' \in Thread /\ video'.size # 0 /\ video'.pc \in {"encode", "reset"}
          /\ video'.recovering = video.recovering /\ video.pc = "idle"
      BY <2>0, <2>1 DEF PopFrame, Thread
    <3>2. ipc' \in Command
      BY <2>0, <2>1, DisturbType DEF PopFrame
    <3>3. UNCHANGED <<replayVars, encoder, stream>>
      BY <2>1 DEF PopFrame
    <3> QED
      BY <2>0, <3>1, <3>2, <3>3 DEF PathTypeOK, BufferTypeOK, EncoderInv, replayVars
  <2>2. CASE ResetBuffer
    <3>1. /\ video' \in Thread /\ video'.size = video.size /\ video'.pc \in {"device", "drain"}
          /\ (video'.pc = "device" => video'.recovering) /\ video.pc = "reset"
      BY <2>0, <2>2 DEF ResetBuffer, Goto, Thread
    <3>2. /\ store' \in Content
          /\ UNCHANGED <<state, feed, writer, future, faults, encoder, stream, ipc>>
      BY <2>0, <2>2 DEF ResetBuffer
    <3> QED
      BY <2>0, <3>1, <3>2 DEF PathTypeOK, BufferTypeOK, EncoderInv
  <2>3. CASE Feed
    <3>1. faults' \in 0..MaxFaults /\ faults <= faults' /\ encoder'.held \in Nat
      BY <2>0, <2>3, FeedType DEF Encoder
    <3> QED
      BY <2>0, <2>3, <3>1, FeedType DEF PathTypeOK, BufferTypeOK, EncoderInv
  <2>4. CASE Drained
    <3>1. /\ video' \in Thread /\ video'.size = video.size /\ video.pc = "drain"
          /\ IF video.recovering THEN video'.pc = "reset"
             ELSE video'.pc = "encode" /\ ~video'.recovering
      BY <2>0, <2>4 DEF Drained, Goto, Thread
    <3>2. encoder' \in Encoder /\ encoder'.held = 0
      BY <2>0, <2>4 DEF Drained, Encoder
    <3>3. UNCHANGED <<replayVars, stream, ipc>>
      BY <2>4 DEF Drained
    <3> QED
      BY <2>0, <3>1, <3>2, <3>3 DEF PathTypeOK, BufferTypeOK, EncoderInv, replayVars
  <2>5. CASE Encode
    <3>1. /\ video' \in Thread /\ video'.size = video.size /\ video.pc = "encode"
          /\ video'.pc = "emit" /\ video'.recovering = video.recovering
      BY <2>0, <2>5 DEF Encode, Goto, Thread
    <3>2. /\ encoder' \in Encoder /\ encoder'.size = video.size
          /\ encoder'.held <= encoder.held + 1
      BY <2>0, <2>5 DEF Encode, Encoder
    <3>3. UNCHANGED <<replayVars, stream, ipc>>
      BY <2>5 DEF Encode
    <3>4. encoder'.held \in Nat
      BY <3>2 DEF Encoder
    <3> QED
      BY <2>0, <3>1, <3>2, <3>3, <3>4 DEF PathTypeOK, BufferTypeOK, EncoderInv, replayVars
  <2>6. CASE Publish
    <3>1. /\ video' \in Thread /\ video'.pc = "idle" /\ ~video'.recovering
          /\ encoder.held <= Latency
      BY <2>0, <2>6 DEF Publish, NextFrame, Thread
    <3>2. store' \in Content /\ stream' \in Size
      BY <2>0, <2>6 DEF Publish, Content
    <3>3. UNCHANGED <<state, feed, writer, future, faults, encoder, ipc>>
      BY <2>6 DEF Publish
    <3> QED
      BY <2>0, <3>1, <3>2, <3>3 DEF PathTypeOK, BufferTypeOK, EncoderInv
  <2>7. CASE EncodeFails
    <3>1. /\ video' \in Thread
          /\ \/ video'.pc = "idle" /\ ~video'.recovering
             \/ video'.pc = "drain" /\ video'.size # 0
      <4>1. CASE NextFrame
        BY <2>0, <4>1 DEF NextFrame, Thread
      <4>2. CASE video' = [video EXCEPT !.pc = "drain", !.recovering = TRUE]
        BY <2>0, <2>7, <4>2 DEF EncodeFails, Thread, EncoderInv
      <4> QED
        BY <2>7, <4>1, <4>2 DEF EncodeFails
    <3>2. /\ encoder' \in Encoder /\ encoder'.held <= encoder.held /\ encoder'.held \in Nat
          /\ encoder'.held > 0 => encoder'.size # 0
      BY <2>0, <2>7 DEF EncodeFails, Encoder, EncoderInv
    <3>3. ipc' \in Command
      BY <2>0, <2>7, DisturbType DEF EncodeFails
    <3>4. /\ faults' = faults + 1 /\ faults' \in 0..MaxFaults
          /\ UNCHANGED <<state, store, feed, writer, future, stream>>
      BY <2>0, <2>7 DEF EncodeFails, Fault
    <3> QED
      BY <2>0, <3>1, <3>2, <3>3, <3>4 DEF PathTypeOK, BufferTypeOK, EncoderInv
  <2>8. CASE Recover
    <3>1. video' \in Thread /\ video'.pc = "idle" /\ ~video'.recovering /\ video.pc = "device"
      BY <2>0, <2>8 DEF Recover, NextFrame, Thread
    <3> QED
      BY <2>0, <2>8, <3>1 DEF Recover, PathTypeOK, BufferTypeOK, EncoderInv, replayVars
  <2>9. CASE \/ ReplayStart \/ Started \/ ReplayStop \/ ClearStore \/ Stopped
             \/ SaveReady \/ LockSave \/ MarkSaving
    <3>1. ipc' \in Command
      BY <2>0, <2>9 DEF ReplayStart, Started, ReplayStop, ClearStore, Stopped, SaveReady,
                        LockSave, MarkSaving, IpcGoto, NoReply, Command
    <3>2. /\ state' \in {state, "starting", "running", "stopped", "saving"}
          /\ store' \in {store, Empty} /\ future' \in {future, "deferred"}
          /\ UNCHANGED <<feed, writer, faults, video, encoder, stream>>
      BY <2>9 DEF ReplayStart, Started, ReplayStop, ClearStore, Stopped, SaveReady, LockSave,
                  MarkSaving, replayVars
    <3> QED
      BY <2>0, <3>1, <3>2 DEF PathTypeOK, BufferTypeOK, EncoderInv
  <2>10. CASE ReplaySave
    <3>1. ipc' \in Command
      BY <2>0, <2>10 DEF ReplaySave, Command, Order
    <3> QED
      BY <2>0, <2>10, <3>1 DEF ReplaySave, PathTypeOK, BufferTypeOK, EncoderInv, replayVars
  <2>11. CASE Snapshot
    <3>1. writer' \in Saving /\ ipc' \in Command
      BY <2>0, <2>11 DEF Snapshot, NoReply, Saving, Command, Content
    <3> QED
      BY <2>0, <2>11, <3>1 DEF Snapshot, PathTypeOK, BufferTypeOK, EncoderInv
  <2>12. CASE Collect
    BY <2>0, <2>12 DEF Collect, PathTypeOK, BufferTypeOK, EncoderInv
  <2>13. CASE WriterStep
    <3>1. writer' \in Saving
      BY <2>0, <2>13 DEF WriterStep, Writer, WriteReplay, EndSave, RunAgain, ResultReady, Saving
    <3>2. /\ state' \in {state, "running"} /\ future' \in {future, "ready"}
          /\ UNCHANGED <<store, feed, faults, video, encoder, stream, ipc>>
      BY <2>13 DEF WriterStep, Writer, WriteReplay, EndSave, RunAgain, ResultReady
    <3> QED
      BY <2>0, <3>1, <3>2 DEF PathTypeOK, BufferTypeOK, EncoderInv
  <2>14. CASE UNCHANGED vars
    BY <2>14 DEF vars, replayVars, PathTypeOK, BufferTypeOK, EncoderInv
  <2>15. CASE RecoverFails
    <3>1. video' \in Thread /\ video'.pc = "idle" /\ ~video'.recovering
      BY <2>0, <2>15 DEF RecoverFails, NextFrame, Thread
    <3>2. /\ faults' = faults + 1 /\ faults' \in 0..MaxFaults
          /\ UNCHANGED <<state, store, feed, writer, future, encoder, stream, ipc>>
      BY <2>0, <2>15 DEF RecoverFails, Fault
    <3> QED
      BY <2>0, <3>1, <3>2 DEF PathTypeOK, BufferTypeOK, EncoderInv
  <2> QED
    BY <2>1, <2>2, <2>3, <2>4, <2>5, <2>6, <2>7, <2>8, <2>9, <2>10, <2>11, <2>12, <2>13, <2>14,
       <2>15
       DEF PathNext, Video, SaveSteps
<1> QED
  BY <1>1, <1>2, PTL DEF PathSpec

-----------------------------------------------------------------------------
(* No hole *)

\* What holds of the store, of the samples that were missed and of state_ goes over a step.
LEMMA WholeStep ==
  ASSUME PathTypeOK, WholeInv, [PathNext]_vars
  PROVE  WholeInv'
<1>0. ipc \in Command /\ writer \in Saving /\ feed \in Feeding
  BY DEF PathTypeOK, BufferTypeOK
<1>1. ASSUME NEW size \in Sizes, PopFrame(size) PROVE WholeInv'
  <2>1. ipc'.pc = ipc.pc
    BY <1>0, <1>1, DisturbType DEF PopFrame
  <2> QED
    BY <1>1, <2>1 DEF PopFrame, WholeInv, replayVars
<1>2. CASE ResetBuffer \/ ClearStore
  <2>1. ~store'.key /\ ~store'.hole /\ writer' = writer
    BY <1>2 DEF ResetBuffer, ClearStore, Empty
  <2> QED
    BY <2>1 DEF WholeInv
<1>3. CASE Feed
  <2>0. UNCHANGED <<writer, ipc>>
    BY <1>3 DEF Feed, FirstLoad, SecondLoad, Ignore, AppendFails, AppendSample
  <2>1. CASE FirstLoad \/ SecondLoad
    <3>1. feed'.missed = feed.missed /\ UNCHANGED <<store, state>>
      BY <1>0, <2>1 DEF FirstLoad, SecondLoad, Feeding
    <3> QED
      BY <2>0, <3>1 DEF WholeInv
  <2>2. CASE Ignore
    <3>1. /\ feed'.missed <=> feed.missed \/ state \in {"stopped", "starting"}
          /\ UNCHANGED <<store, state>>
      BY <2>2 DEF Ignore
    <3> QED
      BY <2>0, <3>1 DEF WholeInv
  <2>3. CASE AppendFails
    BY <2>0, <2>3 DEF AppendFails, WholeInv
  <2>4. ASSUME NEW sizes, NEW foreign,
               AppendSample(sizes, state \notin {"running", "saving"} \/ ipc.pc = "stopped",
                            foreign)
        PROVE  WholeInv'
    <3>1. ~feed'.missed /\ state' = state
      BY <2>4 DEF AppendSample
    <3> DEFINE late == state \notin {"running", "saving"} \/ ipc.pc = "stopped"
    <3>2. ~store'.hole /\ store'.late = late
      <4>1. CASE store.key
        <5> DEFINE hole == store.hole \/ (feed.missed /\ ~store.late)
                   other == store.foreign \/ foreign
        <5>1. store' = [key |-> TRUE, sizes |-> store.sizes \cup sizes, hole |-> hole,
                        late |-> late, foreign |-> other]
          BY <2>4, <4>1 DEF AppendSample
        <5>2. ~hole
          BY <4>1 DEF WholeInv
        <5> HIDE DEF hole, late, other
        <5> QED
          BY <5>1, <5>2
      <4>2. CASE ~store.key
        <5>1. late \in BOOLEAN
          OBVIOUS
        <5>2. AppendSample(sizes, late, foreign)
          BY <2>4
        <5> HIDE DEF late
        <5> QED
          BY <4>2, <5>1, <5>2 DEF AppendSample, Empty
      <4> QED
        BY <4>1, <4>2
    <3> QED
      BY <2>0, <3>1, <3>2 DEF WholeInv
  <2> QED
    BY <1>3, <2>1, <2>2, <2>3, <2>4 DEF Feed
<1>4. CASE Drained \/ Encode \/ Recover
  BY <1>4 DEF Drained, Encode, Recover, WholeInv, replayVars
<1>5. CASE Publish
  <2>1. store \in Content
    BY DEF PathTypeOK, BufferTypeOK
  <2>2. store'.key = store.key /\ store'.hole = store.hole /\ store'.late = store.late
    BY <1>5, <2>1 DEF Publish, Content
  <2> QED
    BY <1>5, <2>2 DEF Publish, WholeInv
<1>6. CASE EncodeFails
  <2>1. ipc'.pc = ipc.pc
    BY <1>0, <1>6, DisturbType DEF EncodeFails
  <2> QED
    BY <1>6, <2>1 DEF EncodeFails, WholeInv
<1>7. CASE ReplayStart
  BY <1>7 DEF ReplayStart, WholeInv
<1>8. CASE Started \/ MarkSaving
  <2>1. ipc'.pc # "stopped" /\ state' \in {"running", "saving"}
    BY <1>0, <1>8 DEF Started, MarkSaving, IpcGoto, Command
  <2> QED
    BY <1>8, <2>1 DEF Started, MarkSaving, WholeInv
<1>9. CASE Stopped
  <2>1. ipc.pc = "stopped" /\ UNCHANGED <<store, feed, writer>>
    BY <1>9 DEF Stopped
  <2> QED
    BY <2>1 DEF WholeInv
<1>10. CASE ReplayStop \/ ReplaySave \/ SaveReady \/ LockSave
  <2>1. ipc'.pc # "stopped"
    BY <1>0, <1>10 DEF ReplayStop, ReplaySave, SaveReady, LockSave, IpcGoto, NoReply, Command
  <2>2. UNCHANGED <<state, store, feed, writer>>
    BY <1>10 DEF ReplayStop, ReplaySave, SaveReady, LockSave, replayVars
  <2> QED
    BY <2>1, <2>2 DEF WholeInv
<1>11. CASE Snapshot
  <2>1. store \in Content
    BY DEF PathTypeOK, BufferTypeOK
  <2>2. ~writer'.taken.hole
    BY <1>11, <2>1 DEF Snapshot, WholeInv, Content
  <2>3. ipc'.pc # "stopped"
    BY <1>11 DEF Snapshot, NoReply
  <2> QED
    BY <1>11, <2>2, <2>3 DEF Snapshot, WholeInv
<1>12. CASE Collect
  BY <1>12 DEF Collect, WholeInv
<1>13. CASE WriterStep
  <2>1. /\ UNCHANGED <<store, feed, ipc>> /\ state' \in {state, "running"}
        /\ writer'.taken \in {writer.taken, Empty}
    BY <1>0, <1>13
       DEF WriterStep, Writer, WriteReplay, EndSave, RunAgain, ResultReady, Saving
  <2> QED
    BY <2>1 DEF WholeInv, Empty
<1>14. CASE UNCHANGED vars
  BY <1>14 DEF vars, replayVars, WholeInv
<1>15. CASE RecoverFails
  BY <1>15 DEF RecoverFails, WholeInv
<1> QED
  BY <1>1, <1>2, <1>3, <1>4, <1>5, <1>6, <1>7, <1>8, <1>9, <1>10, <1>11, <1>12, <1>13, <1>14,
     <1>15
     DEF PathNext, Video, SaveSteps

\* Nothing is missing inside a replay: stopping, starting, resetting and saving leave no
\* hole (ReplayBuffer.cpp:14-23, 29-30).
THEOREM ReplaysAreWhole == PathSpec => []ReplayWhole
<1>1. PathInit => WholeInv
  BY DEF PathInit, BufferInit, WholeInv, Empty
<1>2. PathTypeOK /\ WholeInv /\ [PathNext]_vars => WholeInv'
  BY WholeStep
<1>3. WholeInv => ReplayWhole
  BY DEF WholeInv, ReplayWhole
<1> QED
  BY <1>1, <1>2, <1>3, ReplayTypeCorrect, PTL DEF PathSpec

-----------------------------------------------------------------------------
(* state_ *)

\* What the threads in charge of state_ rely on, as long as nothing fails.
LEMMA LifeStep ==
  ASSUME PathTypeOK, LifeInv, [PathNext]_vars
  PROVE  /\ LifeInv'
         /\ state = "stopped" /\ state' # "stopped" => ipc'.pc = "starting" \/ faults' > 0
<1> DEFINE Calm == /\ LifeInv'
                   /\ state = "stopped" /\ state' # "stopped" =>
                        ipc'.pc = "starting" \/ faults' > 0
<1> SUFFICES Calm
  OBVIOUS
<1>0. ipc \in Command /\ writer \in Saving /\ faults \in Nat
  BY ReplayAssumption DEF PathTypeOK, BufferTypeOK
<1>1. CASE UNCHANGED <<state, writer, faults>> /\ ipc'.pc = ipc.pc
  BY <1>1 DEF LifeInv
<1>2. CASE faults' > 0
  BY <1>0, <1>2 DEF LifeInv
<1>3. CASE (\E size \in Sizes : PopFrame(size)) \/ EncodeFails \/ RecoverFails
  <2>1. ipc'.pc = ipc.pc
    BY <1>0, <1>3, DisturbType DEF PopFrame, EncodeFails, RecoverFails
  <2>2. UNCHANGED <<state, writer>> /\ (faults' = faults \/ faults' = faults + 1)
    BY <1>3 DEF PopFrame, EncodeFails, RecoverFails, Fault, replayVars
  <2> QED
    BY <1>0, <1>1, <1>2, <2>1, <2>2
<1>4. CASE Video
  <2>1. UNCHANGED ipc
    BY <1>4 DEF Video, ResetBuffer, Feed, Drained, Encode, Publish, Recover
  <2>2. UNCHANGED <<state, writer, faults>> \/ faults' = faults + 1
    BY <1>4 DEF Video, ResetBuffer, Feed, Drained, Encode, Publish, Recover, FirstLoad,
                SecondLoad, Ignore, AppendFails, AppendSample, Fault, replayVars
  <2> QED
    BY <1>0, <1>1, <1>2, <2>1, <2>2
<1>5. CASE ReplayStart \/ Started \/ ReplayStop \/ ClearStore \/ Stopped
  <2>1. ipc' \in Command /\ UNCHANGED <<writer, faults>>
    BY <1>0, <1>5 DEF ReplayStart, Started, ReplayStop, ClearStore, Stopped, IpcGoto, Command,
                      replayVars
  <2>2. CASE ReplayStart
    BY <1>0, <2>1, <2>2 DEF ReplayStart, IpcGoto, Command, LifeInv
  <2>3. CASE Started
    BY <1>0, <2>1, <2>3 DEF Started, IpcGoto, Command, LifeInv
  <2>4. CASE ReplayStop \/ ClearStore
    BY <1>0, <2>1, <2>4 DEF ReplayStop, ClearStore, IpcGoto, Command, LifeInv, replayVars
  <2>5. CASE Stopped
    BY <1>0, <2>1, <2>5 DEF Stopped, IpcGoto, Command, LifeInv
  <2> QED
    BY <1>5, <2>2, <2>3, <2>4, <2>5
<1>6. CASE ReplaySave \/ SaveSteps
  <2>1. UNCHANGED faults
    BY <1>6 DEF ReplaySave, SaveSteps, SaveReady, LockSave, MarkSaving, Snapshot, replayVars
  <2>2. CASE ReplaySave \/ SaveReady
    BY <1>0, <2>1, <2>2 DEF ReplaySave, SaveReady, IpcGoto, NoReply, Command, LifeInv, replayVars
  <2>3. CASE LockSave
    <3>1. /\ UNCHANGED <<state, writer>>
          /\ \/ ipc'.pc = "idle"
             \/ ipc'.pc = "mark" /\ state = "running"
      <4>1. UNCHANGED <<state, writer>>
        BY <2>3 DEF LockSave
      <4>2. \/ ipc' = NoReply
            \/ ipc' = [ipc EXCEPT !.pc = "mark"] /\ state = "running"
        BY <2>3 DEF LockSave
      <4> QED
        BY <1>0, <4>1, <4>2 DEF NoReply, Command
    <3> QED
      BY <2>1, <3>1 DEF LifeInv
  <2>4. CASE MarkSaving
    <3>1. UNCHANGED writer /\ ipc.pc = "mark" /\ state' = "saving" /\ ipc'.pc = "snapshot"
      BY <1>0, <2>4 DEF MarkSaving, IpcGoto, Command
    <3>2. writer.pc \in {"idle", "write", "end", "run", "done"}
      BY <1>0 DEF Saving
    <3> QED
      BY <1>0, <1>2, <2>1, <3>1, <3>2 DEF LifeInv
  <2>5. CASE Snapshot
    <3>1. UNCHANGED state /\ ipc.pc = "snapshot" /\ ipc'.pc = "idle"
      BY <2>5 DEF Snapshot, NoReply
    <3> QED
      BY <2>1, <3>1 DEF LifeInv
  <2> QED
    BY <1>6, <2>2, <2>3, <2>4, <2>5 DEF SaveSteps
<1>7. CASE Collect
  BY <1>1, <1>7 DEF Collect
<1>8. CASE WriterStep
  <2>1. UNCHANGED <<ipc, faults>>
    BY <1>8 DEF WriterStep, Writer, WriteReplay, EndSave, RunAgain, ResultReady
  <2>2. CASE WriteReplay \/ EndSave \/ ResultReady
    <3>1. /\ UNCHANGED state
          /\ \/ writer.pc \in {"write", "end"} /\ writer'.pc \in {"end", "run", "done"}
             \/ writer'.pc = "idle"
      BY <1>0, <2>2 DEF WriteReplay, EndSave, ResultReady, Saving
    <3> QED
      BY <2>1, <3>1 DEF LifeInv
  <2>3. CASE RunAgain
    <3>1. writer.pc = "run" /\ writer'.pc = "done" /\ state' = "running"
      BY <1>0, <2>3 DEF RunAgain, Saving
    <3> QED
      BY <1>0, <1>2, <2>1, <3>1 DEF LifeInv
  <2> QED
    BY <1>8, <2>2, <2>3 DEF WriterStep, Writer
<1>9. CASE UNCHANGED vars
  BY <1>1, <1>9 DEF vars, replayVars
<1> QED
  BY <1>3, <1>4, <1>5, <1>6, <1>7, <1>8, <1>9 DEF PathNext

\* Without an error a stopped buffer stays stopped until replay_start, whatever save was
\* under way (ReplayBuffer.cpp:14-18, 43).
THEOREM StoppedBufferStaysStopped == PathSpec => StoppedHolds
<1>1. PathInit => LifeInv
  BY DEF PathInit, BufferInit, LifeInv
<1>2. PathTypeOK /\ LifeInv /\ [PathNext]_vars => LifeInv'
  BY LifeStep
<1>3. PathTypeOK /\ LifeInv /\ [PathNext]_vars =>
        [state = "stopped" /\ state' # "stopped" => ipc'.pc = "starting" \/ faults' > 0]_vars
  BY LifeStep
<1> QED
  BY <1>1, <1>2, <1>3, ReplayTypeCorrect, PTL DEF PathSpec, StoppedHolds

-----------------------------------------------------------------------------
(* One size *)

\* A sample that goes to the store has the size of the encoder, when a change of size does
\* not drain it, and is foreign when that is not the published size.
LEMMA FeedSizes ==
  ASSUME PathTypeOK, EncoderInv, SizesInv, Feed
  PROVE  SizesInv'
<1>1. UNCHANGED <<video, stream>> /\ video.pc \in {"drain", "emit"}
  BY DEF Feed
<1>2. CASE UNCHANGED store
  BY <1>1, <1>2 DEF SizesInv
<1> DEFINE sizes == IF video.pc = "drain" /\ ~video.recovering THEN {} ELSE {encoder.size}
           late == state \notin {"running", "saving"} \/ ipc.pc = "stopped"
           foreign == ~(video.pc = "drain" /\ ~video.recovering) /\ stream # encoder.size
<1>3. CASE AppendSample(sizes, late, foreign)
  <2>2. CASE ~video.recovering /\ video.pc = "drain"
    <3>1. sizes = {} /\ ~foreign
      BY <2>2
    <3>2. CASE store.key
      <4> DEFINE hole == store.hole \/ (feed.missed /\ ~store.late)
                 other == store.foreign \/ foreign
      <4>1. store' = [key |-> TRUE, sizes |-> store.sizes \cup sizes, hole |-> hole,
                      late |-> late, foreign |-> other]
        BY <1>3, <3>2 DEF AppendSample
      <4>2. other <=> store.foreign
        BY <3>1
      <4> HIDE DEF sizes, late, foreign, hole, other
      <4>3. store'.sizes = store.sizes /\ (store'.foreign <=> store.foreign)
        BY <3>1, <4>1, <4>2
      <4> QED
        BY <1>1, <2>2, <4>3 DEF SizesInv
    <3>3. CASE ~store.key
      <4> HIDE DEF sizes, late, foreign
      <4>1. store'.sizes = {}
        BY <1>3, <3>1, <3>3 DEF AppendSample, Empty
      <4> QED
        BY <1>1, <2>2, <4>1 DEF SizesInv
    <3> QED
      BY <3>2, <3>3
  <2>3. CASE video.recovering \/ video.pc = "emit"
    <3>1. /\ sizes = {encoder.size} /\ (foreign <=> stream # encoder.size)
          /\ video.pc # "device" /\ (video.recovering \/ encoder.size = video.size)
      BY <1>1, <2>3 DEF EncoderInv
    <3>2. CASE store.key
      <4> DEFINE hole == store.hole \/ (feed.missed /\ ~store.late)
                 other == store.foreign \/ foreign
      <4>1. store' = [key |-> TRUE, sizes |-> store.sizes \cup sizes, hole |-> hole,
                      late |-> late, foreign |-> other]
        BY <1>3, <3>2 DEF AppendSample
      <4>2. other <=> store.foreign \/ stream # encoder.size
        BY <3>1
      <4> HIDE DEF sizes, late, foreign, hole, other
      <4>3. /\ store'.sizes = store.sizes \cup {encoder.size}
            /\ store'.foreign <=> store.foreign \/ stream # encoder.size
        BY <3>1, <4>1, <4>2
      <4> QED
        BY <1>1, <3>1, <4>3 DEF SizesInv
    <3>3. CASE ~store.key
      <4>1. foreign \in BOOLEAN
        OBVIOUS
      <4> HIDE DEF sizes, late, foreign
      <4>2. \/ store'.sizes = {encoder.size} /\ (store'.foreign <=> stream # encoder.size)
            \/ store'.sizes = {}
        BY <1>3, <3>1, <3>3, <4>1 DEF AppendSample, Empty
      <4> QED
        BY <1>1, <3>1, <4>2 DEF SizesInv
    <3> QED
      BY <3>2, <3>3
  <2> QED
    BY <1>1, <2>2, <2>3
<1> QED
  BY <1>2, <1>3 DEF Feed, FirstLoad, SecondLoad, Ignore, AppendFails

\* The published size and those of the store go together over every step.
LEMMA SizesStep ==
  ASSUME PathTypeOK, EncoderInv, SizesInv, [PathNext]_vars
  PROVE  SizesInv'
<1>0. /\ video \in Thread /\ store \in Content /\ store.sizes \subseteq Sizes
      /\ 0 \notin Sizes /\ stream \in Size
  BY ReplayAssumption DEF PathTypeOK, BufferTypeOK, Content
<1>1. ASSUME NEW size \in Sizes, PopFrame(size) PROVE SizesInv'
  <2>1. UNCHANGED <<store, stream>> /\ video.pc = "idle" /\ ~video.recovering
    BY <1>1 DEF PopFrame, EncoderInv, replayVars
  <2>2. /\ video'.size = size /\ ~video'.recovering
        /\ \/ video'.pc = "encode" /\ stream \in {0, size}
           \/ video'.pc = "reset"
    BY <1>0, <1>1, <2>1 DEF PopFrame, Thread
  <2> QED
    BY <1>0, <2>1, <2>2 DEF SizesInv
<1>2. CASE ResetBuffer
  <2>1. store'.sizes = {}
    BY <1>2 DEF ResetBuffer, Empty
  <2> QED
    BY <2>1 DEF SizesInv
<1>3. CASE Feed
  BY <1>3, FeedSizes
<1>4. CASE Drained
  <2>1. /\ UNCHANGED <<store, stream>> /\ video.pc = "drain" /\ video'.size = video.size
        /\ video'.recovering = video.recovering /\ video'.pc \in {"reset", "encode"}
    BY <1>0, <1>4 DEF Drained, Goto, Thread, replayVars
  <2> QED
    BY <2>1 DEF SizesInv
<1>5. CASE Encode
  <2>1. /\ UNCHANGED <<store, stream>> /\ video.pc = "encode" /\ video'.size = video.size
        /\ video'.recovering = video.recovering /\ video'.pc = "emit"
    BY <1>0, <1>5 DEF Encode, Goto, Thread, replayVars
  <2> QED
    BY <2>1 DEF SizesInv
<1>6. CASE Publish
  <2>1. /\ video.pc = "emit" /\ ~video.recovering /\ encoder.size = video.size
        /\ video'.pc = "idle" /\ stream' = video.size
    BY <1>6 DEF Publish, NextFrame, EncoderInv
  <2> DEFINE other == store.foreign /\ store.sizes # {encoder.size}
  <2>2. store' = [store EXCEPT !.foreign = other]
    BY <1>6 DEF Publish
  <2>3. other <=> store.foreign /\ store.sizes # {video.size}
    BY <2>1
  <2> HIDE DEF other
  <2>4. store'.sizes = store.sizes /\ (store'.foreign <=> other)
    BY <1>0, <2>2 DEF Content
  <2> QED
    BY <2>1, <2>3, <2>4 DEF SizesInv
<1>7. CASE EncodeFails \/ RecoverFails
  <2>1. /\ UNCHANGED <<store, stream>>
        /\ \/ video'.pc = "idle"
           \/ video'.recovering /\ video'.pc = "drain"
    <3>1. CASE NextFrame
      BY <1>7, <3>1 DEF EncodeFails, RecoverFails, NextFrame
    <3>2. CASE video' = [video EXCEPT !.pc = "drain", !.recovering = TRUE]
      BY <1>0, <1>7, <3>2 DEF EncodeFails, RecoverFails, Thread
    <3> QED
      BY <1>7, <3>1, <3>2 DEF EncodeFails, RecoverFails
  <2> QED
    BY <2>1 DEF SizesInv
<1>8. CASE Recover
  <2>1. UNCHANGED store /\ video.pc = "device" /\ video'.pc = "idle"
    BY <1>8 DEF Recover, NextFrame, replayVars
  <2> QED
    BY <2>1 DEF SizesInv
<1>9. CASE ClearStore
  <2>1. store'.sizes = {}
    BY <1>9 DEF ClearStore, Empty
  <2> QED
    BY <2>1 DEF SizesInv
<1>10. CASE UNCHANGED <<store, stream, video>>
  BY <1>10 DEF SizesInv
<1> QED
  BY <1>1, <1>2, <1>3, <1>4, <1>5, <1>6, <1>7, <1>8, <1>9, <1>10
     DEF PathNext, Video, SaveSteps, ReplayStart, Started, ReplayStop, Stopped, ReplaySave,
         SaveReady, LockSave, MarkSaving, Snapshot, Collect, WriterStep, Writer, WriteReplay,
         EndSave, RunAgain, ResultReady, vars, replayVars

\* The size of a calm command that is being served stays that of the frames, and goes with
\* them to the thread that writes.
LEMMA OrderStep ==
  ASSUME PathTypeOK, EncoderInv, SizesInv, OrderInv, [PathNext]_vars
  PROVE  OrderInv'
<1>0. /\ video \in Thread /\ ipc \in Command /\ writer \in Saving /\ store \in Content
  BY DEF PathTypeOK, BufferTypeOK
<1>1. CASE /\ UNCHANGED <<writer, ipc, stream>>
           /\ \/ video' = video
              \/ video'.pc = "idle" /\ ~video'.recovering
  BY <1>1 DEF OrderInv, ReplayOneSize
<1>2. ASSUME ~ipc'.order.calm, UNCHANGED writer PROVE OrderInv'
  BY <1>2 DEF OrderInv, ReplayOneSize
<1>3. ASSUME NEW size \in Sizes, PopFrame(size) PROVE OrderInv'
  <2>1. CASE stream \in {0, size}
    <3>1. /\ UNCHANGED <<writer, stream, ipc>> /\ video'.size = size
          /\ video'.recovering = video.recovering
      BY <1>0, <1>3, <2>1 DEF PopFrame, Thread, replayVars
    <3> QED
      BY <2>1, <3>1 DEF OrderInv, ReplayOneSize
  <2>2. CASE stream \notin {0, size}
    <3>1. Disturb /\ UNCHANGED writer
      BY <1>3, <2>2 DEF PopFrame, replayVars
    <3> QED
      BY <1>0, <1>2, <3>1, DisturbType
  <2> QED
    BY <2>1, <2>2
<1>4. CASE ResetBuffer \/ Drained \/ Encode
  <2>1. /\ UNCHANGED <<writer, ipc, stream>> /\ video'.size = video.size
        /\ video'.recovering = video.recovering /\ video.pc # "idle"
    BY <1>0, <1>4 DEF ResetBuffer, Drained, Encode, Goto, Thread, replayVars
  <2> QED
    BY <2>1 DEF OrderInv, ReplayOneSize
<1>5. CASE Feed
  BY <1>1, <1>5, FeedType
<1>6. CASE Publish
  <2>1. /\ UNCHANGED <<writer, ipc>> /\ video.pc = "emit" /\ stream' = video.size
        /\ video'.pc = "idle" /\ ~video'.recovering
    BY <1>6 DEF Publish, NextFrame, EncoderInv
  <2> QED
    BY <2>1 DEF OrderInv, ReplayOneSize
<1>7. CASE EncodeFails
  <2>1. UNCHANGED <<writer, stream>> /\ video.pc # "idle"
    BY <1>7 DEF EncodeFails
  <2>2. CASE NextFrame /\ UNCHANGED ipc
    <3>1. video'.pc = "idle" /\ ~video'.recovering
      BY <2>2 DEF NextFrame
    <3> QED
      BY <1>1, <2>1, <2>2, <3>1
  <2>3. CASE Disturb
    BY <1>0, <1>2, <2>1, <2>3, DisturbType
  <2> QED
    BY <1>7, <2>2, <2>3 DEF EncodeFails
<1>8. CASE Recover
  <2>1. UNCHANGED <<writer, ipc>> /\ video.recovering
    BY <1>8 DEF Recover, EncoderInv, replayVars
  <2> QED
    BY <2>1 DEF OrderInv, ReplayOneSize
<1>9. CASE ReplayStart \/ Started \/ ReplayStop \/ ClearStore \/ Stopped
  <2>1. /\ UNCHANGED <<writer, stream, video>>
        /\ ipc'.pc \notin {"ready", "lock", "mark", "snapshot"}
    BY <1>0, <1>9 DEF ReplayStart, Started, ReplayStop, ClearStore, Stopped, IpcGoto, Command,
                      replayVars
  <2> QED
    BY <2>1 DEF OrderInv, ReplayOneSize
<1>10. CASE ReplaySave
  <2> DEFINE calm == /\ stream # 0 /\ ~video.recovering
                     /\ video.pc = "idle" \/ video.size = stream
  <2>1. /\ UNCHANGED <<writer, stream, video>>
        /\ ipc'.order.size = stream /\ (ipc'.order.calm <=> calm)
    BY <1>10 DEF ReplaySave, replayVars
  <2> QED
    BY <2>1 DEF OrderInv, ReplayOneSize
<1>11. CASE SaveReady \/ LockSave \/ MarkSaving
  <2>1. UNCHANGED <<writer, stream, video>>
    BY <1>11 DEF SaveReady, LockSave, MarkSaving, replayVars
  <2>2. \/ ipc' = NoReply
        \/ /\ ipc.pc \in {"ready", "lock", "mark"}
           /\ \E pc \in {"lock", "mark", "snapshot"} : ipc' = [ipc EXCEPT !.pc = pc]
    BY <1>11 DEF SaveReady, LockSave, MarkSaving, IpcGoto
  <2>3. CASE ipc' = NoReply
    BY <2>1, <2>3 DEF OrderInv, ReplayOneSize, NoReply
  <2>4. CASE ipc.pc \in {"ready", "lock", "mark"} /\ ipc'.order = ipc.order
    BY <2>1, <2>4 DEF OrderInv, ReplayOneSize
  <2> QED
    BY <1>0, <2>2, <2>3, <2>4 DEF Command
<1>12. CASE Snapshot
  <2>1. /\ ipc.pc = "snapshot" /\ ipc'.pc = "idle" /\ writer'.order = ipc.order
        /\ writer'.taken.sizes = store.sizes /\ writer'.taken.foreign = store.foreign
    BY <1>0, <1>12 DEF Snapshot, NoReply, Content
  <2> QED
    BY <2>1 DEF OrderInv, SizesInv, ReplayOneSize
<1>13. CASE Collect
  BY <1>1, <1>13 DEF Collect
<1>14. CASE WriterStep
  <2>1. UNCHANGED <<ipc, stream, video>>
    BY <1>14 DEF WriterStep
  <2>2. \/ writer'.order = NoOrder
        \/ writer'.order = writer.order /\ writer'.taken = writer.taken
    BY <1>0, <1>14 DEF WriterStep, Writer, WriteReplay, EndSave, RunAgain, ResultReady, Saving
  <2> QED
    BY <2>1, <2>2 DEF OrderInv, ReplayOneSize, NoOrder
<1>15. CASE UNCHANGED vars
  BY <1>1, <1>15 DEF vars, replayVars
<1>16. CASE RecoverFails
  <2>1. video'.pc = "idle" /\ ~video'.recovering
    BY <1>16 DEF RecoverFails, NextFrame
  <2> QED
    BY <1>1, <1>16, <2>1 DEF RecoverFails
<1> QED
  BY <1>3, <1>4, <1>5, <1>6, <1>7, <1>8, <1>9, <1>10, <1>11, <1>12, <1>13, <1>14, <1>15,
     <1>16
     DEF PathNext, Video, SaveSteps

\* A replay of a calm command holds frames of its declared size, but for frames that
\* encoder_->stop() puts out after the buffer was reset, and for a frame of a size that
\* failed before it was published (Application.cpp:41-50, 66-73, 140-141).
THEOREM ReplaysHaveOneSize == PathSpec => []ReplayOneSize
<1>1. PathInit => SizesInv /\ OrderInv
  BY DEF PathInit, BufferInit, SizesInv, OrderInv, ReplayOneSize, Empty, NoOrder
<1>2. PathTypeOK /\ EncoderInv /\ SizesInv /\ OrderInv /\ [PathNext]_vars =>
        SizesInv' /\ OrderInv'
  BY SizesStep, OrderStep
<1>3. OrderInv => ReplayOneSize
  BY DEF OrderInv
<1> QED
  BY <1>1, <1>2, <1>3, ReplayTypeCorrect, PTL DEF PathSpec

-----------------------------------------------------------------------------
(* The ring buffer: SegmentStore *)

\* No segment is empty.
ShapeInv ==
  /\ active.samples = {} => active = NoSegment
  /\ \A i \in DOMAIN sealed : sealed[i].samples # {}

\* Only what is older than the retention is evicted.
RecentInv == \A s \in recorded \ Stored : \E r \in recorded : s.pts < r.pts - Retention

\* A segment was closed by a save, or by a keyframe that comes between its frames and those
\* that are stored after it.
ClosedInv ==
  \A i \in DOMAIN sealed :
    \/ LastPts(sealed[i]) \in cuts
    \/ \E k \in recorded :
         /\ k.kind = "key"
         /\ \A x \in sealed[i].samples : x.kind # "audio" => x.pts < k.pts
         /\ \A j \in DOMAIN sealed : j > i =>
              \A x \in sealed[j].samples : x.kind # "audio" => x.pts >= k.pts
         /\ \A x \in active.samples : x.kind # "audio" => x.pts >= k.pts

\* A keyframe that was evicted is followed by a save that is older than the retention too,
\* or by a keyframe not after any frame that is stored.
GoneInv ==
  \A k \in recorded \ Stored : k.kind = "key" =>
    \/ \E c \in cuts, r \in recorded : k.pts < c /\ c <= r.pts - Retention
    \/ \E next \in recorded :
         /\ next.kind = "key" /\ next.pts > k.pts
         /\ \A x \in Stored : x.kind # "audio" => x.pts >= next.pts

\* The oldest segment ends within the retention.
OldestInv ==
  \A r \in recorded :
    /\ sealed # <<>> => r.pts + 1 <= LastPts(sealed[1]) + Retention
    /\ sealed = <<>> /\ active.samples # {} => r.pts + 1 <= LastPts(active) + Retention

\* A segment has keyframes near its beginning and its end, and nowhere else.
ApartInv ==
  \A k \in recorded : k.kind = "key" =>
    /\ \A x \in active.samples : k.pts <= x.pts + SegmentLength
    /\ \A i \in DOMAIN sealed : k.pts >= LastPts(sealed[i]) - 2 \/
         /\ \A j \in DOMAIN sealed : j >= i =>
              \A x \in sealed[j].samples : k.pts <= x.pts + SegmentLength
         /\ \A x \in active.samples : k.pts <= x.pts + SegmentLength

\* No sample of the active segment is more than a unit before its beginning.
FirstInv ==
  active.samples # {} =>
    /\ \E r \in recorded : r.pts = active.first
    /\ \A x \in active.samples : active.first <= x.pts + 1

StoreInv ==
  /\ TypeOK /\ ShapeInv /\ RecentInv /\ ClosedInv /\ GoneInv /\ OldestInv /\ ApartInv /\ FirstInv

-----------------------------------------------------------------------------
(* The largest and the smallest of a set of numbers, and what is defined by them *)

\* A set of natural numbers has a least element.
LEMMA LeastNatural ==
  ASSUME NEW T \in SUBSET Nat, T # {}
  PROVE  \E x \in T : \A y \in T : x <= y
<1>1. SUFFICES ASSUME NEW Less, Less = {pair \in Nat \X Nat : pair[1] < pair[2]},
                      IsWellFoundedOn(Less, Nat)
               PROVE  \E x \in T : \A y \in T : x <= y
  <2>1. OpToRel(<, Nat) = {pair \in Nat \X Nat : pair[1] < pair[2]}
    BY DEF OpToRel
  <2> QED
    BY <2>1, <1>1, NatLessThanWellFounded
<1>2. PICK x \in T : \A y \in T : ~(<<y, x>> \in Less)
  BY <1>1, WFMin
<1>3. \A y \in T : ~(y < x)
  BY <1>1, <1>2
<1> QED
  BY <1>3

\* Min of a set of integers that is bounded below is its least element.
LEMMA MinIsLeast ==
  ASSUME NEW S \in SUBSET Int, S # {}, NEW b \in Int, \A x \in S : b <= x
  PROVE  Min(S) \in S /\ \A x \in S : Min(S) <= x
<1> DEFINE Distances == {x - b : x \in S}
<1>1. \A x \in S : x - b \in Nat
  OBVIOUS
<1>2. Distances \in SUBSET Nat /\ Distances # {}
  BY <1>1, Zenon
<1>3. PICK m \in Distances : \A y \in Distances : m <= y
  <2> HIDE DEF Distances
  <2> QED BY <1>2, LeastNatural
<1>4. PICK x \in S : m = x - b
  OBVIOUS
<1>5. \A y \in S : x - b <= y - b
  BY <1>3, <1>4
<1>6. \A y \in S : x <= y
  BY <1>5
<1> QED
  BY <1>6, Zenon DEF Min

\* Max of a set of integers that is bounded above is its greatest element.
LEMMA MaxIsGreatest ==
  ASSUME NEW S \in SUBSET Int, S # {}, NEW b \in Int, \A x \in S : x <= b
  PROVE  Max(S) \in S /\ \A x \in S : x <= Max(S)
<1> DEFINE Distances == {b - x : x \in S}
<1>1. \A x \in S : b - x \in Nat
  OBVIOUS
<1>2. Distances \in SUBSET Nat /\ Distances # {}
  BY <1>1, Zenon
<1>3. PICK m \in Distances : \A y \in Distances : m <= y
  <2> HIDE DEF Distances
  <2> QED BY <1>2, LeastNatural
<1>4. PICK x \in S : m = b - x
  OBVIOUS
<1>5. \A y \in S : b - x <= b - y
  BY <1>3, <1>4
<1>6. \A y \in S : x >= y
  BY <1>5
<1>7. Max(S) \in S /\ \A y \in S : Max(S) >= y
  BY <1>6, Zenon DEF Max
<1> QED
  BY <1>7

\* What a sample is.
LEMMA SampleIs ==
  ASSUME NEW s \in Sample
  PROVE  s.pts \in 0..MaxPts /\ s.kind \in {"key", "delta", "audio"}
  BY DEF Sample, Pts

\* LastPts is the end of a last sample.
LEMMA LastPtsIs ==
  ASSUME NEW segment, segment.samples \subseteq Sample, segment.samples # {}
  PROVE  /\ LastPts(segment) \in 1..(MaxPts + 1)
         /\ \E s \in segment.samples : LastPts(segment) = s.pts + 1
         /\ \A s \in segment.samples : s.pts + 1 <= LastPts(segment)
<1> DEFINE Ends == {s.pts + 1 : s \in segment.samples}
<1>1. /\ Ends \subseteq 1..(MaxPts + 1) /\ Ends # {}
      /\ MaxPts + 1 \in Int /\ Ends \in SUBSET Int /\ \A x \in Ends : x <= MaxPts + 1
  BY SampleIs, StoreAssumption
<1>2. Max(Ends) \in Ends /\ \A x \in Ends : x <= Max(Ends)
  <2> HIDE DEF Ends
  <2> QED
    BY <1>1, MaxIsGreatest
<1> QED
  BY <1>1, <1>2 DEF LastPts

\* Newest is the time of a last sample.
LEMMA NewestIs ==
  ASSUME NEW samples \in SUBSET Sample, samples # {}
  PROVE  /\ Newest(samples) \in 0..MaxPts
         /\ \E s \in samples : Newest(samples) = s.pts
         /\ \A s \in samples : s.pts <= Newest(samples)
<1> DEFINE Times == {s.pts : s \in samples}
<1>1. /\ Times \subseteq 0..MaxPts /\ Times # {}
      /\ MaxPts \in Int /\ Times \in SUBSET Int /\ \A x \in Times : x <= MaxPts
  BY SampleIs, StoreAssumption
<1>2. Max(Times) \in Times /\ \A x \in Times : x <= Max(Times)
  <2> HIDE DEF Times
  <2> QED
    BY <1>1, MaxIsGreatest
<1> QED
  BY <1>1, <1>2 DEF Newest

-----------------------------------------------------------------------------
(* What a step does *)

\* The types of the parts.
LEMMA PartTypes ==
  ASSUME TypeOK
  PROVE  /\ active.samples \subseteq Sample /\ active.samples \subseteq recorded
         /\ active.first \in 0..MaxPts
         /\ \A i \in DOMAIN sealed : /\ sealed[i] \in Segment
                                     /\ sealed[i].samples \subseteq Sample
                                     /\ sealed[i].samples \subseteq recorded
<1>1. active \in Segment /\ \A i \in DOMAIN sealed : sealed[i] \in Segment
  BY ElementOfSeq, LenProperties DEF TypeOK
<1>2. active.samples \subseteq Stored /\ \A i \in DOMAIN sealed : sealed[i].samples \subseteq Stored
  BY DEF Stored
<1> QED
  BY <1>1, <1>2 DEF TypeOK, Segment, Pts

\* Eviction drops segments from the front, all of which are too old, up to one that is not.
LEMMA EvictDrops ==
  ASSUME NEW segments \in Seq(Segment), NEW newest \in Int,
         \A i \in DOMAIN segments : LastPts(segments[i]) \in Int
  PROVE  \E n \in 0..Len(segments) :
           /\ Evict(segments, newest) = SubSeq(segments, n + 1, Len(segments))
           /\ \A i \in 1..n : LastPts(segments[i]) < newest - Retention
           /\ n < Len(segments) => LastPts(segments[n + 1]) >= newest - Retention
<1> DEFINE Recent == {i \in DOMAIN segments : LastPts(segments[i]) >= newest - Retention}
<1>0. /\ DOMAIN segments = 1..Len(segments) /\ Len(segments) \in Nat
      /\ Retention \in Int
  BY LenProperties, StoreAssumption
<1>1. Evict(segments, newest) =
        IF Recent = {} THEN <<>> ELSE SubSeq(segments, Min(Recent), Len(segments))
  BY DEF Evict
<1>2. CASE Recent = {}
  <2>1. SubSeq(segments, Len(segments) + 1, Len(segments)) = <<>>
    BY <1>0
  <2>2. \A i \in 1..Len(segments) : LastPts(segments[i]) < newest - Retention
    BY <1>0, <1>2
  <2> QED
    BY <1>0, <1>1, <1>2, <2>1, <2>2
<1>3. CASE Recent # {}
  <2>1. Recent \in SUBSET Int /\ 1 \in Int /\ \A i \in Recent : 1 <= i
    BY <1>0
  <2>2. Min(Recent) \in Recent /\ Min(Recent) \in Int /\ \A i \in Recent : Min(Recent) <= i
    <3> HIDE DEF Recent
    <3> QED
      BY <1>3, <2>1, MinIsLeast
  <2> DEFINE n == Min(Recent) - 1
  <2>3. n \in 0..Len(segments) /\ n + 1 = Min(Recent) /\ n + 1 \in 1..Len(segments)
    BY <1>0, <2>2
  <2>4. ASSUME NEW i \in 1..n
        PROVE  LastPts(segments[i]) < newest - Retention
    <3>1. i \in DOMAIN segments /\ i \in Int /\ ~(Min(Recent) <= i)
      BY <1>0, <2>2, <2>3
    <3>2. i \notin Recent
      BY <2>2, <3>1, Zenon
    <3> QED
      BY <1>0, <3>1, <3>2
  <2>5. LastPts(segments[n + 1]) >= newest - Retention
    BY <2>2, <2>3
  <2> HIDE DEF n
  <2> QED
    BY <1>1, <1>3, <2>3, <2>4, <2>5
<1> QED
  BY <1>2, <1>3

\* The sample that is appended: no sample is more than a unit after it, and no frame is
\* after a frame.
LEMMA AppendedInOrder ==
  ASSUME TypeOK, NEW sample \in Sample, Appendable(sample)
  PROVE  /\ \A r \in recorded : r.pts <= sample.pts + 1
         /\ sample.kind # "audio" => \A r \in recorded : r.kind # "audio" => r.pts < sample.pts
<1>1. recorded \in SUBSET Sample
  BY DEF TypeOK
<1>2. \A r \in recorded : r.pts <= sample.pts + 1
  <2>1. CASE recorded = {}
    BY <2>1
  <2>2. CASE recorded # {}
    <3>1. sample.pts >= Newest(recorded) - 1
      BY <2>2 DEF Appendable
    <3> QED
      BY <1>1, <2>2, <3>1, NewestIs, SampleIs
  <2> QED
    BY <2>1, <2>2
<1>3. ASSUME sample.kind # "audio", NEW r \in recorded, r.kind # "audio"
      PROVE  r.pts < sample.pts
  <2>1. r.kind \in {"key", "delta"}
    BY <1>1, <1>3, SampleIs
  <2>2. r.pts \in TimesOf({"key", "delta"})
    BY <1>3, <2>1 DEF TimesOf
  <2> QED
    BY <1>3, <2>2 DEF Appendable
<1> QED
  BY <1>2, <1>3

\* How a sample is appended to the active segment, or begins one.
LEMMA ActiveStep ==
  ASSUME TypeOK, ShapeInv, NEW sample \in Sample, StoreAppend(sample)
  PROVE  /\ active' \in Segment /\ sample \in active'.samples
         /\ active'.samples \subseteq active.samples \cup {sample}
         /\ \/ active' = [first |-> sample.pts, samples |-> {sample}]
            \/ /\ active # NoSegment /\ ~StartsSegment(sample)
               /\ active'.first = active.first
               /\ active'.samples = active.samples \cup {sample}
         /\ StartsSegment(sample) => active'.samples = {sample} /\ active.samples # {}
<1>0. active \in Segment /\ active = [first |-> active.first, samples |-> active.samples]
  BY DEF TypeOK, Segment
<1>1. sample.pts \in Pts
  BY DEF Sample
<1>2. CASE active = NoSegment \/ StartsSegment(sample)
  <2>1. active' = [first |-> sample.pts, samples |-> {sample}]
    BY <1>2 DEF StoreAppend
  <2>2. active' \in Segment
    BY <1>1, <2>1 DEF Segment
  <2>3. StartsSegment(sample) => active.samples # {}
    BY DEF StartsSegment, ShapeInv
  <2> QED
    BY <2>1, <2>2, <2>3
<1>3. CASE ~(active = NoSegment \/ StartsSegment(sample))
  <2>1. active' = [active EXCEPT !.samples = @ \cup {sample}]
    BY <1>3 DEF StoreAppend
  <2>2. active' = [first |-> active.first, samples |-> active.samples \cup {sample}]
    BY <1>0, <2>1
  <2>3. active' \in Segment
    BY <1>0, <2>2 DEF Segment
  <2> QED
    BY <1>3, <2>2, <2>3
<1> QED
  BY <1>2, <1>3

\* The closed segments before the eviction that ends an append.
Closed(sample) == IF StartsSegment(sample) THEN Append(sealed, active) ELSE sealed

\* The segments that an append evicts from: those that were closed, and the active one when
\* the sample closes it.
LEMMA ClosedIs ==
  ASSUME TypeOK, ShapeInv, NEW sample \in Sample
  PROVE  /\ Closed(sample) \in Seq(Segment)
         /\ Len(Closed(sample)) \in Nat /\ Len(sealed) \in Nat
         /\ DOMAIN Closed(sample) = 1..Len(Closed(sample)) /\ DOMAIN sealed = 1..Len(sealed)
         /\ ~StartsSegment(sample) => Closed(sample) = sealed
         /\ StartsSegment(sample) =>
              Len(Closed(sample)) = Len(sealed) + 1 /\ Closed(sample)[Len(sealed) + 1] = active
         /\ \A i \in 1..Len(sealed) : Closed(sample)[i] = sealed[i] /\ i <= Len(Closed(sample))
         /\ \A i \in DOMAIN Closed(sample) :
              /\ Closed(sample)[i].samples # {}
              /\ Closed(sample)[i].samples \subseteq Sample
              /\ Closed(sample)[i].samples \subseteq recorded
<1>1. sealed \in Seq(Segment) /\ active \in Segment
  BY DEF TypeOK
<1>2. DOMAIN sealed = 1..Len(sealed) /\ Len(sealed) \in Nat
  BY <1>1, LenProperties
<1>3. CASE ~StartsSegment(sample)
  <2>1. Closed(sample) = sealed
    BY <1>3 DEF Closed
  <2>2. \A i \in 1..Len(sealed) : Closed(sample)[i] = sealed[i] /\ i <= Len(Closed(sample))
    BY <1>2, <2>1
  <2> QED
    BY <1>1, <1>2, <1>3, <2>1, <2>2, PartTypes DEF ShapeInv
<1>4. CASE StartsSegment(sample)
  <2>1. Closed(sample) = Append(sealed, active)
    BY <1>4 DEF Closed
  <2>2. /\ Closed(sample) \in Seq(Segment) /\ Len(Closed(sample)) = Len(sealed) + 1
        /\ Closed(sample)[Len(sealed) + 1] = active
        /\ \A i \in 1..Len(sealed) : Closed(sample)[i] = sealed[i]
    BY <1>1, <2>1, AppendProperties
  <2>3. DOMAIN Closed(sample) = 1..(Len(sealed) + 1)
    BY <1>2, <2>2, LenProperties
  <2>4. active.samples # {}
    BY <1>4 DEF StartsSegment, ShapeInv
  <2>5. ASSUME NEW i \in DOMAIN Closed(sample)
        PROVE  /\ Closed(sample)[i].samples # {}
               /\ Closed(sample)[i].samples \subseteq Sample
               /\ Closed(sample)[i].samples \subseteq recorded
    <3>1. i \in 1..Len(sealed) \/ i = Len(sealed) + 1
      BY <1>2, <2>3
    <3> QED
      BY <1>2, <2>2, <2>4, <3>1, PartTypes DEF ShapeInv
  <2> QED
    BY <1>2, <1>4, <2>2, <2>3, <2>5
<1> QED
  BY <1>3, <1>4

\* What is left of them after the eviction, which drops the first n.
Drops(sample, n) ==
  /\ n \in 0..Len(Closed(sample))
  /\ sealed' \in Seq(Segment)
  /\ DOMAIN sealed' = 1..(Len(Closed(sample)) - n)
  /\ \A i \in DOMAIN sealed' :
       n + i \in DOMAIN Closed(sample) /\ sealed'[i] = Closed(sample)[n + i]
  /\ \A i \in 1..n : LastPts(Closed(sample)[i]) < LastPts(active') - Retention
  /\ n < Len(Closed(sample)) => LastPts(Closed(sample)[n + 1]) >= LastPts(active') - Retention

\* An append drops a number of the oldest segments, each too old, and keeps the next one.
LEMMA AppendStep ==
  ASSUME TypeOK, ShapeInv, NEW sample \in Sample, StoreAppend(sample)
  PROVE  \E n \in 0..Len(Closed(sample)) : Drops(sample, n)
<1>1. LastPts(active') \in Int
  <2>1. active'.samples \subseteq Sample /\ active'.samples # {}
    BY ActiveStep DEF Segment
  <2> QED
    BY <2>1, LastPtsIs, StoreAssumption
<1>2. \A i \in DOMAIN Closed(sample) : LastPts(Closed(sample)[i]) \in Int
  BY ClosedIs, LastPtsIs, StoreAssumption
<1>3. Closed(sample) \in Seq(Segment)
  BY ClosedIs
<1>4. sealed' = Evict(Closed(sample), LastPts(active'))
  BY DEF StoreAppend, Closed
<1>5. PICK n \in 0..Len(Closed(sample)) :
        /\ Evict(Closed(sample), LastPts(active'))
             = SubSeq(Closed(sample), n + 1, Len(Closed(sample)))
        /\ \A i \in 1..n : LastPts(Closed(sample)[i]) < LastPts(active') - Retention
        /\ n < Len(Closed(sample)) =>
             LastPts(Closed(sample)[n + 1]) >= LastPts(active') - Retention
  BY <1>1, <1>2, <1>3, EvictDrops
<1>6. ASSUME NEW segments \in Seq(Segment), NEW m \in 0..Len(segments),
             NEW rest, rest = SubSeq(segments, m + 1, Len(segments))
      PROVE  /\ rest \in Seq(Segment) /\ DOMAIN rest = 1..(Len(segments) - m)
             /\ \A i \in DOMAIN rest : m + i \in DOMAIN segments /\ rest[i] = segments[m + i]
  <2> DEFINE l == Len(segments)
  <2>0. l \in Nat /\ DOMAIN segments = 1..l /\ m \in Int /\ m + 1 \in Int /\ l \in Int
    BY LenProperties
  <2>1. \A i \in (m + 1)..l : segments[i] \in Segment
    BY <2>0, ElementOfSeq
  <2>2. /\ SubSeq(segments, m + 1, l) \in Seq(Segment)
        /\ Len(SubSeq(segments, m + 1, l)) = IF m + 1 <= l THEN l - (m + 1) + 1 ELSE 0
        /\ \A i \in 1..(l - (m + 1) + 1) : SubSeq(segments, m + 1, l)[i] = segments[m + 1 + i - 1]
    <3> HIDE DEF l
    <3> QED
      BY <2>0, <2>1, SubSeqProperties
  <2>3. rest \in Seq(Segment) /\ Len(rest) = l - m
    <3>1. rest = SubSeq(segments, m + 1, l)
      BY <1>6
    <3>2. m \in 0..l
      OBVIOUS
    <3> HIDE DEF l
    <3>3. (IF m + 1 <= l THEN l - (m + 1) + 1 ELSE 0) = l - m
      BY <2>0, <3>2
    <3> QED
      BY <2>2, <3>1, <3>3
  <2>4. DOMAIN rest = 1..(l - m)
    BY <2>3, LenProperties
  <2>5. \A i \in 1..(l - m) : m + i \in DOMAIN segments /\ rest[i] = segments[m + i]
    <3> HIDE DEF l
    <3>1. \A i \in 1..(l - m) : m + i \in DOMAIN segments /\ rest[i] = segments[m + 1 + i - 1]
      BY <1>6, <2>0, <2>2 DEF l
    <3>2. \A i \in 1..(l - m) : m + 1 + i - 1 = m + i
      BY <2>0
    <3> QED
      BY <3>1, <3>2
  <2> QED
    BY <2>3, <2>4, <2>5
<1>7. /\ sealed' \in Seq(Segment) /\ DOMAIN sealed' = 1..(Len(Closed(sample)) - n)
      /\ \A i \in DOMAIN sealed' :
           n + i \in DOMAIN Closed(sample) /\ sealed'[i] = Closed(sample)[n + i]
  BY <1>3, <1>4, <1>5, <1>6
<1> QED
  BY <1>5, <1>7 DEF Drops

-----------------------------------------------------------------------------
(* An append *)

\* What an append drops was stored in a segment that is too old.
LEMMA AppendKeeps ==
  ASSUME TypeOK, ShapeInv, NEW sample \in Sample, StoreAppend(sample),
         NEW n, Drops(sample, n)
  PROVE  /\ Stored' \subseteq Stored \cup {sample}
         /\ sample \in Stored'
         /\ \A s \in Stored : s \notin Stored' =>
              \E i \in 1..n : s \in Closed(sample)[i].samples
         /\ \A s \in Stored' : \/ s \in active'.samples
                               \/ \E i \in DOMAIN Closed(sample) :
                                    i > n /\ s \in Closed(sample)[i].samples
<1> DEFINE full == Closed(sample)
<1>0. /\ DOMAIN full = 1..Len(full) /\ Len(full) \in Nat /\ Len(sealed) \in Nat
      /\ DOMAIN sealed = 1..Len(sealed) /\ n \in Nat
      /\ DOMAIN sealed' = 1..(Len(full) - n)
      /\ \A i \in DOMAIN sealed' : sealed'[i] = full[n + i]
  BY ClosedIs DEF Drops
<1>1. ASSUME NEW s \in Stored'
      PROVE  \/ s \in active'.samples
             \/ \E i \in DOMAIN full : i > n /\ s \in full[i].samples
  <2>1. CASE s \in active'.samples
    BY <2>1
  <2>2. CASE \E j \in DOMAIN sealed' : s \in sealed'[j].samples
    <3>1. PICK j \in DOMAIN sealed' : s \in sealed'[j].samples
      BY <2>2
    <3>2. n + j \in DOMAIN full /\ n + j > n /\ s \in full[n + j].samples
      BY <1>0, <3>1
    <3> QED
      BY <3>2
  <2> QED
    BY <2>1, <2>2 DEF Stored
<1>2. ASSUME NEW i \in DOMAIN full
      PROVE  full[i].samples \subseteq Stored
  <2>1. i \in 1..Len(sealed) \/ full[i] = active
    BY <1>0, ClosedIs
  <2> QED
    BY <1>0, <2>1, ClosedIs DEF Stored
<1>3. sample \in Stored' /\ active'.samples \subseteq Stored \cup {sample}
  BY ActiveStep DEF Stored
<1>4. ASSUME NEW s \in Stored, s \notin Stored'
      PROVE  \E i \in 1..n : s \in full[i].samples
  <2>1. s \notin active'.samples /\ \A j \in DOMAIN sealed' : s \notin sealed'[j].samples
    BY <1>4 DEF Stored
  <2>2. \E i \in DOMAIN full : s \in full[i].samples
    <3>1. CASE s \in active.samples
      <4>1. StartsSegment(sample)
        BY <2>1, <3>1, ActiveStep DEF NoSegment, StoreAppend
      <4> QED
        BY <1>0, <3>1, <4>1, ClosedIs
    <3>2. CASE \E i \in DOMAIN sealed : s \in sealed[i].samples
      BY <1>0, <3>2, ClosedIs
    <3> QED
      BY <3>1, <3>2 DEF Stored
  <2>3. PICK i \in DOMAIN full : s \in full[i].samples
    BY <2>2
  <2>4. ASSUME i > n
        PROVE  FALSE
    <3>1. i - n \in DOMAIN sealed' /\ n + (i - n) = i
      BY <1>0, <2>4
    <3>2. sealed'[i - n] = full[i]
      BY <1>0, <3>1
    <3> QED
      BY <2>1, <2>3, <3>1, <3>2
  <2>5. i \in 1..n
    BY <1>0, <2>4
  <2> QED
    BY <2>3, <2>5
<1> QED
  BY <1>1, <1>2, <1>3, <1>4

\* An append keeps the store well formed.
LEMMA AppendType ==
  ASSUME TypeOK, ShapeInv, NEW sample \in Sample, StoreAppend(sample), NEW n, Drops(sample, n)
  PROVE  TypeOK' /\ ShapeInv'
<1>1. sealed' \in Seq(Segment) /\ active' \in Segment /\ active'.samples # {}
  BY ActiveStep DEF Drops
<1>2. recorded' = recorded \cup {sample} /\ cuts' = cuts
  BY DEF StoreAppend
<1>3. Stored' \subseteq recorded'
  BY <1>2, AppendKeeps DEF TypeOK
<1>4. \A i \in DOMAIN sealed' : sealed'[i].samples # {}
  BY ClosedIs DEF Drops
<1> QED
  BY <1>1, <1>2, <1>3, <1>4 DEF TypeOK, ShapeInv

\* The end of the active segment is that of a recorded sample, and the new one is within it.
LEMMA ActiveEnd ==
  ASSUME TypeOK, ShapeInv, NEW sample \in Sample, StoreAppend(sample)
  PROVE  /\ LastPts(active') \in Int
         /\ \E r \in recorded' : LastPts(active') = r.pts + 1
         /\ sample.pts + 1 <= LastPts(active')
<1>1. active'.samples \subseteq Sample /\ sample \in active'.samples
  BY ActiveStep DEF Segment
<1>2. active'.samples \subseteq recorded'
  BY ActiveStep, PartTypes DEF StoreAppend
<1> QED
  BY <1>1, <1>2, LastPtsIs, StoreAssumption

\* An append evicts only what is older than the retention.
LEMMA AppendRecent ==
  ASSUME TypeOK, ShapeInv, RecentInv,
         NEW sample \in Sample, StoreAppend(sample), NEW n, Drops(sample, n)
  PROVE  RecentInv'
<1> SUFFICES ASSUME NEW s \in recorded', s \notin Stored'
             PROVE  \E r \in recorded' : s.pts < r.pts - Retention
  BY DEF RecentInv
<1>1. recorded' = recorded \cup {sample}
  BY DEF StoreAppend
<1>2. s \in recorded
  BY <1>1, AppendKeeps
<1>3. CASE s \notin Stored
  BY <1>1, <1>2, <1>3 DEF RecentInv
<1>4. CASE s \in Stored
  <2>1. PICK i \in 1..n : s \in Closed(sample)[i].samples
    BY <1>4, AppendKeeps
  <2>2. i \in DOMAIN Closed(sample) /\ LastPts(Closed(sample)[i]) < LastPts(active') - Retention
    BY ClosedIs DEF Drops
  <2>3. PICK r \in recorded' : LastPts(active') = r.pts + 1
    BY ActiveEnd
  <2>4. s.pts + 1 <= LastPts(Closed(sample)[i]) /\ LastPts(Closed(sample)[i]) \in Int
    BY <2>1, <2>2, ClosedIs, LastPtsIs, StoreAssumption
  <2>5. s.pts \in Int /\ r.pts \in Int /\ Retention \in Int
    BY <1>1, <1>2, SampleIs, StoreAssumption DEF TypeOK
  <2>6. s.pts < r.pts - Retention
    BY <2>2, <2>3, <2>4, <2>5
  <2> QED
    BY <2>6
<1> QED
  BY <1>3, <1>4

\* Before the eviction too, a segment was closed by a save or by a keyframe.
LEMMA ClosedBefore ==
  ASSUME TypeOK, ShapeInv, ClosedInv,
         NEW sample \in Sample, Appendable(sample), StoreAppend(sample),
         NEW i \in DOMAIN Closed(sample)
  PROVE  \/ LastPts(Closed(sample)[i]) \in cuts
         \/ \E k \in recorded' :
              /\ k.kind = "key"
              /\ \A x \in Closed(sample)[i].samples : x.kind # "audio" => x.pts < k.pts
              /\ \A j \in DOMAIN Closed(sample) : j > i =>
                   \A x \in Closed(sample)[j].samples : x.kind # "audio" => x.pts >= k.pts
              /\ \A x \in active'.samples : x.kind # "audio" => x.pts >= k.pts
<1> DEFINE full == Closed(sample)
<1>0. /\ DOMAIN full = 1..Len(full) /\ Len(full) \in Nat /\ Len(sealed) \in Nat
      /\ DOMAIN sealed = 1..Len(sealed)
      /\ recorded' = recorded \cup {sample} /\ sample.pts \in Int
      /\ \A r \in recorded : r.pts \in Int
  BY ClosedIs, SampleIs DEF StoreAppend, TypeOK
<1>1. CASE i \in 1..Len(sealed)
  <2>1. full[i] = sealed[i] /\ i \in DOMAIN sealed
    BY <1>0, <1>1, ClosedIs
  <2>2. CASE LastPts(sealed[i]) \in cuts
    BY <2>1, <2>2
  <2>3. CASE LastPts(sealed[i]) \notin cuts
    <3>1. PICK k \in recorded :
            /\ k.kind = "key"
            /\ \A x \in sealed[i].samples : x.kind # "audio" => x.pts < k.pts
            /\ \A j \in DOMAIN sealed : j > i =>
                 \A x \in sealed[j].samples : x.kind # "audio" => x.pts >= k.pts
            /\ \A x \in active.samples : x.kind # "audio" => x.pts >= k.pts
      BY <2>1, <2>3 DEF ClosedInv
    <3>2. ASSUME NEW j \in DOMAIN full, j > i, NEW x \in full[j].samples, x.kind # "audio"
          PROVE  x.pts >= k.pts
      <4>1. CASE j \in 1..Len(sealed)
        <5>1. full[j] = sealed[j] /\ j \in DOMAIN sealed
          BY <1>0, <4>1, ClosedIs
        <5> QED
          BY <3>1, <3>2, <5>1
      <4>2. CASE j \notin 1..Len(sealed)
        <5>1. full[j] = active
          BY <1>0, <4>2, ClosedIs
        <5> QED
          BY <3>1, <3>2, <5>1
      <4> QED
        BY <4>1, <4>2
    <3>3. ASSUME NEW x \in active'.samples, x.kind # "audio"
          PROVE  x.pts >= k.pts
      <4>1. CASE x \in active.samples
        BY <3>1, <3>3, <4>1
      <4>2. CASE x = sample
        <5>1. k.pts < sample.pts
          BY <3>1, <3>3, <4>2, AppendedInOrder
        <5> QED
          BY <1>0, <4>2, <5>1
      <4> QED
        BY <4>1, <4>2, ActiveStep
    <3>4. k \in recorded'
      BY <1>0
    <3> QED
      BY <2>1, <3>1, <3>2, <3>3, <3>4
  <2> QED
    BY <2>2, <2>3
<1>2. CASE i \notin 1..Len(sealed)
  <2>1. StartsSegment(sample) /\ i = Len(sealed) + 1 /\ full[i] = active
    BY <1>0, <1>2, ClosedIs
  <2>2. sample.kind = "key" /\ active'.samples = {sample} /\ Len(full) = Len(sealed) + 1
    BY <2>1, ActiveStep, ClosedIs DEF StartsSegment
  <2>3. \A x \in active.samples : x.kind # "audio" => x.pts < sample.pts
    BY <2>2, AppendedInOrder, PartTypes
  <2>4. \A j \in DOMAIN full : ~(j > i)
    BY <1>0, <2>1, <2>2
  <2>5. \A x \in active'.samples : x.pts >= sample.pts
    BY <1>0, <2>2
  <2> QED
    BY <1>0, <2>1, <2>2, <2>3, <2>4, <2>5
<1> QED
  BY <1>1, <1>2

\* An append closes a segment only by a keyframe.
LEMMA AppendClosed ==
  ASSUME TypeOK, ShapeInv, ClosedInv,
         NEW sample \in Sample, Appendable(sample), StoreAppend(sample),
         NEW n, Drops(sample, n)
  PROVE  ClosedInv'
<1> SUFFICES ASSUME NEW i \in DOMAIN sealed', LastPts(sealed'[i]) \notin cuts'
             PROVE  \E k \in recorded' :
                      /\ k.kind = "key"
                      /\ \A x \in sealed'[i].samples : x.kind # "audio" => x.pts < k.pts
                      /\ \A j \in DOMAIN sealed' : j > i =>
                           \A x \in sealed'[j].samples : x.kind # "audio" => x.pts >= k.pts
                      /\ \A x \in active'.samples : x.kind # "audio" => x.pts >= k.pts
  BY DEF ClosedInv, LastPts
<1> DEFINE full == Closed(sample)
<1>0. /\ n \in Nat /\ cuts' = cuts
      /\ DOMAIN sealed' \subseteq Int
      /\ \A j \in DOMAIN sealed' : n + j \in DOMAIN full /\ sealed'[j] = full[n + j]
  <2>1. n \in Nat
    BY ClosedIs DEF Drops
  <2>2. DOMAIN sealed' = 1..(Len(full) - n)
    BY DEF Drops
  <2>3. DOMAIN sealed' \subseteq Int
    BY <2>2
  <2>4. \A j \in DOMAIN sealed' : n + j \in DOMAIN full /\ sealed'[j] = full[n + j]
    BY DEF Drops
  <2>5. cuts' = cuts
    BY DEF StoreAppend
  <2> QED
    BY <2>1, <2>3, <2>4, <2>5
<1>1. PICK k \in recorded' :
        /\ k.kind = "key"
        /\ \A x \in full[n + i].samples : x.kind # "audio" => x.pts < k.pts
        /\ \A j \in DOMAIN full : j > n + i =>
             \A x \in full[j].samples : x.kind # "audio" => x.pts >= k.pts
        /\ \A x \in active'.samples : x.kind # "audio" => x.pts >= k.pts
  BY <1>0, ClosedBefore
<1>2. \A j \in DOMAIN sealed' : j > i => n + j > n + i
  BY <1>0
<1> QED
  BY <1>0, <1>1, <1>2

\* A keyframe is evicted with its whole segment, and that was closed by a save or a keyframe.
LEMMA AppendGone ==
  ASSUME TypeOK, ShapeInv, ClosedInv, GoneInv,
         NEW sample \in Sample, Appendable(sample), StoreAppend(sample),
         NEW n, Drops(sample, n)
  PROVE  GoneInv'
<1> SUFFICES ASSUME NEW k \in recorded', k \notin Stored', k.kind = "key"
             PROVE  \/ \E c \in cuts', r \in recorded' : k.pts < c /\ c <= r.pts - Retention
                    \/ \E next \in recorded' :
                         /\ next.kind = "key" /\ next.pts > k.pts
                         /\ \A x \in Stored' : x.kind # "audio" => x.pts >= next.pts
  BY DEF GoneInv
<1> DEFINE full == Closed(sample)
<1>1. /\ recorded' = recorded \cup {sample} /\ cuts' = cuts /\ recorded \subseteq Sample
      /\ Retention \in Int
  BY StoreAssumption DEF StoreAppend, TypeOK
<1>2. k \in recorded
  BY <1>1, AppendKeeps
<1>3. sample.pts \in Int /\ \A r \in recorded : r.pts \in Int
  BY <1>1, SampleIs
<1>4. CASE k \notin Stored
  <2>1. CASE \E c \in cuts, r \in recorded : k.pts < c /\ c <= r.pts - Retention
    BY <1>1, <2>1
  <2>2. CASE \E next \in recorded :
               /\ next.kind = "key" /\ next.pts > k.pts
               /\ \A x \in Stored : x.kind # "audio" => x.pts >= next.pts
    <3>1. PICK next \in recorded :
            /\ next.kind = "key" /\ next.pts > k.pts
            /\ \A x \in Stored : x.kind # "audio" => x.pts >= next.pts
      BY <2>2
    <3>2. sample.kind # "audio" => sample.pts >= next.pts
      BY <1>3, <3>1, AppendedInOrder
    <3>3. \A x \in Stored' : x.kind # "audio" => x.pts >= next.pts
      BY <3>1, <3>2, AppendKeeps
    <3> QED
      BY <1>1, <3>1, <3>3
  <2> QED
    BY <1>2, <1>4, <2>1, <2>2 DEF GoneInv
<1>5. CASE k \in Stored
  <2>1. PICK i \in 1..n : k \in full[i].samples
    BY <1>5, AppendKeeps
  <2>2. /\ i \in DOMAIN full /\ LastPts(full[i]) < LastPts(active') - Retention
        /\ n \in Int
    BY ClosedIs DEF Drops
  <2>3. PICK r \in recorded' : LastPts(active') = r.pts + 1
    BY ActiveEnd
  <2>4. k.pts + 1 <= LastPts(full[i]) /\ LastPts(full[i]) \in Int
    BY <2>1, <2>2, ClosedIs, LastPtsIs, StoreAssumption
  <2>5. k.pts \in Int /\ r.pts \in Int
    BY <1>1, <1>2, <1>3
  <2>6. CASE LastPts(full[i]) \in cuts
    <3>1. k.pts < LastPts(full[i]) /\ LastPts(full[i]) <= r.pts - Retention
      BY <1>1, <2>2, <2>3, <2>4, <2>5
    <3> QED
      BY <1>1, <2>6, <3>1
  <2>7. CASE LastPts(full[i]) \notin cuts
    <3>1. PICK next \in recorded' :
            /\ next.kind = "key"
            /\ \A x \in full[i].samples : x.kind # "audio" => x.pts < next.pts
            /\ \A j \in DOMAIN full : j > i =>
                 \A x \in full[j].samples : x.kind # "audio" => x.pts >= next.pts
            /\ \A x \in active'.samples : x.kind # "audio" => x.pts >= next.pts
      BY <2>2, <2>7, ClosedBefore
    <3>2. next.pts > k.pts
      BY <1>1, <1>3, <2>1, <2>5, <3>1
    <3>3. ASSUME NEW x \in Stored', x.kind # "audio"
          PROVE  x.pts >= next.pts
      <4>1. CASE x \in active'.samples
        BY <3>1, <3>3, <4>1
      <4>2. CASE \E j \in DOMAIN full : j > n /\ x \in full[j].samples
        <5>1. PICK j \in DOMAIN full : j > n /\ x \in full[j].samples
          BY <4>2
        <5>2. j > i
          BY <2>2, <5>1, ClosedIs
        <5> QED
          BY <3>1, <3>3, <5>1, <5>2
      <4> QED
        BY <4>1, <4>2, AppendKeeps
    <3> QED
      BY <3>1, <3>2, <3>3
  <2> QED
    BY <2>6, <2>7
<1> QED
  BY <1>4, <1>5

\* The segment that is the oldest after an append ends within the retention.
LEMMA AppendOldest ==
  ASSUME TypeOK, ShapeInv, OldestInv,
         NEW sample \in Sample, Appendable(sample), StoreAppend(sample),
         NEW n, Drops(sample, n)
  PROVE  OldestInv'
<1> DEFINE full == Closed(sample)
           end == LastPts(active')
<1>1. /\ recorded' = recorded \cup {sample} /\ recorded \subseteq Sample
      /\ Retention \in Int /\ Retention >= 1 /\ sample.pts \in Int
      /\ \A r \in recorded' : r.pts \in Int /\ r.pts <= sample.pts + 1
  BY StoreAssumption, SampleIs, AppendedInOrder DEF StoreAppend, TypeOK
<1>2. end \in Int /\ sample.pts + 1 <= end /\ end <= sample.pts + 2
  BY <1>1, ActiveEnd
<1>3. n \in Nat /\ Len(full) \in Nat /\ n <= Len(full) /\ DOMAIN full = 1..Len(full)
  BY ClosedIs DEF Drops
<1>4. ASSUME NEW r \in recorded', sealed' # <<>>
      PROVE  r.pts + 1 <= LastPts(sealed'[1]) + Retention
  <2>1. n < Len(full)
    <3>1. Len(sealed') \in Nat /\ DOMAIN sealed' = 1..Len(sealed') /\ Len(sealed') # 0
      BY <1>4, LenProperties, EmptySeq DEF Drops
    <3>2. 1 \in DOMAIN sealed'
      BY <3>1
    <3>3. DOMAIN sealed' = 1..(Len(full) - n)
      BY DEF Drops
    <3> QED
      BY <1>3, <3>2, <3>3
  <2>2. 1 \in DOMAIN sealed' /\ sealed'[1] = full[n + 1]
    <3>1. DOMAIN sealed' = 1..(Len(full) - n)
      BY DEF Drops
    <3>2. 1 \in DOMAIN sealed'
      BY <1>3, <2>1, <3>1
    <3> QED
      BY <3>2 DEF Drops
  <2>3. n + 1 \in DOMAIN full /\ 1 \in DOMAIN full
    BY <1>3, <2>1
  <2>4. /\ LastPts(full[n + 1]) \in Int /\ LastPts(full[1]) \in Int
        /\ LastPts(full[n + 1]) >= end - Retention
    <3>1. \A i \in DOMAIN full : LastPts(full[i]) \in Int
      BY ClosedIs, LastPtsIs, StoreAssumption
    <3>2. LastPts(full[n + 1]) >= end - Retention
      BY <2>1 DEF Drops
    <3> QED
      BY <2>3, <3>1, <3>2
  <2>5. CASE r.pts + 1 <= end
    BY <1>1, <1>2, <2>2, <2>4, <2>5
  <2>6. CASE ~(r.pts + 1 <= end)
    <3>1. r \in recorded
      BY <1>1, <1>2, <2>6
    <3>2. r.pts + 1 <= LastPts(full[1]) + Retention
      <4>1. CASE sealed # <<>>
        <5>1. 1 \in 1..Len(sealed)
          BY <4>1, LenProperties, EmptySeq DEF TypeOK
        <5>2. full[1] = sealed[1]
          BY <5>1, ClosedIs
        <5> QED
          BY <3>1, <4>1, <5>2 DEF OldestInv
      <4>2. CASE sealed = <<>>
        <5>1. Len(sealed) = 0
          BY <4>2
        <5>2. full[1] = active /\ active.samples # {}
          BY <2>3, <4>2, <5>1, ClosedIs
        <5> QED
          BY <3>1, <4>2, <5>2 DEF OldestInv
      <4> QED
        BY <4>1, <4>2
    <3>3. n = 0
      <4>1. SUFFICES ASSUME n > 0
                     PROVE  FALSE
        BY <1>3
      <4>2. 1 \in 1..n
        BY <1>3, <4>1
      <4>3. LastPts(full[1]) < end - Retention
        BY <4>2 DEF Drops
      <4> QED
        BY <1>1, <1>2, <2>4, <2>6, <3>2, <4>3
    <3>4. full[n + 1] = full[1]
      BY <3>3
    <3> QED
      BY <2>2, <3>2, <3>4
  <2> QED
    BY <2>5, <2>6
<1>5. ASSUME NEW r \in recorded'
      PROVE  r.pts + 1 <= end + Retention
  BY <1>1, <1>2
<1> QED
  BY <1>4, <1>5 DEF OldestInv, LastPts

\* A keyframe that does not close the active segment is near its beginning.
LEMMA AppendApart ==
  ASSUME TypeOK, ShapeInv, FirstInv, ApartInv,
         NEW sample \in Sample, Appendable(sample), StoreAppend(sample),
         NEW n, Drops(sample, n)
  PROVE  ApartInv'
<1> DEFINE full == Closed(sample)
<1>1. /\ recorded' = recorded \cup {sample} /\ recorded \subseteq Sample
      /\ SegmentLength \in Int /\ SegmentLength >= 1 /\ sample.pts \in Int
      /\ active.first \in Int
      /\ \A r \in recorded' : r.pts \in Int /\ r.pts <= sample.pts + 1
  BY StoreAssumption, SampleIs, AppendedInOrder, PartTypes DEF StoreAppend, TypeOK
<1>2. active.samples \subseteq recorded /\ active'.samples \subseteq active.samples \cup {sample}
  BY ActiveStep, PartTypes
<1>3. ASSUME NEW k \in recorded', k.kind = "key", NEW x \in active'.samples
      PROVE  k.pts <= x.pts + SegmentLength
  <2>1. CASE x = sample
    BY <1>1, <1>3, <2>1
  <2>2. CASE x \in active.samples /\ x # sample /\ k \in recorded
    BY <1>3, <2>2 DEF ApartInv
  <2>3. CASE x \in active.samples /\ x # sample /\ k = sample
    <3>1. active # NoSegment /\ ~StartsSegment(sample)
      BY <1>3, <2>3, ActiveStep
    <3>2. sample.pts - active.first < SegmentLength
      BY <1>1, <1>3, <2>3, <3>1 DEF StartsSegment
    <3>3. active.first <= x.pts + 1 /\ x.pts \in Int
      BY <1>1, <1>2, <2>3 DEF FirstInv
    <3> QED
      BY <1>1, <2>3, <3>2, <3>3
  <2> QED
    BY <1>1, <1>2, <2>1, <2>2, <2>3
<1>4. ASSUME NEW k \in recorded', k.kind = "key", NEW i \in DOMAIN full
      PROVE  \/ k.pts >= LastPts(full[i]) - 2
             \/ /\ \A j \in DOMAIN full : j >= i =>
                     \A x \in full[j].samples : k.pts <= x.pts + SegmentLength
                /\ \A x \in active'.samples : k.pts <= x.pts + SegmentLength
  <2>1. CASE k = sample
    <3>1. /\ full[i].samples \subseteq Sample /\ full[i].samples # {}
          /\ full[i].samples \subseteq recorded
      BY ClosedIs
    <3>2. PICK x \in full[i].samples : LastPts(full[i]) = x.pts + 1
      BY <3>1, LastPtsIs
    <3>3. x.pts <= sample.pts + 1 /\ x.pts \in Int
      BY <1>1, <3>1
    <3> QED
      BY <1>1, <2>1, <3>2, <3>3
  <2>2. CASE k \in recorded /\ i \in 1..Len(sealed)
    <3>1. full[i] = sealed[i] /\ i \in DOMAIN sealed
      BY <2>2, ClosedIs
    <3>2. CASE k.pts >= LastPts(sealed[i]) - 2
      BY <3>1, <3>2
    <3>3. CASE ~(k.pts >= LastPts(sealed[i]) - 2)
      <4>1. /\ \A j \in DOMAIN sealed : j >= i =>
                 \A x \in sealed[j].samples : k.pts <= x.pts + SegmentLength
            /\ \A x \in active.samples : k.pts <= x.pts + SegmentLength
        BY <1>4, <2>2, <3>1, <3>3 DEF ApartInv
      <4>2. ASSUME NEW j \in DOMAIN full, j >= i, NEW x \in full[j].samples
            PROVE  k.pts <= x.pts + SegmentLength
        <5>1. CASE j \in 1..Len(sealed)
          <6>1. full[j] = sealed[j] /\ j \in DOMAIN sealed
            BY <5>1, ClosedIs
          <6> QED
            BY <4>1, <4>2, <6>1
        <5>2. CASE j \notin 1..Len(sealed)
          <6>1. full[j] = active
            BY <5>2, ClosedIs
          <6> QED
            BY <4>1, <4>2, <6>1
        <5> QED
          BY <5>1, <5>2
      <4>3. \A x \in active'.samples : k.pts <= x.pts + SegmentLength
        BY <1>3, <1>4
      <4> QED
        BY <4>2, <4>3
    <3> QED
      BY <3>2, <3>3
  <2>3. CASE k \in recorded /\ i \notin 1..Len(sealed)
    <3>1. i = Len(sealed) + 1 /\ full[i] = active /\ Len(full) = Len(sealed) + 1
      BY <2>3, ClosedIs
    <3>2. \A j \in DOMAIN full : j >= i => j = i
      BY <3>1, ClosedIs
    <3>3. \A x \in active.samples : k.pts <= x.pts + SegmentLength
      BY <1>4, <2>3 DEF ApartInv
    <3>4. \A x \in active'.samples : k.pts <= x.pts + SegmentLength
      BY <1>3, <1>4
    <3> QED
      BY <3>1, <3>2, <3>3, <3>4
  <2> QED
    BY <1>1, <2>1, <2>2, <2>3
<1>5. ASSUME NEW k \in recorded', k.kind = "key", NEW i \in DOMAIN sealed',
             ~(k.pts >= LastPts(sealed'[i]) - 2)
      PROVE  /\ \A j \in DOMAIN sealed' : j >= i =>
                  \A x \in sealed'[j].samples : k.pts <= x.pts + SegmentLength
             /\ \A x \in active'.samples : k.pts <= x.pts + SegmentLength
  <2>1. \A j \in DOMAIN sealed' : n + j \in DOMAIN full /\ sealed'[j] = full[n + j]
    BY DEF Drops
  <2>2. /\ \A j \in DOMAIN full : j >= n + i =>
             \A x \in full[j].samples : k.pts <= x.pts + SegmentLength
        /\ \A x \in active'.samples : k.pts <= x.pts + SegmentLength
    BY <1>4, <1>5, <2>1
  <2>3. DOMAIN sealed' \subseteq Int /\ n \in Int
    BY ClosedIs DEF Drops
  <2>4. \A j \in DOMAIN sealed' : j >= i => n + j >= n + i
    BY <2>3
  <2> QED
    BY <2>1, <2>2, <2>4
<1> QED
  BY <1>3, <1>5 DEF ApartInv, LastPts

\* An append is at most a unit before the beginning of its segment.
LEMMA AppendFirst ==
  ASSUME TypeOK, ShapeInv, FirstInv,
         NEW sample \in Sample, Appendable(sample), StoreAppend(sample)
  PROVE  FirstInv'
<1>1. /\ recorded' = recorded \cup {sample} /\ sample.pts \in Int
      /\ active.first \in Int /\ active.samples \subseteq recorded
  BY SampleIs, PartTypes DEF StoreAppend
<1>2. CASE active' = [first |-> sample.pts, samples |-> {sample}]
  <2>1. active'.first = sample.pts /\ active'.samples = {sample}
    BY <1>2
  <2> QED
    BY <1>1, <2>1 DEF FirstInv
<1>3. CASE /\ active # NoSegment
           /\ active'.first = active.first
           /\ active'.samples = active.samples \cup {sample}
  <2>1. active.samples # {}
    BY <1>3 DEF ShapeInv
  <2>2. PICK r \in recorded : r.pts = active.first
    BY <2>1 DEF FirstInv
  <2>3. active.first <= sample.pts + 1
    BY <2>2, AppendedInOrder
  <2>4. \A x \in active'.samples : active'.first <= x.pts + 1
    BY <1>3, <2>1, <2>3 DEF FirstInv
  <2>5. \E s \in recorded' : s.pts = active'.first
    BY <1>1, <1>3, <2>2
  <2> QED
    BY <2>4, <2>5 DEF FirstInv
<1> QED
  BY <1>2, <1>3, ActiveStep

-----------------------------------------------------------------------------
(* The invariant *)

\* An empty store, at the beginning.
LEMMA InitSafe == StoreInit => StoreInv
<1> SUFFICES ASSUME StoreInit
             PROVE  StoreInv
  OBVIOUS
<1>1. sealed = <<>> /\ active = NoSegment /\ recorded = {} /\ cuts = {}
  BY DEF StoreInit
<1>2. /\ sealed \in Seq(Segment) /\ DOMAIN sealed = {}
      /\ active \in Segment /\ active.samples = {}
  BY <1>1, StoreAssumption DEF NoSegment, Segment, Pts
<1>3. Stored = {}
  BY <1>2 DEF Stored
<1> QED
  BY <1>1, <1>2, <1>3
     DEF StoreInv, TypeOK, ShapeInv, RecentInv, ClosedInv, GoneInv, OldestInv, ApartInv, FirstInv

\* An empty store, after a clear.
LEMMA ClearSafe == Clear => StoreInv'
<1> SUFFICES ASSUME Clear
             PROVE  StoreInv'
  OBVIOUS
<1>1. sealed' = <<>> /\ active' = NoSegment /\ recorded' = {} /\ cuts' = {}
  BY DEF Clear
<1>2. /\ sealed' \in Seq(Segment) /\ DOMAIN sealed' = {}
      /\ active' \in Segment /\ active'.samples = {}
  BY <1>1, StoreAssumption DEF NoSegment, Segment, Pts
<1>3. Stored' = {}
  BY <1>2 DEF Stored
<1> QED
  BY <1>1, <1>2, <1>3
     DEF StoreInv, TypeOK, ShapeInv, RecentInv, ClosedInv, GoneInv, OldestInv, ApartInv, FirstInv

\* A save keeps the invariant.
LEMMA SnapshotSafe ==
  ASSUME StoreInv, StoreSnapshot
  PROVE  StoreInv'
<1>1. /\ sealed' = Append(sealed, active) /\ active' = NoSegment
      /\ cuts' = cuts \cup {LastPts(active)} /\ recorded' = recorded
      /\ active # NoSegment
  BY DEF StoreSnapshot
<1>2. sealed \in Seq(Segment) /\ active \in Segment /\ active.samples # {}
  BY <1>1 DEF StoreInv, TypeOK, ShapeInv
<1>3. /\ DOMAIN sealed = 1..Len(sealed) /\ Len(sealed) \in Nat
      /\ sealed' \in Seq(Segment) /\ DOMAIN sealed' = 1..(Len(sealed) + 1)
      /\ sealed'[Len(sealed) + 1] = active
      /\ \A i \in DOMAIN sealed : sealed'[i] = sealed[i] /\ i \in DOMAIN sealed'
  <2>1. /\ sealed' \in Seq(Segment) /\ Len(sealed') = Len(sealed) + 1
        /\ sealed'[Len(sealed) + 1] = active
        /\ \A i \in 1..Len(sealed) : sealed'[i] = sealed[i]
    BY <1>1, <1>2, AppendProperties
  <2>2. DOMAIN sealed' = 1..Len(sealed') /\ DOMAIN sealed = 1..Len(sealed) /\ Len(sealed) \in Nat
    BY <1>2, <2>1, LenProperties
  <2> QED
    BY <2>1, <2>2
<1>4. \A i \in DOMAIN sealed' : i \in DOMAIN sealed \/ i = Len(sealed) + 1
  BY <1>3
<1>5. active'.samples = {} /\ active' \in Segment
  BY <1>1, StoreAssumption DEF NoSegment, Segment, Pts
<1>6. Stored' = Stored
  <2>1. ASSUME NEW s \in Stored
        PROVE  s \in Stored'
    <3>1. \E i \in DOMAIN sealed' : s \in sealed'[i].samples
      BY <1>3, <2>1 DEF Stored
    <3> QED
      BY <3>1 DEF Stored
  <2>2. ASSUME NEW s \in Stored'
        PROVE  s \in Stored
    <3>1. PICK i \in DOMAIN sealed' : s \in sealed'[i].samples
      BY <1>5, <2>2 DEF Stored
    <3> QED
      BY <1>3, <1>4, <3>1 DEF Stored
  <2> QED
    BY <2>1, <2>2
<1>7. TypeOK'
  <2>1. LastPts(active) \in 0..(MaxPts + 1)
    BY <1>2, LastPtsIs, PartTypes, StoreAssumption DEF StoreInv
  <2> QED
    BY <1>1, <1>3, <1>5, <1>6, <2>1 DEF StoreInv, TypeOK
<1>8. ShapeInv'
  BY <1>1, <1>2, <1>3, <1>4 DEF StoreInv, ShapeInv
<1>9. RecentInv' /\ GoneInv'
  BY <1>1, <1>6 DEF StoreInv, RecentInv, GoneInv
<1>10. ClosedInv'
  <2> SUFFICES ASSUME NEW i \in DOMAIN sealed', LastPts(sealed'[i]) \notin cuts'
               PROVE  \E k \in recorded' :
                        /\ k.kind = "key"
                        /\ \A x \in sealed'[i].samples : x.kind # "audio" => x.pts < k.pts
                        /\ \A j \in DOMAIN sealed' : j > i =>
                             \A x \in sealed'[j].samples : x.kind # "audio" => x.pts >= k.pts
                        /\ \A x \in active'.samples : x.kind # "audio" => x.pts >= k.pts
    BY DEF ClosedInv, LastPts
  <2>1. i \in DOMAIN sealed /\ LastPts(sealed[i]) \notin cuts
    BY <1>1, <1>3, <1>4
  <2>2. PICK k \in recorded :
          /\ k.kind = "key"
          /\ \A x \in sealed[i].samples : x.kind # "audio" => x.pts < k.pts
          /\ \A j \in DOMAIN sealed : j > i =>
               \A x \in sealed[j].samples : x.kind # "audio" => x.pts >= k.pts
          /\ \A x \in active.samples : x.kind # "audio" => x.pts >= k.pts
    BY <2>1 DEF StoreInv, ClosedInv
  <2>3. \A j \in DOMAIN sealed' : j > i =>
          \A x \in sealed'[j].samples : x.kind # "audio" => x.pts >= k.pts
    BY <1>3, <1>4, <2>2
  <2> QED
    BY <1>1, <1>3, <1>5, <2>1, <2>2, <2>3
<1>11. OldestInv'
  <2>1. CASE sealed = <<>>
    <3>1. Len(sealed) = 0
      BY <2>1
    <3>2. sealed'[1] = active
      BY <1>3, <3>1
    <3> QED
      BY <1>1, <1>2, <1>5, <2>1, <3>2 DEF StoreInv, OldestInv
  <2>2. CASE sealed # <<>>
    <3>1. 1 \in DOMAIN sealed
      BY <1>2, <1>3, <2>2, EmptySeq, LenProperties
    <3>2. sealed'[1] = sealed[1]
      BY <1>3, <3>1
    <3> QED
      BY <1>1, <1>5, <2>2, <3>2 DEF StoreInv, OldestInv
  <2> QED
    BY <2>1, <2>2
<1>12. ApartInv'
  <2>1. ASSUME NEW k \in recorded, k.kind = "key", NEW i \in DOMAIN sealed',
               ~(k.pts >= LastPts(sealed'[i]) - 2)
        PROVE  \A j \in DOMAIN sealed' : j >= i =>
                 \A x \in sealed'[j].samples : k.pts <= x.pts + SegmentLength
    <3>1. CASE i \in DOMAIN sealed
      <4>1. /\ \A j \in DOMAIN sealed : j >= i =>
                 \A x \in sealed[j].samples : k.pts <= x.pts + SegmentLength
            /\ \A x \in active.samples : k.pts <= x.pts + SegmentLength
        BY <1>3, <2>1, <3>1 DEF StoreInv, ApartInv
      <4> QED
        BY <1>3, <1>4, <4>1
    <3>2. CASE i = Len(sealed) + 1
      <4>1. \A x \in active.samples : k.pts <= x.pts + SegmentLength
        BY <2>1 DEF StoreInv, ApartInv
      <4>2. \A j \in DOMAIN sealed' : j >= i => j = i
        BY <1>3, <3>2
      <4> QED
        BY <1>3, <3>2, <4>1, <4>2
    <3> QED
      BY <1>4, <3>1, <3>2
  <2> QED
    BY <1>1, <1>5, <2>1 DEF ApartInv, LastPts
<1>13. FirstInv'
  BY <1>5 DEF FirstInv
<1> QED
  BY <1>7, <1>8, <1>9, <1>10, <1>11, <1>12, <1>13 DEF StoreInv

\* Every step keeps the invariant.
LEMMA StoreStep ==
  ASSUME StoreInv, [StoreNext]_storeVars
  PROVE  StoreInv'
<1>1. CASE \E sample \in Sample : Appendable(sample) /\ StoreAppend(sample)
  <2>1. PICK sample \in Sample : Appendable(sample) /\ StoreAppend(sample)
    BY <1>1
  <2>2. PICK n \in 0..Len(Closed(sample)) : Drops(sample, n)
    BY <2>1, AppendStep DEF StoreInv
  <2> QED
    BY <2>1, <2>2, AppendType, AppendRecent, AppendClosed, AppendGone, AppendOldest, AppendApart,
       AppendFirst
       DEF StoreInv
<1>2. CASE StoreSnapshot
  BY <1>2, SnapshotSafe
<1>3. CASE Clear
  BY <1>3, ClearSafe
<1>4. CASE UNCHANGED storeVars
  <2>1. sealed' = sealed /\ active' = active /\ recorded' = recorded /\ cuts' = cuts
    BY <1>4 DEF storeVars
  <2>2. Stored' = Stored
    BY <2>1 DEF Stored
  <2>3. TypeOK' /\ ShapeInv' /\ RecentInv' /\ GoneInv' /\ FirstInv'
    BY <2>1, <2>2 DEF StoreInv, TypeOK, ShapeInv, RecentInv, GoneInv, FirstInv
  <2>4. ClosedInv'
    BY <2>1 DEF StoreInv, ClosedInv, LastPts
  <2>5. OldestInv' /\ ApartInv'
    BY <2>1 DEF StoreInv, OldestInv, ApartInv, LastPts
  <2> QED
    BY <2>3, <2>4, <2>5 DEF StoreInv
<1> QED
  BY <1>1, <1>2, <1>3, <1>4 DEF StoreNext

\* The invariant holds of the store (SegmentStore.cpp:49-96).
THEOREM StoreInvariant == StoreSpec => []StoreInv
<1> QED
  BY InitSafe, StoreStep, PTL DEF StoreSpec

\* The store is well formed, and holds nothing from before it was cleared
\* (SegmentStore.cpp:94-96).
THEOREM StoreTypeCorrect == StoreSpec => []TypeOK
<1>1. StoreInv => TypeOK
  BY DEF StoreInv
<1> QED
  BY <1>1, StoreInvariant, PTL

-----------------------------------------------------------------------------
(* A replay *)

\* Every recorded sample of the desired time is stored, so that the newest of those that are
\* stored is the newest of all.
LEMMA DesiredIsStored ==
  ASSUME StoreInv, recorded # {}
  PROVE  /\ \A s \in recorded : s.pts >= Desired(recorded) => s \in Stored
         /\ Newest(Stored) = Newest(recorded) /\ Newest(recorded) \in Int
         /\ Desired(recorded) \in Int
<1>1. /\ recorded \in SUBSET Sample /\ Stored \subseteq recorded /\ Retention \in Int
      /\ Retention >= 1
  BY StoreAssumption DEF StoreInv, TypeOK
<1>2. /\ Newest(recorded) \in 0..MaxPts
      /\ \E s \in recorded : Newest(recorded) = s.pts
      /\ \A s \in recorded : s.pts <= Newest(recorded)
  BY <1>1, NewestIs
<1>3. \A s \in recorded : s.pts \in Int
  BY <1>1, SampleIs
<1>4. Desired(recorded) = Newest(recorded) - Retention
  BY DEF Desired
<1>5. ASSUME NEW s \in recorded, s.pts >= Desired(recorded), s \notin Stored
      PROVE  FALSE
  <2>1. PICK r \in recorded : s.pts < r.pts - Retention
    BY <1>5 DEF StoreInv, RecentInv
  <2> QED
    BY <1>1, <1>2, <1>3, <1>4, <1>5, <2>1
<1>6. Newest(Stored) = Newest(recorded)
  <2>1. PICK s \in recorded : Newest(recorded) = s.pts
    BY <1>2
  <2>2. s \in Stored
    BY <1>1, <1>2, <1>4, <1>5, <2>1
  <2>3. /\ Newest(Stored) \in 0..MaxPts /\ \E x \in Stored : Newest(Stored) = x.pts
        /\ \A x \in Stored : x.pts <= Newest(Stored)
    BY <1>1, <2>2, NewestIs
  <2>4. Newest(Stored) <= Newest(recorded) /\ Newest(recorded) <= Newest(Stored)
    BY <1>1, <1>2, <2>1, <2>2, <2>3
  <2> QED
    BY <1>2, <2>3, <2>4
<1> QED
  BY <1>1, <1>2, <1>4, <1>5, <1>6

\* Where a replay starts: before the desired start, or not after any keyframe.
LEMMA StartIs ==
  ASSUME NEW samples \in SUBSET Sample, Desired(samples) \in Int,
         NEW k \in samples, k.kind = "key"
  PROVE  /\ Start(samples) \in Int
         /\ \/ Start(samples) <= Desired(samples)
            \/ \A x \in samples : x.kind = "key" =>
                 Start(samples) <= x.pts /\ Desired(samples) < x.pts
<1> DEFINE keys == {s.pts : s \in {x \in samples : x.kind = "key"}}
           before == {p \in keys : p <= Desired(samples)}
<1>1. /\ keys \subseteq 0..MaxPts /\ k.pts \in keys
      /\ \A x \in samples : x.kind = "key" => x.pts \in keys
  BY SampleIs
<1>2. Start(samples) = IF before # {} THEN Max(before) ELSE Min(keys)
  BY DEF Start
<1>3. \A p \in keys : p \in before <=> p <= Desired(samples)
  OBVIOUS
<1>4. before \subseteq keys
  OBVIOUS
<1> HIDE DEF keys, before
<1>5. /\ keys \in SUBSET Int /\ before \in SUBSET Int /\ keys # {}
      /\ MaxPts \in Int /\ \A x \in before : x <= MaxPts
      /\ 0 \in Int /\ \A x \in keys : 0 <= x
  BY <1>1, <1>4, StoreAssumption
<1>6. CASE before # {}
  <2>1. Max(before) \in before
    BY <1>5, <1>6, MaxIsGreatest
  <2> QED
    BY <1>2, <1>3, <1>4, <1>5, <1>6, <2>1
<1>7. CASE before = {}
  <2>1. Min(keys) \in keys /\ \A x \in keys : Min(keys) <= x
    BY <1>5, MinIsLeast
  <2>2. \A p \in keys : Desired(samples) < p
    BY <1>3, <1>5, <1>7
  <2> QED
    BY <1>1, <1>2, <1>5, <1>7, <2>1, <2>2
<1> QED
  BY <1>6, <1>7

\* Of the keyframes that are gone and not after a frame, one is the last.
LEMMA LastGone ==
  ASSUME StoreInv, NEW k \in recorded \ Stored, k.kind = "key"
  PROVE  \E last \in recorded \ Stored :
           /\ last.kind = "key" /\ k.pts <= last.pts
           /\ \A x \in recorded \ Stored : x.kind = "key" => x.pts <= last.pts
<1> DEFINE gone == {s.pts : s \in {x \in recorded \ Stored : x.kind = "key"}}
<1>1. recorded \subseteq Sample
  BY DEF StoreInv, TypeOK
<1>2. /\ gone \subseteq 0..MaxPts /\ k.pts \in gone
      /\ \A x \in recorded \ Stored : x.kind = "key" => x.pts \in gone
  BY <1>1, SampleIs
<1>3. \A p \in gone : \E x \in recorded \ Stored : x.kind = "key" /\ x.pts = p
  OBVIOUS
<1> HIDE DEF gone
<1>4. /\ gone \in SUBSET Int /\ gone # {} /\ MaxPts \in Int /\ \A x \in gone : x <= MaxPts
  BY <1>2, StoreAssumption
<1>5. Max(gone) \in gone /\ \A x \in gone : x <= Max(gone)
  BY <1>4, MaxIsGreatest
<1>6. PICK last \in recorded \ Stored : last.kind = "key" /\ last.pts = Max(gone)
  BY <1>3, <1>5
<1> QED
  BY <1>2, <1>5, <1>6

\* The invariant gives what a replay holds.
LEMMA StoreKeepsWindow == StoreInv => WindowKept
<1> SUFFICES ASSUME StoreInv, NEW s \in recorded, s.kind # "audio",
                    s.pts >= Desired(recorded),
                    NEW k \in recorded, k.kind = "key", k.pts <= s.pts,
                    \A c \in cuts : ~(k.pts < c /\ c <= s.pts)
             PROVE  s \in SelectReplaySamples(Stored)
  BY DEF WindowKept
<1>1. /\ recorded \subseteq Sample /\ Stored \in SUBSET Sample /\ Stored \subseteq recorded
      /\ cuts \subseteq Int
      /\ Retention \in Int
  BY StoreAssumption DEF StoreInv, TypeOK
<1>2. \A r \in recorded : r.pts \in Int
  BY <1>1, SampleIs
<1>3. /\ s \in Stored /\ Desired(recorded) \in Int
      /\ Newest(Stored) = Newest(recorded) /\ Newest(recorded) \in Int
  BY DesiredIsStored
<1>4. Desired(Stored) = Desired(recorded) /\ Desired(recorded) = Newest(recorded) - Retention
  BY <1>3 DEF Desired
<1>5. \A r \in recorded : r.pts <= Newest(recorded)
  BY <1>1, NewestIs
<1>6. SUFFICES \E x \in Stored : x.kind = "key" /\ x.pts <= s.pts
  <2>1. PICK x \in Stored : x.kind = "key" /\ x.pts <= s.pts
    BY <1>6
  <2>2. /\ Start(Stored) \in Int
        /\ \/ Start(Stored) <= Desired(Stored)
           \/ \A y \in Stored : y.kind = "key" =>
                Start(Stored) <= y.pts /\ Desired(Stored) < y.pts
    BY <1>1, <1>3, <1>4, <2>1, StartIs
  <2>3. s.pts >= Start(Stored)
    BY <1>1, <1>2, <1>3, <1>4, <2>1, <2>2
  <2> QED
    BY <1>3, <2>1, <2>3 DEF SelectReplaySamples
<1>7. CASE k \in Stored
  BY <1>7
<1>8. CASE k \notin Stored
  <2>1. PICK last \in recorded \ Stored :
          /\ last.kind = "key" /\ k.pts <= last.pts
          /\ \A x \in recorded \ Stored : x.kind = "key" => x.pts <= last.pts
    BY <1>8, LastGone
  <2>2. CASE \E c \in cuts, r \in recorded : last.pts < c /\ c <= r.pts - Retention
    <3>1. PICK c \in cuts, r \in recorded : last.pts < c /\ c <= r.pts - Retention
      BY <2>2
    <3>2. k.pts < c /\ c <= s.pts
      BY <1>1, <1>2, <1>3, <1>4, <1>5, <2>1, <3>1
    <3> QED
      BY <3>2
  <2>3. CASE \E next \in recorded :
               /\ next.kind = "key" /\ next.pts > last.pts
               /\ \A x \in Stored : x.kind # "audio" => x.pts >= next.pts
    <3>1. PICK next \in recorded :
            /\ next.kind = "key" /\ next.pts > last.pts
            /\ \A x \in Stored : x.kind # "audio" => x.pts >= next.pts
      BY <2>3
    <3>2. next \in Stored
      BY <1>2, <2>1, <3>1
    <3>3. next.pts <= s.pts
      BY <1>2, <1>3, <3>1
    <3> QED
      BY <3>1, <3>2, <3>3
  <2> QED
    BY <2>1, <2>2, <2>3 DEF StoreInv, GoneInv
<1> QED
  BY <1>7, <1>8

\* A replay holds every frame of its time that can be decoded (SegmentStore.cpp:58-84, 88,
\* 106-121).
THEOREM ReplayHoldsItsTime == StoreSpec => []WindowKept
<1> QED
  BY StoreKeepsWindow, StoreInvariant, PTL

-----------------------------------------------------------------------------
(* The bound *)

\* The times between which the longest gap is taken.
KeyTimes == TimesOf({"key"}) \cup {Min({s.pts : s \in recorded}), Newest(recorded) + 1}

\* They are those of keyframes, of the oldest sample and of the end.
LEMMA KeyTimesAre ==
  ASSUME TypeOK, recorded # {}
  PROVE  /\ KeyTimes \in SUBSET (0..(MaxPts + 1))
         /\ Newest(recorded) + 1 \in KeyTimes
         /\ \E m \in KeyTimes : \A s \in recorded : m <= s.pts
         /\ \A t \in KeyTimes : \/ \E k \in recorded : k.kind = "key" /\ k.pts = t
                                \/ \A s \in recorded : t <= s.pts
                                \/ t = Newest(recorded) + 1
<1>1. recorded \in SUBSET Sample
  BY DEF TypeOK
<1> DEFINE all == {s.pts : s \in recorded}
           m == Min(all)
<1>2. all \subseteq 0..MaxPts /\ all # {} /\ \A s \in recorded : s.pts \in all
  BY <1>1, SampleIs
<1>3. m \in all /\ \A x \in all : m <= x
  <2> HIDE DEF all
  <2>1. all \in SUBSET Int /\ 0 \in Int /\ \A x \in all : 0 <= x
    BY <1>2, StoreAssumption
  <2> QED
    BY <1>2, <2>1, MinIsLeast
<1>4. KeyTimes = TimesOf({"key"}) \cup {m, Newest(recorded) + 1}
  BY DEF KeyTimes
<1> HIDE DEF m, all
<1>5. Newest(recorded) \in 0..MaxPts
  BY <1>1, NewestIs
<1>6. \A t \in TimesOf({"key"}) : \E k \in recorded : k.kind = "key" /\ k.pts = t
  BY DEF TimesOf
<1>7. \A t \in TimesOf({"key"}) : t \in 0..MaxPts
  BY <1>1, <1>6, SampleIs
<1>8. m \in 0..MaxPts /\ \A s \in recorded : m <= s.pts
  BY <1>2, <1>3
<1>9. KeyTimes \in SUBSET (0..(MaxPts + 1))
  BY <1>4, <1>5, <1>7, <1>8, StoreAssumption
<1>10. \A t \in KeyTimes : \/ \E k \in recorded : k.kind = "key" /\ k.pts = t
                           \/ \A s \in recorded : t <= s.pts
                           \/ t = Newest(recorded) + 1
  BY <1>4, <1>6, <1>8
<1>11. Newest(recorded) + 1 \in KeyTimes /\ \E t \in KeyTimes : \A s \in recorded : t <= s.pts
  BY <1>4, <1>8
<1> QED
  BY <1>9, <1>10, <1>11

\* The longest gap is at least that around any time up to the end.
LEMMA GapIs ==
  ASSUME TypeOK, recorded # {}, NEW e \in Int, e <= Newest(recorded) + 1
  PROVE  /\ KeyframeGap \in Int
         /\ \E p \in KeyTimes, q \in KeyTimes :
              /\ e <= q /\ q - p <= KeyframeGap /\ p <= q
              /\ p < e \/ \A t \in KeyTimes : q <= t
<1> DEFINE before(q) == {p \in KeyTimes : p < q} \cup {Min(KeyTimes)}
           gap(q) == q - Max(before(q))
           gaps == {gap(q) : q \in KeyTimes}
<1>1. /\ KeyTimes \in SUBSET Int /\ KeyTimes # {} /\ 0 \in Int /\ MaxPts + 1 \in Int
      /\ \A t \in KeyTimes : 0 <= t /\ t <= MaxPts + 1
  BY KeyTimesAre, StoreAssumption
<1>2. Min(KeyTimes) \in KeyTimes /\ \A t \in KeyTimes : Min(KeyTimes) <= t
  BY <1>1, MinIsLeast
<1>3. ASSUME NEW q \in KeyTimes
      PROVE  /\ Max(before(q)) \in KeyTimes /\ Max(before(q)) <= q
             /\ \A p \in KeyTimes : p < q => p <= Max(before(q))
             /\ Max(before(q)) < q \/ Max(before(q)) = Min(KeyTimes)
             /\ gap(q) \in 0..(MaxPts + 1)
  <2>1. before(q) \subseteq KeyTimes /\ before(q) # {} /\ \A p \in before(q) : p <= q
    BY <1>1, <1>2
  <2>2. \A p \in KeyTimes : p < q => p \in before(q)
    OBVIOUS
  <2>3. Max(before(q)) \in before(q) /\ \A p \in before(q) : p <= Max(before(q))
    <3> HIDE DEF before
    <3>1. before(q) \in SUBSET Int /\ \A p \in before(q) : p <= MaxPts + 1
      BY <1>1, <2>1
    <3> QED
      BY <1>1, <2>1, <3>1, MaxIsGreatest
  <2>6. Max(before(q)) < q \/ Max(before(q)) = Min(KeyTimes)
    BY <2>3
  <2> HIDE DEF before
  <2>4. Max(before(q)) \in KeyTimes /\ Max(before(q)) <= q
    BY <2>1, <2>3
  <2>5. q - Max(before(q)) \in 0..(MaxPts + 1)
    <3>1. \A a, b, n \in Int : 0 <= a /\ a <= b /\ b <= n => b - a \in 0..n
      OBVIOUS
    <3>2. q \in Int /\ q <= MaxPts + 1
      BY <1>1
    <3>3. Max(before(q)) \in Int /\ 0 <= Max(before(q))
      BY <1>1, <2>4
    <3> QED
      BY <1>1, <2>4, <3>1, <3>2, <3>3
  <2> QED
    BY <2>2, <2>3, <2>4, <2>5, <2>6
<1>4. KeyframeGap = Max(gaps)
  BY DEF KeyframeGap, KeyTimes
<1>5. KeyframeGap \in Int /\ \A q \in KeyTimes : gap(q) <= KeyframeGap
  <2>1. gaps # {} /\ \A g \in gaps : g \in 0..(MaxPts + 1)
    BY <1>1, <1>3
  <2>2. \A q \in KeyTimes : gap(q) \in gaps
    OBVIOUS
  <2> HIDE DEF gaps, gap
  <2>3. gaps \in SUBSET Int /\ \A g \in gaps : g <= MaxPts + 1
    BY <1>1, <2>1
  <2>4. Max(gaps) \in gaps /\ \A g \in gaps : g <= Max(gaps)
    BY <1>1, <2>1, <2>3, MaxIsGreatest
  <2> QED
    BY <1>4, <2>2, <2>3, <2>4
<1> DEFINE late == {t \in KeyTimes : e <= t}
<1>6. /\ late \in SUBSET Int /\ late # {} /\ \A t \in late : e <= t
      /\ \A t \in KeyTimes : ~(e <= t) => t < e
  <2>1. late \in SUBSET Int /\ \A t \in late : e <= t
    BY <1>1
  <2>2. Newest(recorded) + 1 \in KeyTimes
    BY KeyTimesAre
  <2>3. Newest(recorded) + 1 \in late
    BY <2>2
  <2>4. \A t \in KeyTimes : t \in Int
    BY <1>1
  <2>5. \A t \in KeyTimes : ~(e <= t) => t < e
    <3> HIDE DEF KeyTimes
    <3> QED
      BY <2>4
  <2> QED
    BY <2>1, <2>3, <2>5
<1>7. PICK q \in late : \A t \in late : q <= t
  <2> HIDE DEF late
  <2> QED
    BY <1>6, MinIsLeast
<1>8. q \in KeyTimes /\ e <= q
  OBVIOUS
<1> DEFINE p == Max(before(q))
<1>9. p \in KeyTimes /\ p <= q /\ q - p <= KeyframeGap
  BY <1>3, <1>5, <1>8
<1>10. p < q \/ p = Min(KeyTimes)
  BY <1>3, <1>8
<1>15. \A t \in KeyTimes : t < q => t <= p
  BY <1>3, <1>8
<1> HIDE DEF p, before, gap, gaps
<1>11. CASE p < q
  <2>1. p \notin late
    BY <1>1, <1>7, <1>9, <1>11
  <2> QED
    BY <1>5, <1>6, <1>8, <1>9, <2>1
<1>12. CASE p = q
  <2>1. ~(p < q)
    BY <1>1, <1>8, <1>12
  <2>2. \A t \in KeyTimes : q <= t
    BY <1>2, <1>12, <1>10, <2>1
  <2> QED
    BY <1>5, <1>8, <1>9, <2>2
<1> QED
  BY <1>1, <1>8, <1>9, <1>11, <1>12

\* The oldest segment that is stored ends at most the retention before the newest sample, and
\* every keyframe but those near that end is at most a segment after everything that is stored.
LEMMA OldestSegment ==
  ASSUME StoreInv, Stored # {}
  PROVE  \E last \in Int :
           /\ last <= Newest(recorded) + 1 /\ Newest(recorded) + 1 <= last + Retention
           /\ \A k \in recorded : k.kind = "key" =>
                k.pts >= last - 2 \/ \A x \in Stored : k.pts <= x.pts + SegmentLength
<1>1. /\ sealed \in Seq(Segment) /\ active.samples \subseteq Sample
      /\ \A i \in DOMAIN sealed : sealed[i].samples \subseteq Sample /\ sealed[i].samples # {}
  <2>1. TypeOK /\ ShapeInv
    BY DEF StoreInv
  <2>2. sealed \in Seq(Segment)
    BY <2>1 DEF TypeOK
  <2>3. \A i \in DOMAIN sealed : sealed[i].samples # {}
    BY <2>1 DEF ShapeInv
  <2> QED
    BY <2>1, <2>2, <2>3, PartTypes
<1>2. recorded \in SUBSET Sample /\ Stored \subseteq recorded /\ recorded # {}
  BY DEF StoreInv, TypeOK
<1>3. PICK r \in recorded : Newest(recorded) = r.pts
  BY <1>2, NewestIs
<1>4. /\ Newest(recorded) \in 0..MaxPts /\ \A s \in recorded : s.pts <= Newest(recorded)
  BY <1>2, NewestIs
<1>5. \A i \in DOMAIN sealed : sealed[i].samples \subseteq Stored
  BY DEF Stored
<1>6. active.samples \subseteq Stored
  BY DEF Stored
<1>7. CASE sealed # <<>>
  <2>1. 1 \in DOMAIN sealed /\ \A j \in DOMAIN sealed : j \in Int /\ j >= 1
    BY <1>1, <1>7
  <2>2. PICK g \in sealed[1].samples : LastPts(sealed[1]) = g.pts + 1
    BY <1>1, <2>1, LastPtsIs
  <2>3. LastPts(sealed[1]) \in 1..(MaxPts + 1)
    BY <1>1, <2>1, LastPtsIs
  <2>4. g.pts \in Int /\ g.pts <= Newest(recorded)
    BY <1>2, <1>4, <1>5, <2>1, <2>2, SampleIs
  <2>5. r.pts + 1 <= LastPts(sealed[1]) + Retention
    BY <1>7 DEF StoreInv, OldestInv
  <2>6. \A k \in recorded : k.kind = "key" =>
          k.pts >= LastPts(sealed[1]) - 2 \/ \A x \in Stored : k.pts <= x.pts + SegmentLength
    <3>1. SUFFICES ASSUME NEW k \in recorded, k.kind = "key", ~(k.pts >= LastPts(sealed[1]) - 2),
                          NEW x \in Stored
                   PROVE  k.pts <= x.pts + SegmentLength
      OBVIOUS
    <3>2. /\ \A j \in DOMAIN sealed : j >= 1 =>
               \A y \in sealed[j].samples : k.pts <= y.pts + SegmentLength
          /\ \A y \in active.samples : k.pts <= y.pts + SegmentLength
      BY <2>1, <3>1 DEF StoreInv, ApartInv
    <3>3. x \in active.samples \/ \E j \in DOMAIN sealed : x \in sealed[j].samples
      BY DEF Stored
    <3> QED
      BY <2>1, <3>2, <3>3
  <2>7. LastPts(sealed[1]) \in Int /\ LastPts(sealed[1]) <= Newest(recorded) + 1
    BY <1>4, <2>2, <2>4
  <2> QED
    BY <1>3, <2>5, <2>6, <2>7
<1>8. CASE sealed = <<>>
  <2>1. DOMAIN sealed = {}
    BY <1>8
  <2>2. Stored = active.samples
    BY <2>1, Zenon DEF Stored
  <2>3. PICK g \in active.samples : LastPts(active) = g.pts + 1
    BY <1>1, <2>2, LastPtsIs
  <2>4. LastPts(active) \in 1..(MaxPts + 1)
    BY <1>1, <2>2, LastPtsIs
  <2>5. g.pts \in Int /\ g.pts <= Newest(recorded)
    BY <1>2, <1>4, <1>6, <2>3, SampleIs
  <2>6. r.pts + 1 <= LastPts(active) + Retention
    BY <1>8, <2>2 DEF StoreInv, OldestInv
  <2>7. \A k \in recorded : k.kind = "key" => \A x \in Stored : k.pts <= x.pts + SegmentLength
    BY <2>2 DEF StoreInv, ApartInv
  <2>8. LastPts(active) \in Int /\ LastPts(active) <= Newest(recorded) + 1
    BY <1>4, <2>3, <2>5
  <2> QED
    BY <1>3, <2>6, <2>7, <2>8
<1> QED
  BY <1>7, <1>8

\* Hence nothing that is stored is older than the oldest segment's end by more than a segment
\* and the gap that end lies in.
LEMMA StoreIsBounded == StoreInv => SpanBounded
<1>1. SUFFICES ASSUME StoreInv, Stored # {}
               PROVE  Newest(Stored) - Min({s.pts : s \in Stored})
                        <= Retention + SegmentLength + KeyframeGap + 1
  BY DEF SpanBounded
<1>2. TypeOK /\ recorded \in SUBSET Sample /\ Stored \subseteq recorded /\ recorded # {}
  BY <1>1 DEF StoreInv, TypeOK
<1>3. /\ Newest(recorded) \in 0..MaxPts /\ \A s \in recorded : s.pts <= Newest(recorded)
  BY <1>2, NewestIs
<1>4. Newest(Stored) \in Int /\ Newest(Stored) <= Newest(recorded)
  <2>1. PICK s \in Stored : Newest(Stored) = s.pts
    BY <1>1, <1>2, NewestIs
  <2> QED
    BY <1>2, <1>3, <2>1, SampleIs
<1>5. PICK x \in Stored : Min({s.pts : s \in Stored}) = x.pts
  <2> DEFINE times == {s.pts : s \in Stored}
  <2>1. times \in SUBSET Int /\ times # {} /\ 0 \in Int /\ \A t \in times : 0 <= t
    BY <1>1, <1>2, SampleIs, StoreAssumption
  <2>2. Min(times) \in times
    <3> HIDE DEF times
    <3> QED
      BY <2>1, MinIsLeast
  <2> QED
    BY <2>2
<1>6. x \in recorded /\ x.pts \in Int
  BY <1>2, SampleIs
<1>7. PICK last \in Int :
        /\ last <= Newest(recorded) + 1 /\ Newest(recorded) + 1 <= last + Retention
        /\ \A k \in recorded : k.kind = "key" =>
             k.pts >= last - 2 \/ \A y \in Stored : k.pts <= y.pts + SegmentLength
  BY <1>1, OldestSegment
<1>8. KeyframeGap \in Int /\ Retention \in Int /\ SegmentLength \in Int /\ SegmentLength >= 0
  BY <1>2, <1>3, GapIs, StoreAssumption
<1>9. PICK p \in KeyTimes, q \in KeyTimes :
        /\ last - 2 <= q /\ q - p <= KeyframeGap /\ p <= q
        /\ p < last - 2 \/ \A t \in KeyTimes : q <= t
  <2>1. last - 2 \in Int /\ last - 2 <= Newest(recorded) + 1
    BY <1>3, <1>7
  <2> QED
    BY <1>2, <2>1, GapIs
<1>10. p \in Int /\ q \in Int
  BY <1>2, <1>9, KeyTimesAre, StoreAssumption
<1>11. last - 2 <= x.pts + SegmentLength + KeyframeGap
  <2>1. CASE p < last - 2
    <3>1. \/ \E k \in recorded : k.kind = "key" /\ k.pts = p
          \/ \A s \in recorded : p <= s.pts
          \/ p = Newest(recorded) + 1
      BY <1>2, KeyTimesAre
    <3>2. ASSUME NEW k \in recorded, k.kind = "key", k.pts = p
          PROVE  p <= x.pts + SegmentLength
      BY <1>7, <1>10, <2>1, <3>2
    <3>3. p # Newest(recorded) + 1
      BY <1>3, <1>7, <1>10, <2>1
    <3>4. p <= x.pts + SegmentLength
      BY <1>6, <1>8, <1>10, <3>1, <3>2, <3>3
    <3> QED
      BY <1>6, <1>7, <1>8, <1>9, <1>10, <3>4
  <2>2. CASE \A t \in KeyTimes : q <= t
    <3>1. PICK m \in KeyTimes : \A s \in recorded : m <= s.pts
      BY <1>2, KeyTimesAre
    <3>2. m \in Int
      BY <1>2, KeyTimesAre, StoreAssumption
    <3>3. q <= m /\ m <= x.pts
      BY <1>6, <2>2, <3>1
    <3> QED
      BY <1>6, <1>7, <1>8, <1>9, <1>10, <3>2, <3>3
  <2> QED
    BY <1>9, <2>1, <2>2
<1> QED
  BY <1>3, <1>4, <1>5, <1>6, <1>7, <1>8, <1>11

\* The buffer does not grow, however often saves close segments, for any retention, length of
\* a segment and times of samples: what it holds spans no more than the retention, a segment
\* and the longest time without a keyframe (SegmentStore.cpp:58-84).
THEOREM BufferIsBounded == StoreSpec => []SpanBounded
<1>1. StoreInv => SpanBounded
  BY StoreIsBounded
<1> QED
  BY <1>1, StoreInvariant, PTL
=============================================================================
