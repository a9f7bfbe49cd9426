----------------------------- MODULE ReplayPath -----------------------------
(***************************************************************************)
(* The replay buffer under the threads that drive it: the encoder thread   *)
(* (encoder_loop, recover_pipeline, the drain of the encoder) and the IPC  *)
(* thread (replay_start, replay_stop, replay_save).  Recorder has the same *)
(* encoder thread beside the recording session; here any failed frame may  *)
(* be the third in a row, and Capture has the part with the devices.       *)
(***************************************************************************)
EXTENDS ReplayBuffer

CONSTANT Latency \* how many frames the encoder holds back

ASSUME LatencyAssumption == Latency \in Nat

VARIABLES
  video,   \* the encoder thread: its step, the size of its frame, whether it recovers
  encoder, \* the size it is configured for (0: none) and how many frames it holds
  stream,  \* the published size; 0 when there is none
  ipc      \* the IPC thread: its step and the replay_save it serves

vars == <<replayVars, video, encoder, stream, ipc>>

Thread == [pc: {"idle", "reset", "drain", "encode", "emit", "device"},
           size: Size, recovering: BOOLEAN]
Encoder == [size: Size, held: Nat]
Command == [pc: {"idle", "starting", "clear", "stopped", "ready", "lock", "mark", "snapshot"},
            order: Order]

PathTypeOK ==
  /\ BufferTypeOK
  /\ video \in Thread
  /\ encoder \in Encoder /\ encoder.held <= Latency + 1 + faults
  /\ stream \in Size
  /\ ipc \in Command

PathInit ==
  /\ BufferInit
  /\ video = [pc |-> "idle", size |-> 0, recovering |-> FALSE]
  /\ encoder = [size |-> 0, held |-> 0]
  /\ stream = 0
  /\ ipc = [pc |-> "idle", order |-> NoOrder]

-----------------------------------------------------------------------------
(* The encoder thread *)

Goto(pc) == video' = [video EXCEPT !.pc = pc]
NextFrame == video' = [pc |-> "idle", size |-> 0, recovering |-> FALSE]
\* A size changes: the command that is being served is not calm.
Disturb == ipc' = [ipc EXCEPT !.order.calm = FALSE]

\* Variant: a change of size does not restart anything.
PopFrameUnchecked(size) ==
  /\ video.pc = "idle"
  /\ video' = [video EXCEPT !.size = size, !.pc = "encode"]
  /\ UNCHANGED <<replayVars, encoder, stream, ipc>>

\* A frame: a size other than the published one restarts everything.
PopFrame(size) ==
  /\ video.pc = "idle"
  /\ video' = [video EXCEPT !.size = size,
                            !.pc = IF stream \in {0, size} THEN "encode" ELSE "reset"]
  /\ IF stream \in {0, size} THEN UNCHANGED ipc ELSE Disturb
  /\ UNCHANGED <<replayVars, encoder, stream>>

\* replay_->reset(), before the encoder is drained when the size changes, after it in a
\* recovery.
ResetBuffer ==
  /\ video.pc = "reset"
  /\ store' = Empty
  /\ Goto(IF video.recovering THEN "device" ELSE "drain")
  /\ UNCHANGED <<state, feed, writer, future, faults, encoder, stream, ipc>>

\* A frame that was held back, or the one just encoded, goes to on_sample.
Feed ==
  /\ video.pc \in {"drain", "emit"} /\ encoder.held > 0
  /\ LET drained == video.pc = "drain" /\ ~video.recovering
         late == state \notin {"running", "saving"} \/ ipc.pc = "stopped"
         foreign == ~drained /\ stream # encoder.size
     IN \/ FirstLoad /\ UNCHANGED encoder
        \/ SecondLoad /\ UNCHANGED encoder
        \/ /\ \/ Ignore \/ AppendFails
              \/ AppendSample(IF drained THEN {} ELSE {encoder.size}, late, foreign)
           /\ encoder' = [encoder EXCEPT !.held = @ - 1]
  /\ UNCHANGED <<video, stream, ipc>>

Drained ==
  /\ video.pc = "drain" /\ encoder.held = 0
  /\ encoder' = [encoder EXCEPT !.size = 0]
  /\ Goto(IF video.recovering THEN "reset" ELSE "encode")
  /\ UNCHANGED <<replayVars, stream, ipc>>

\* An encoder of another size is configured anew.
Encode ==
  /\ video.pc = "encode"
  /\ encoder' = [size |-> video.size,
                 held |-> IF encoder.size = video.size THEN encoder.held + 1 ELSE 1]
  /\ Goto("emit")
  /\ UNCHANGED <<replayVars, stream, ipc>>

\* stream_ is published once encode() has returned; until then its frames are foreign.
Publish ==
  /\ video.pc = "emit" /\ encoder.held <= Latency /\ feed.pc = "idle"
  /\ stream' = encoder.size
  /\ store' = [store EXCEPT !.foreign = @ /\ store.sizes # {encoder.size}]
  /\ NextFrame
  /\ UNCHANGED <<state, feed, writer, future, faults, encoder, ipc>>

\* encode() throws and may tear the encoder down, or stop() throws at a change of size; the
\* third time in a row the pipeline is recovered, where the encoder is stopped first.
EncodeFails ==
  /\ video.pc \in {"drain", "encode", "emit"} /\ ~video.recovering
  /\ feed.pc = "idle" /\ Fault
  /\ encoder' = encoder \/ (video.pc # "drain" /\ encoder' = [size |-> 0, held |-> 0])
  /\ \/ NextFrame /\ UNCHANGED ipc
     \/ /\ video' = [video EXCEPT !.pc = "drain", !.recovering = TRUE]
        /\ Disturb
  /\ UNCHANGED <<state, store, feed, writer, future, stream>>

\* The device is made again and no size is published.
Recover ==
  /\ video.pc = "device"
  /\ stream' = 0
  /\ NextFrame
  /\ UNCHANGED <<replayVars, encoder, ipc>>

\* stop() throws in a recovery, or recreate() does: nothing else of it is done.
RecoverFails ==
  /\ video.pc \in {"drain", "device"} /\ video.recovering
  /\ feed.pc = "idle" /\ Fault
  /\ NextFrame
  /\ UNCHANGED <<state, store, feed, writer, future, encoder, stream, ipc>>

Video == ResetBuffer \/ Feed \/ Drained \/ Encode \/ Publish \/ Recover

-----------------------------------------------------------------------------
(* The IPC thread *)

IpcGoto(pc) == ipc' = [ipc EXCEPT !.pc = pc]

ReplayStart ==
  /\ ipc.pc = "idle" /\ state = "stopped"
  /\ state' = "starting"
  /\ IpcGoto("starting")
  /\ UNCHANGED <<store, feed, writer, future, faults, video, encoder, stream>>

Started ==
  /\ ipc.pc = "starting"
  /\ state' = "running"
  /\ IpcGoto("idle")
  /\ UNCHANGED <<store, feed, writer, future, faults, video, encoder, stream>>

\* Variant: a buffer that saves is stopped as well.
ReplayStopSaving ==
  /\ ipc.pc = "idle" /\ state # "stopped"
  /\ IpcGoto("clear")
  /\ UNCHANGED <<replayVars, video, encoder, stream>>

\* ReplayBuffer::stop reads state_, clears the store, and sets state_.
ReplayStop ==
  /\ ipc.pc = "idle" /\ state \notin {"stopped", "saving"}
  /\ IpcGoto("clear")
  /\ UNCHANGED <<replayVars, video, encoder, stream>>

\* Variant: the store keeps its samples.
ClearNothing ==
  /\ ipc.pc = "clear"
  /\ IpcGoto("stopped")
  /\ UNCHANGED <<replayVars, video, encoder, stream>>

ClearStore ==
  /\ ipc.pc = "clear"
  /\ store' = Empty
  /\ IpcGoto("stopped")
  /\ UNCHANGED <<state, feed, writer, future, faults, video, encoder, stream>>

Stopped ==
  /\ ipc.pc = "stopped"
  /\ state' = "stopped"
  /\ IpcGoto("idle")
  /\ UNCHANGED <<store, feed, writer, future, faults, video, encoder, stream>>

\* replay_save: the buffer runs; the description is copied.
ReplaySave ==
  /\ ipc.pc = "idle" /\ state = "running"
  /\ ipc' = [pc |-> "ready",
             order |-> [size |-> stream,
                        calm |-> /\ stream # 0 /\ ~video.recovering
                                 /\ video.pc = "idle" \/ video.size = stream]]
  /\ UNCHANGED <<replayVars, video, encoder, stream>>

NoReply == [pc |-> "idle", order |-> NoOrder]

\* capture_ready(): the last frame may also be too old.
SaveReady ==
  /\ ipc.pc = "ready"
  /\ \/ stream # 0 /\ IpcGoto("lock")
     \/ ipc' = NoReply
  /\ UNCHANGED <<replayVars, video, encoder, stream>>

\* Under save_mutex_: one save at a time, save_future_ must have been collected.  When
\* ReplayBuffer::save refuses, the future it returns never becomes ready.
LockSave ==
  /\ ipc.pc = "lock"
  /\ LET accepted == state = "running" /\ writer.pc \in {"idle", "done"}
     IN /\ ipc' = IF future = "none" /\ accepted THEN [ipc EXCEPT !.pc = "mark"] ELSE NoReply
        /\ future' = IF future = "none" /\ ~accepted THEN "deferred" ELSE future
  /\ UNCHANGED <<state, store, feed, writer, faults, video, encoder, stream>>

MarkSaving ==
  /\ ipc.pc = "mark"
  /\ state' = "saving"
  /\ IpcGoto("snapshot")
  /\ UNCHANGED <<store, feed, writer, future, faults, video, encoder, stream>>

Snapshot ==
  /\ ipc.pc = "snapshot"
  /\ writer' = [pc |-> "write", taken |-> [store EXCEPT !.late = FALSE], order |-> ipc.order]
  /\ future' = "pending"
  /\ ipc' = NoReply
  /\ UNCHANGED <<state, store, feed, faults, video, encoder, stream>>

SaveSteps == SaveReady \/ LockSave \/ MarkSaving \/ Snapshot

\* Variant: only the next command collects.
CollectOnCommand ==
  /\ future = "ready" /\ ipc.pc = "ready"
  /\ future' = "none"
  /\ UNCHANGED <<state, store, feed, writer, faults, video, encoder, stream, ipc>>

\* collect_save_result, by run() every 100 ms and before each command, under save_mutex_.
Collect ==
  /\ future = "ready" /\ ipc.pc \notin {"mark", "snapshot"}
  /\ future' = "none"
  /\ UNCHANGED <<state, store, feed, writer, faults, video, encoder, stream, ipc>>

WriterStep == Writer /\ UNCHANGED <<video, encoder, stream, ipc>>

PathNext ==
  \/ \E size \in Sizes : PopFrame(size)
  \/ Video \/ EncodeFails \/ RecoverFails
  \/ ReplayStart \/ Started \/ ReplayStop \/ ClearStore \/ Stopped
  \/ ReplaySave \/ SaveSteps
  \/ Collect \/ WriterStep

\* No thread is kept from its next step for ever; that frames come is not assumed, as none do
\* after a recovery that failed.
PathFairness ==
  /\ WF_vars(Video)
  /\ WF_vars(Started \/ ClearStore \/ Stopped \/ SaveSteps)
  /\ WF_vars(Collect) /\ WF_vars(WriterStep)

PathSpec == PathInit /\ [][PathNext]_vars /\ PathFairness

-----------------------------------------------------------------------------
(* Properties *)

\* No sample is missing inside a replay for another reason than a write error, or a
\* sample that met a change of state_ between its two loads or between its check and its
\* append: stopping, starting, resetting and saving leave no hole
\* (ReplayBuffer.cpp:14-23, 29-30).
ReplayWhole == ~writer.taken.hole

\* A replay of a calm command holds frames of its declared size, but for frames of the
\* old size that encoder_->stop() puts out after the buffer was reset, and for a frame of
\* a size that failed before it was published (Application.cpp:41-50, 66-73, 140-141).
ReplayOneSize ==
  writer.order.calm /\ ~writer.taken.foreign =>
    writer.taken.sizes \subseteq {writer.order.size}

\* Without a write error a stopped buffer stays stopped until replay_start, whatever save
\* was under way (ReplayBuffer.cpp:14-18, 43).
StoppedHolds ==
  [][state = "stopped" /\ state' # "stopped" => ipc'.pc = "starting" \/ faults' > 0]_vars

\* A save that was accepted ends and is collected, so that another can follow, unless a
\* write error came between the check of replay_save and that of save()
\* (ReplayBuffer.cpp:26-28, Application.cpp:86-88, 141, 154).
SaveSettles ==
  future # "none" ~> future = "none" \/ (future = "deferred" /\ faults > 0)

=============================================================================
