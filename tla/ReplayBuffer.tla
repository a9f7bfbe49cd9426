---------------------------- MODULE ReplayBuffer ----------------------------
(***************************************************************************)
(* The replay buffer of the worker: ReplayBuffer with its atomic state_,   *)
(* the three steps of on_sample on the encoder thread, and the thread that *)
(* writes a replay, with save_future_ of Application.  The store is kept   *)
(* as what the longest replay taken from it would hold; SegmentStore has   *)
(* the segments, their eviction and the choice of the first keyframe.      *)
(* Audio samples and presentation times are left out.                      *)
(***************************************************************************)
EXTENDS Integers

CONSTANTS
  Sizes,    \* the sizes the frames of the game may have
  MaxFaults \* bound: errors of encoder, disk and audio device in a run

ASSUME ReplayAssumption ==
  /\ Sizes \subseteq Nat \ {0}
  /\ MaxFaults \in Nat

VARIABLES
  state,  \* ReplayBuffer::state_
  store,  \* what a replay would hold: see Content
  feed,   \* on_sample: its step, and history: it missed a sample since the last one
  writer, \* the thread of a save: its step, what it writes, and the size it declares
  future, \* save_future_
  faults  \* history: errors so far

replayVars == <<state, store, feed, writer, future, faults>>

-----------------------------------------------------------------------------
Size == Sizes \cup {0}
\* From its first keyframe on: key, there is one; sizes, those of its frames; hole, a
\* sample is missing between two because the buffer was not running; late, the last sample
\* came while the buffer was being stopped or after; foreign, a size was never published.
Content == [key: BOOLEAN, sizes: SUBSET Sizes, hole: BOOLEAN, late: BOOLEAN,
            foreign: BOOLEAN]
\* calm is history: no size changed while the command was served.
Order == [size: Size, calm: BOOLEAN]
Feeding == [pc: {"idle", "again", "append"}, missed: BOOLEAN]
Saving == [pc: {"idle", "write", "end", "run", "done"}, taken: Content, order: Order]

Empty == [key |-> FALSE, sizes |-> {}, hole |-> FALSE, late |-> FALSE, foreign |-> FALSE]
NoOrder == [size |-> 0, calm |-> FALSE]

BufferTypeOK ==
  /\ state \in {"stopped", "starting", "running", "saving", "error"}
  /\ store \in Content
  /\ feed \in Feeding
  /\ writer \in Saving
  /\ future \in {"none", "pending", "ready", "deferred"}
  /\ faults \in 0..MaxFaults

\* initialize() starts the buffer when the config says so.
BufferInit ==
  /\ state \in {"stopped", "running"}
  /\ store = Empty
  /\ feed = [pc |-> "idle", missed |-> FALSE]
  /\ writer = [pc |-> "idle", taken |-> Empty, order |-> NoOrder]
  /\ future = "none"
  /\ faults = 0

Fault == faults < MaxFaults /\ faults' = faults + 1

-----------------------------------------------------------------------------
(* on_sample: two loads of state_, then the store *)

FirstLoad ==
  /\ feed.pc = "idle"
  /\ feed' = [feed EXCEPT !.pc = IF state = "running" THEN "append" ELSE "again"]
  /\ UNCHANGED <<state, store, writer, future, faults>>

SecondLoad ==
  /\ feed.pc = "again" /\ state = "saving"
  /\ feed' = [feed EXCEPT !.pc = "append"]
  /\ UNCHANGED <<state, store, writer, future, faults>>

\* The sample is missed; missed when the buffer did not run, and not because state_
\* changed between the two loads.
Ignore ==
  /\ feed.pc = "again" /\ state # "saving"
  /\ feed' = [pc |-> "idle", missed |-> feed.missed \/ state \in {"stopped", "starting"}]
  /\ UNCHANGED <<state, store, writer, future, faults>>

\* A replay begins at a keyframe, so what comes before the first one is left out.
AppendSample(sizes, late, foreign) ==
  /\ feed.pc = "append"
  /\ \/ /\ store.key
        /\ store' = [key |-> TRUE, sizes |-> store.sizes \cup sizes,
                     hole |-> store.hole \/ (feed.missed /\ ~store.late),
                     late |-> late, foreign |-> store.foreign \/ foreign]
     \/ /\ ~store.key
        /\ store' = [Empty EXCEPT !.key = TRUE, !.sizes = sizes, !.late = late,
                                  !.foreign = foreign]
     \/ /\ ~store.key
        /\ store' = [Empty EXCEPT !.late = late]
  /\ feed' = [pc |-> "idle", missed |-> FALSE]
  /\ UNCHANGED <<state, writer, future, faults>>

AppendFails ==
  /\ feed.pc = "append" /\ Fault
  /\ state' = "error"
  /\ feed' = [pc |-> "idle", missed |-> FALSE]
  /\ UNCHANGED <<store, writer, future>>

-----------------------------------------------------------------------------
(* The thread of a save *)

\* Writes the file, or fails: without a keyframe, or in the muxer.  Either way the save
\* goes on to its end.
WriteReplay ==
  /\ writer.pc = "write"
  /\ writer' = [pc |-> "end", taken |-> Empty, order |-> NoOrder]
  /\ UNCHANGED <<state, store, feed, future, faults>>

\* Under save_mutex_: save_active_ is cleared and state_ read, then written.
EndSave ==
  /\ writer.pc = "end"
  /\ writer' = [writer EXCEPT !.pc = IF state = "error" THEN "done" ELSE "run"]
  /\ UNCHANGED <<state, store, feed, future, faults>>

RunAgain ==
  /\ writer.pc = "run"
  /\ state' = "running"
  /\ writer' = [writer EXCEPT !.pc = "done"]
  /\ UNCHANGED <<store, feed, future, faults>>

ResultReady ==
  /\ writer.pc = "done"
  /\ writer' = [writer EXCEPT !.pc = "idle"]
  /\ future' = "ready"
  /\ UNCHANGED <<state, store, feed, faults>>

Writer == WriteReplay \/ EndSave \/ RunAgain \/ ResultReady
=============================================================================
