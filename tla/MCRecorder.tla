----------------------------- MODULE MCRecorder -----------------------------
(* Two record_start commands, two sizes, an encoder that may hold a frame    *)
(* back, recovery at the second failure, three faults: one may end a recovery *)
EXTENDS Recorder
=============================================================================
