---------------------------- MODULE MCWorkerLife ----------------------------
(* A queue of two frames and two faults.                                     *)
EXTENDS WorkerLife
=============================================================================
