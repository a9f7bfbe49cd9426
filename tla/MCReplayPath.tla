---------------------------- MODULE MCReplayPath ----------------------------
(* Two sizes, an encoder that may hold a frame back, and two faults: write    *)
(* errors, or frames that the encoder fails on.                               *)
EXTENDS ReplayPath
=============================================================================
