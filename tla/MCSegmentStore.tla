--------------------------- MODULE MCSegmentStore ---------------------------
(* A retention of one unit in segments of one, over five units of time, one  *)
(* save.                                                                     *)
EXTENDS SegmentStore
=============================================================================
