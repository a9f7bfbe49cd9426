-------------------------- MODULE MCUploadSession --------------------------
(* One session, two requests at a time, a file of four storage units in   *)
(* chunks of at most two.                                                  *)
EXTENDS UploadSession, TLC

HandlerSymmetry == Permutations(Handlers)
=============================================================================
