-------------------------- MODULE MCUploadPipeline --------------------------
(* A file of two chunks, two sessions, two requests at a time, two faults,  *)
(* one network retry and one retry of the job.                              *)
EXTENDS UploadPipeline
=============================================================================
