---------------------------- MODULE MCUploadQueue ----------------------------
(* Three recordings of different sizes in an archive that holds one or two  *)
(* of them, a job given up at the second failure, one crash or stop.         *)
EXTENDS UploadQueue

CONSTANTS f1, f2, f3

MCFiles == {f1, f2, f3}
MCSize == [f \in MCFiles |-> IF f = f3 THEN 2 ELSE 1]
=============================================================================
