---------------------------- MODULE UploadLedger ----------------------------
(***************************************************************************)
(* What the upload queue of the recorder promises for each recording given *)
(* to it: the recording stays queued until it is settled once, as uploaded *)
(* only when its video exists, or as dropped.  Crashes, restarts and       *)
(* retries do not show.                                                    *)
(***************************************************************************)
CONSTANT Files

VARIABLES status,    \* status[f]: what became of recording f
          published  \* the recordings that YouTube has a video of

Status == {"none", "queued", "uploaded", "dropped"}

Init == status = [f \in Files |-> "none"] /\ published = {}

Enqueue(f) ==
  /\ status[f] = "none"
  /\ status' = [status EXCEPT ![f] = "queued"]
  /\ UNCHANGED published

\* At any time once the recording was queued: a request may outlive its job.
Publish(f) ==
  /\ status[f] # "none"
  /\ published' = published \cup {f}
  /\ UNCHANGED status

Settle(f) ==
  /\ status[f] = "queued"
  /\ \/ f \in published /\ status' = [status EXCEPT ![f] = "uploaded"]
     \/ status' = [status EXCEPT ![f] = "dropped"]
  /\ UNCHANGED published

Next == \E f \in Files : Enqueue(f) \/ Publish(f) \/ Settle(f)

Spec == Init /\ [][Next]_<<status, published>>
=============================================================================
