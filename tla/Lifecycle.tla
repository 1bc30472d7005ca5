----------------------------- MODULE Lifecycle -----------------------------
(***************************************************************************)
(* What one transcode is for its user, whatever threads, locks and buffers *)
(* it is made of: the finite state machine that the statuses of TransState *)
(* name.  A session goes from Initial through SetConfig to one of its two  *)
(* outcomes, from either to Process, and ends Finished; the process may    *)
(* die under it at any moment.                                             *)
(***************************************************************************)
VARIABLES
  status,  (* Status::_current.                                            *)
  alive    (* The process runs.                                            *)

vars == <<status, alive>>

Init == status = "Initial" /\ alive = TRUE

Becomes(from, to) == alive /\ status \in from /\ status' = to /\ UNCHANGED alive

Configure == Becomes({"Initial"}, "SetConfig")
Accept    == Becomes({"SetConfig"}, "SetConfigFinished")
Reject    == Becomes({"SetConfig"}, "SetFailed")
Start     == Becomes({"SetConfigFinished", "SetFailed"}, "Process")
Finish    == Becomes({"Process"}, "Finished")
Perish    == alive /\ alive' = FALSE /\ UNCHANGED status

Next == Configure \/ Accept \/ Reject \/ Start \/ Finish \/ Perish

(* A configuration comes to an outcome and a transcode to an end, or the   *)
(* process dies of it; the user need neither configure nor start.          *)
Conclude == status \in {"SetConfig", "Process"} /\ (Accept \/ Reject \/ Finish \/ Perish)

Safety == Init /\ [][Next]_vars
Spec == Safety /\ WF_vars(Conclude)
=============================================================================
