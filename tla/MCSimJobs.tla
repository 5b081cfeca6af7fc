----------------------------- MODULE MCSimJobs ------------------------------
(***************************************************************************)
(* Two workers on one job.  Two accepted contents tell attempts    *)
(* apart; bad is an episode that the quality gate rejects.                 *)
(***************************************************************************)
EXTENDS SimJobs, TLC

CONSTANTS j1, w1, w2, good, other, bad
=============================================================================
