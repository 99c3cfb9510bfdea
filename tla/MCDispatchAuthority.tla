------------------------- MODULE MCDispatchAuthority -------------------------
(***************************************************************************)
(* Two cash jobs and one quota job.                                        *)
(***************************************************************************)
EXTENDS DispatchAuthority

CONSTANTS cashJob, cashJob2, quotaJob
=============================================================================
