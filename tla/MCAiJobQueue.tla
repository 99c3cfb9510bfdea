---------------------------- MODULE MCAiJobQueue ----------------------------
(***************************************************************************)
(* Small instances of AiJobQueue for TLC.                                  *)
(***************************************************************************)
EXTENDS AiJobQueue, TLC

CONSTANTS cashJob, quotaJob

(* The quarantined cash job is requeued to a lane that is billed by quota. *)
MCRequeueOf == cashJob :> quotaJob
=============================================================================
