----------------------- MODULE MCWorktreeOrchestration -----------------------
(***************************************************************************)
(* Small instances of WorktreeOrchestration for TLC.                       *)
(***************************************************************************)
EXTENDS WorktreeOrchestration, TLC

Interchangeable == Permutations(Caller) \cup Permutations(Request)
=============================================================================
