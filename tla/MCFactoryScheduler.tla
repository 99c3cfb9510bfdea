-------------------------- MODULE MCFactoryScheduler --------------------------
(***************************************************************************)
(* Small instances of FactoryScheduler for TLC.                            *)
(***************************************************************************)
EXTENDS FactoryScheduler, TLC

CONSTANTS
  cash, quota, review, writer,    \* requests
  cashJob, quotaJob, reviewJob, writerJob

MCJobOf ==
  [r \in Request |->
     CASE r = cash -> cashJob
       [] r = quota -> quotaJob
       [] r = review -> reviewJob
       [] OTHER -> writerJob]

(* The cash job and the free writer edit the same worktree.                *)
MCScopeOf == [r \in Request |-> r \in {cash, writer}]

Processes == Permutations(Owner)
=============================================================================
