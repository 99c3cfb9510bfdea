---------------------------- MODULE MCRunWorkflow ----------------------------
(***************************************************************************)
(* A small instance of RunWorkflow for TLC: three files, of which the      *)
(* second has a gate that warns and one that blocks.                       *)
(***************************************************************************)
EXTENDS RunWorkflow, TLC

CONSTANTS warn, block

MCInjected == [t \in 1..3 |-> IF t = 2 THEN {warn, block} ELSE {}]

MCOptions ==
  {[workers |-> 2, failFast |-> TRUE], [workers |-> 2, failFast |-> FALSE],
   [workers |-> 1, failFast |-> TRUE]}
=============================================================================
