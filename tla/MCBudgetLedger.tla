---------------------------- MODULE MCBudgetLedger ----------------------------
(***************************************************************************)
(* Two months of which the second has the smaller cap, two cash jobs of    *)
(* which one is an experiment, a quota job and two recorded entries.       *)
(***************************************************************************)
EXTENDS BudgetLedger, TLC

CONSTANTS july, august, k1, k2, trial, work, desk

MCCashCap == july :> 11 @@ august :> 5
MCEmergencyReserve == july :> 1 @@ august :> 1
MCLowestBalance == -6
Keys == Permutations({k1, k2})
=============================================================================
