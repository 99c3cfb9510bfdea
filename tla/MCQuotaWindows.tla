---------------------------- MODULE MCQuotaWindows ----------------------------
(* A monthly cycle of two ticks and a rolling window of two, one unit short *)
(* of what the jobs would use together.                                     *)
EXTENDS QuotaWindows, TLC

CONSTANTS cycle, rolling, j1, j2, j3

TwoTicks == [q \in Quota |-> 2]
TwoUnits == [q \in Quota |-> 2]
OneUnit == [j \in Job |-> 1]

Interchangeable == Permutations(IncludedQuota)
=============================================================================
