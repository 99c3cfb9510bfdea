---------------------------- MODULE MCRetention ----------------------------
(***************************************************************************)
(* Small instances of RetentionTransaction for TLC: a job with its review, *)
(* and a job in between that led to no review.                             *)
(***************************************************************************)
EXTENDS RetentionTransaction, TLC

MCBundle == <<"reviewed", "single", "reviewed">>
MCClass == <<"job", "job", "review">>
MCReview == {3}
MCSize == <<1, 1, 1>>
MCCeiling == [job |-> 1, review |-> 1]

(* Nothing is old enough, or the jobs alone.                               *)
MCCutoff == {[job |-> 1, review |-> 1], [job |-> 4, review |-> 1]}

(* The instance meets the hypothesis of the theorem about whole bundles.   *)
ASSUME MCJobsComeFirst == JobsComeFirst
=============================================================================
