---------------------------- MODULE DeliveryOrder ----------------------------
(***************************************************************************)
(* What a delivery promises to the people around it, without journals,     *)
(* intents or controllers: an accepted proposal is proposed, landed and    *)
(* then settled with the scheduler; its local copy is dropped only when    *)
(* the landing is known; it is settled only after the copy is gone; and a  *)
(* receipt never tells more than what has happened.                        *)
(***************************************************************************)
VARIABLES
  stage,   \* "accepted", "proposed", "landed" or "settled"
  known,   \* what the stored receipt tells: "none", "merged", "completed"
  copy     \* the proposal's local branch: "kept" or "dropped"

orderVars == <<stage, known, copy>>

Init == stage = "accepted" /\ known = "none" /\ copy = "kept"

Propose == stage = "accepted" /\ stage' = "proposed" /\ UNCHANGED <<known, copy>>

Land == stage = "proposed" /\ stage' = "landed" /\ UNCHANGED <<known, copy>>

Learn ==
  /\ stage = "landed" /\ known = "none"
  /\ known' = "merged"
  /\ UNCHANGED <<stage, copy>>

Drop ==
  /\ known = "merged" /\ copy = "kept"
  /\ copy' = "dropped"
  /\ UNCHANGED <<stage, known>>

Settle ==
  /\ stage = "landed" /\ known = "merged" /\ copy = "dropped"
  /\ stage' = "settled"
  /\ UNCHANGED <<known, copy>>

Conclude ==
  /\ stage = "settled" /\ known = "merged"
  /\ known' = "completed"
  /\ UNCHANGED <<stage, copy>>

Next == Propose \/ Land \/ Learn \/ Drop \/ Settle \/ Conclude

Spec == Init /\ [][Next]_orderVars
=============================================================================
