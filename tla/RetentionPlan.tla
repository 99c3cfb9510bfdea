---------------------------- MODULE RetentionPlan ----------------------------
(***************************************************************************)
(* What a retention plan deletes (scripts/factory_retention_plan.py and    *)
(* factory_retention_protection.py).  Artifacts are numbered from the      *)
(* oldest to the youngest; those of one bundle, a job and the review it    *)
(* led to, are kept or deleted together.                                   *)
(***************************************************************************)
EXTENDS Naturals, FiniteSetsExt

CONSTANTS
  Count,      \* number of artifacts
  Bundle,     \* the bundle of each artifact
  Class,      \* the class of each artifact
  Review,     \* the artifacts that a job of their bundle must name
  Size,       \* the bytes of each artifact
  Ceiling     \* the bytes that each class may keep

Artifact == 1..Count
Classes == DOMAIN Ceiling

ASSUME RetentionPlanAssumption ==
  /\ Count \in Nat
  /\ DOMAIN Bundle = Artifact
  /\ Class \in [Artifact -> Classes]
  /\ Review \subseteq Artifact
  /\ Size \in [Artifact -> Nat]
  /\ Ceiling \in [Classes -> Nat]

(* An order of ages that the theorem about whole bundles supposes, and that*)
(* nothing enforces: a bundle has one job, and reviews dated after it.     *)
JobsComeFirst ==
  \A a \in Artifact \ Review, b \in Artifact :
    a # b /\ Bundle[a] = Bundle[b] => b \in Review /\ a < b

(* Contents that may not be deleted: an unsettled job, a review that is    *)
(* not decided or that names an issue still open.                          *)
HeldContent == {"reopened"}

Present(found) == {a \in Artifact : found[a] # "absent"}
Members(found, a) == {b \in Present(found) : Bundle[b] = Bundle[a]}

(* A review that no job names is an error of the inventory.                *)
Orphans(found) ==
  {a \in Present(found) \cap Review : Members(found, a) \subseteq Review}

EachByItself(found) ==  \* mutant of Safe: the rest of the bundle is not asked
  {a \in Present(found) : found[a] \notin HeldContent}

Safe(found) ==
  {a \in Present(found) :
     \A b \in Members(found, a) : found[b] \notin HeldContent}

(* A bundle expires when the age limit of each member has passed.          *)
Aged(found, cutoff) ==
  {a \in Safe(found) : \A b \in Members(found, a) : b < cutoff[Class[b]]}

Bytes(kept, class) ==
  LET upTo[k \in 0..Count] ==
        IF k = 0 THEN 0
        ELSE upTo[k - 1] + IF k \in kept /\ Class[k] = class THEN Size[k] ELSE 0
  IN upTo[Count]

Pressured(kept) == {class \in Classes : Bytes(kept, class) > Ceiling[class]}

ClassesOf(found, a) == {Class[b] : b \in Members(found, a)}
Oldest(found, a) == a \in Present(found) /\ \A b \in Members(found, a) : a <= b

(* Then bundles go, the oldest first, while a class of theirs has more     *)
(* bytes than its ceiling.                                                 *)
Evicted(found, aged) ==
  LET evicted[k \in 0..Count] ==
        IF k = 0 THEN aged
        ELSE LET before == evicted[k - 1] IN
             IF /\ Oldest(found, k) /\ k \in Safe(found) \ before
                /\ ClassesOf(found, k) \cap Pressured(Present(found) \ before) # {}
             THEN before \cup Members(found, k)
             ELSE before
  IN evicted[Count]

Doomed(found, cutoff) == Evicted(found, Aged(found, cutoff))
=============================================================================
