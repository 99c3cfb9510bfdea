---------------------------- MODULE WorkOwnership ----------------------------
(***************************************************************************)
(* What the scheduler promises about each accepted request, said without   *)
(* leases, epochs, clocks or money: a request is held by one process at a  *)
(* time, it changes hands only once that process is dead, every process    *)
(* that still runs and holds work is the same one, and finished work stays *)
(* finished.  ADR-0029 states it as "expiry is necessary but not           *)
(* sufficient"; FactoryScheduler implements it.                            *)
(***************************************************************************)
CONSTANTS Request, Owner, NoOwner

VARIABLES
  running,   \* processes that have not died
  holder,    \* the process holding each request, NoOwner before acceptance
  finished   \* requests whose work is over

ownershipVars == <<running, holder, finished>>

Held == {r \in Request : holder[r] # NoOwner} \ finished

Init ==
  /\ running = Owner
  /\ holder = [r \in Request |-> NoOwner]
  /\ finished = {}

(* Process o may become the holder of one more request only when no other  *)
(* running process holds any.                                              *)
SoleRunner(o) == \A r \in Held : holder[r] \in running => holder[r] = o

Accept(r, o) ==
  /\ o \in running
  /\ holder[r] = NoOwner
  /\ SoleRunner(o)
  /\ holder' = [holder EXCEPT ![r] = o]
  /\ UNCHANGED <<running, finished>>

Finish(r) ==
  /\ r \in Held
  /\ holder[r] \in running
  /\ finished' = finished \cup {r}
  /\ UNCHANGED <<running, holder>>

(* A successor of a dead holder may finish the work in the same step.      *)
Inherit(r, o) ==
  /\ r \in Held
  /\ o \in running
  /\ holder[r] \notin running
  /\ SoleRunner(o)
  /\ holder' = [holder EXCEPT ![r] = o]
  /\ finished' \in {finished, finished \cup {r}}
  /\ UNCHANGED running

Die(o) ==
  /\ o \in running
  /\ running' = running \ {o}
  /\ UNCHANGED <<holder, finished>>

Next ==
  \/ \E r \in Request, o \in Owner : Accept(r, o) \/ Inherit(r, o)
  \/ \E r \in Request : Finish(r)
  \/ \E o \in Owner : Die(o)

Spec == Init /\ [][Next]_ownershipVars
=============================================================================
