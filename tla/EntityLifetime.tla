--------------------------- MODULE EntityLifetime ---------------------------
(***************************************************************************)
(* What the entity map promises to the holders of handles, with no lock,   *)
(* counter or list of dropped ids: an entity is alive exactly while some   *)
(* strong handle to it exists; when the last handle goes it is dead for    *)
(* good, and it is released once, later, on the main thread.               *)
(***************************************************************************)
EXTENDS Naturals

CONSTANT EntityId       \* the keys the slot map can hand out

VARIABLES
  phase,                \* [EntityId -> Phase]
  owners                \* [EntityId -> Nat], the strong handles to it

vars == <<phase, owners>>

Phase == {"unborn", "alive", "dead", "released"}

TypeOK == /\ phase \in [EntityId -> Phase]
          /\ owners \in [EntityId -> Nat]

Init == /\ phase = [e \in EntityId |-> "unborn"]
        /\ owners = [e \in EntityId |-> 0]

\* The first handle comes with the entity.
Create(e) == /\ phase[e] = "unborn"
             /\ phase' = [phase EXCEPT ![e] = "alive"]
             /\ owners' = [owners EXCEPT ![e] = 1]

\* A strong handle is cloned, or a weak one upgraded: only of a live entity.
Share(e) == /\ phase[e] = "alive"
            /\ owners' = [owners EXCEPT ![e] = @ + 1]
            /\ UNCHANGED phase

\* A strong handle goes; the last one takes the entity's life with it.
Forget(e) == /\ phase[e] = "alive"
             /\ owners' = [owners EXCEPT ![e] = @ - 1]
             /\ phase' = [phase EXCEPT ![e] = IF owners[e] = 1 THEN "dead" ELSE @]

\* The main thread gives back some of the dead entities, each for good.
Release(S) == /\ S # {}
              /\ \A e \in S : phase[e] = "dead"
              /\ phase' = [e \in EntityId |-> IF e \in S THEN "released" ELSE phase[e]]
              /\ UNCHANGED owners

Next == \/ \E e \in EntityId : Create(e) \/ Share(e) \/ Forget(e)
        \/ \E S \in SUBSET EntityId : Release(S)

Spec == Init /\ [][Next]_vars

\* The dead do not stay: each one is in some release.
Fairness == \A e \in EntityId :
              WF_vars(\E S \in SUBSET EntityId : e \in S /\ Release(S))

FairSpec == Spec /\ Fairness
=============================================================================
