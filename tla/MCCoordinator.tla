---------------------------- MODULE MCCoordinator ----------------------------
(* Policies and symmetry for the runs of Coordinator. *)
EXTENDS CoordinatorContract, TLC

Publication(total, profiles, cost, reserved, borrowable) ==
  [total |-> total, capacity |-> total + 1, margin |-> 1, profiles |-> profiles,
   cost |-> cost, reserved |-> reserved, borrowable |-> borrowable]

Each(n) == [p \in Profiles |-> n]

(* Two units; one is profile 2's own, kept idle for it. *)
Reserving == Publication(2, {1, 2}, Each(1), [Each(0) EXCEPT ![2] = 1], {})

(* Profile 2 has left and its unit goes to profile 1. *)
Departed == Publication(1, {1}, Each(1), [Each(0) EXCEPT ![1] = 1], {1})

(* Refused by validation: more units reserved than there are. *)
Overbooked == Publication(1, {1, 2}, Each(1), Each(1), {})

DurabilityPublications == {Reserving, Departed, Overbooked}

(* Three profiles compete for two unreserved units. *)
Shared == Publication(2, Profiles, Each(1), Each(0), {})

FairPublications == {Shared}

(* Two units: a worker of profile 1 takes both, so that its adoption fills  *)
(* the host; profile 2 keeps one idle for its own use; 3 has no reservation. *)
Uneven == Publication(2, Profiles, [Each(1) EXCEPT ![1] = 2],
                      [Each(0) EXCEPT ![2] = 1], {})

SharePublications == {Shared, Uneven}

SlotSymmetry == Permutations(Slots)
=============================================================================
