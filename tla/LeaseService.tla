---------------------------- MODULE LeaseService ----------------------------
(***************************************************************************)
(* What host admission promises its managers, whatever calls, clocks, disk *)
(* errors and restarts do to the coordinator.                              *)
(*                                                                         *)
(* In one step provisional leases may lapse, in any number, and at most    *)
(* one decision takes effect.  Nothing else ever happens to a lease: an    *)
(* active one ends by a release of its own, none is granted behind an      *)
(* adoption fence, and a fence goes up with the leases that must be        *)
(* accounted for and comes down when each of them was adopted or released, *)
(* or with the profile itself.                                             *)
(***************************************************************************)
CONSTANTS
  Profiles,    \* profile identities
  Slots        \* slot keys a manager may ask for

VARIABLES
  lease,       \* the status of every <<profile, slot>>
  fence,       \* profiles whose running workers are being accounted for
  waiting      \* leases the fences wait for

vars == <<lease, fence, waiting>>

Keys == Profiles \X Slots

Init ==
  /\ lease = [k \in Keys |-> "absent"]
  /\ fence = {}
  /\ waiting = {}

Provisional == {k \in Keys : lease[k] = "provisional"}

(* The leases once those of X have lapsed. *)
Lapse(X) == [k \in Keys |-> IF k \in X THEN "absent" ELSE lease[k]]

Change(X, k, status) == lease' = [Lapse(X) EXCEPT ![k] = status]

Grant(X, k) ==
  /\ fence = {}
  /\ Lapse(X)[k] = "absent"
  /\ Change(X, k, "provisional")
  /\ UNCHANGED <<fence, waiting>>

Activate(X, k) ==
  /\ Lapse(X)[k] = "provisional"
  /\ Change(X, k, "active")
  /\ UNCHANGED <<fence, waiting>>

(* A worker that runs is counted, with or without an earlier lease. *)
Adopt(X, k) ==
  /\ Change(X, k, "active")
  /\ waiting' = waiting \ {k}
  /\ UNCHANGED fence

Release(X, k) ==
  /\ Change(X, k, "absent")
  /\ waiting' = waiting \ {k}
  /\ UNCHANGED fence

Raise(X, p) ==
  /\ lease' = Lapse(X)
  /\ fence' = fence \cup {p}
  /\ waiting' = waiting \cup {k \in {p} \X Slots : lease[k] = "active"}

Lower(X, p) ==
  /\ \A k \in waiting : k[1] # p
  /\ lease' = Lapse(X)
  /\ fence' = fence \ {p}
  /\ UNCHANGED waiting

(* A new policy ends the fences of the profiles it drops, and no lease. *)
Govern(X, P) ==
  /\ lease' = Lapse(X)
  /\ fence' = fence \cap P
  /\ waiting' = {k \in waiting : k[1] \in P}

Next ==
  \E X \in SUBSET Provisional :
    \/ \E k \in Keys : Grant(X, k) \/ Activate(X, k) \/ Adopt(X, k) \/ Release(X, k)
    \/ \E p \in Profiles : Raise(X, p) \/ Lower(X, p)
    \/ \E P \in SUBSET Profiles : Govern(X, P)

Spec == Init /\ [][Next]_vars

=============================================================================
