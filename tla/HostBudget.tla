----------------------------- MODULE HostBudget -----------------------------
(***************************************************************************)
(* The arithmetic of host admission: policy validation, held units,        *)
(* reservations, and the rotating fair split of the shared pool.           *)
(* Sources: manager/admission/policy.go and the pure helpers of            *)
(* manager/admission/coordinator.go.                                       *)
(*                                                                         *)
(* A profile is a natural number, so that < is the order sort.Strings      *)
(* gives the profile identities.  A lease key is a <<profile, slot>> pair. *)
(* A map keyed by lease is total here: a missing entry is NoLease, which   *)
(* holds no units.                                                         *)
(***************************************************************************)
EXTENDS Units

CONSTANTS
  Profiles,    \* profile identities, ordered by <
  Slots        \* slot keys a manager may ask for

ASSUME ProfilesAssumption == Profiles \subseteq Nat /\ IsFiniteSet(Profiles)
ASSUME SlotsAssumption == IsFiniteSet(Slots)

Keys == Profiles \X Slots

-----------------------------------------------------------------------------
(* Policies.  The profile list is a set with one cost and one reservation  *)
(* per profile; namespaces and fingerprints are opaque to admission.       *)

Policy == [total      : Int,
           capacity   : Int,
           margin     : Int,
           profiles   : SUBSET Profiles,
           cost       : [Profiles -> Int],
           reserved   : [Profiles -> Int],
           borrowable : SUBSET Profiles]

NoPolicy == [total      |-> 0,
             capacity   |-> 0,
             margin     |-> 0,
             profiles   |-> {},
             cost       |-> [p \in Profiles |-> 0],
             reserved   |-> [p \in Profiles |-> 0],
             borrowable |-> {}]

ReservedUnits(policy, P) == Total([p \in P |-> policy.reserved[p]])

ValidProfile(policy, p) == policy.cost[p] >= 1 /\ policy.reserved[p] >= 0

ValidPolicy(generation, policy) ==
  /\ generation >= 1
  /\ policy.total >= 1
  /\ policy.capacity >= 0 /\ policy.margin >= 0
  /\ policy.capacity = 0 => policy.margin = 0
  /\ policy.capacity > 0 => /\ policy.margin < policy.capacity
                            /\ policy.capacity - policy.margin = policy.total
  /\ \A p \in policy.profiles : /\ ValidProfile(policy, p)
                                /\ policy.cost[p] <= policy.total
                                /\ policy.reserved[p] <= policy.total
  /\ ReservedUnits(policy, policy.profiles) <= policy.total

-----------------------------------------------------------------------------
(* Leases and the units they hold.                                         *)

LeaseStatus == {"absent", "provisional", "active"}

NoName == "unbound"

NoLease == [status |-> "absent", units |-> 0, id |-> 0, name |-> NoName]

UnitsOn(leases, K) == Total([k \in K |-> leases[k].units])

TotalHeld(leases) == UnitsOn(leases, Keys)

HeldUnits(leases, p) == UnitsOn(leases, {p} \X Slots)

(* What profile p may still draw from its own reservation. *)
Unused(policy, leases, p) == Larger(policy.reserved[p] - HeldUnits(leases, p), 0)

(* The idle part of the non-borrowable reservations of the profiles in P. *)
Protected(policy, leases, P) ==
  Total([p \in (policy.profiles \cap P) \ policy.borrowable
            |-> Unused(policy, leases, p)])

(* Wrong: the borrowable flag read the other way round. *)
ProtectedBorrowable(policy, leases, requester) ==
  Total([p \in (policy.profiles \cap policy.borrowable) \ {requester}
            |-> Unused(policy, leases, p)])

ProtectedNonBorrowable(policy, leases, requester) ==
  Protected(policy, leases, Profiles \ {requester})

-----------------------------------------------------------------------------
(* Fair sharing.  demand[p].pending is p's registered worker demand.       *)

Contenders(policy, demand) == {p \in policy.profiles : demand[p].pending > 0}

(* p's position in the sorted contender list, counted from 0. *)
IndexIn(contenders, p) == Cardinality({q \in contenders : q < p})

(* Wrong: one contender too many receives a unit of the remainder. *)
ShareRoundedUp(contenders, p, rotation, available) ==
  LET count == Cardinality(contenders)
      turn  == GoMod(IndexIn(contenders, p) - rotation + count, count)
  IN  available \div count + (IF turn <= available % count THEN 1 ELSE 0)

GuaranteedShare(contenders, p, rotation, available) ==
  LET count == Cardinality(contenders)
      turn  == GoMod(IndexIn(contenders, p) - rotation + count, count)
  IN  available \div count + (IF turn < available % count THEN 1 ELSE 0)

(* Wrong: what the requester itself is owed is withheld from it. *)
FairAllocatableSelfOwed(policy, leases, demand, rotation, p, available) ==
  LET contenders == Contenders(policy, demand)
      shared(q)  == Larger(HeldUnits(leases, q) - policy.reserved[q], 0)
      owed(q)    == Larger(GuaranteedShare(contenders, q, rotation, available)
                             - shared(q), 0)
  IN  Larger(available - Total([q \in contenders |-> owed(q)]), 0)

FairAllocatable(policy, leases, demand, rotation, p, available) ==
  LET contenders == Contenders(policy, demand)
      shared(q)  == Larger(HeldUnits(leases, q) - policy.reserved[q], 0)
      owed(q)    == Larger(GuaranteedShare(contenders, q, rotation, available)
                             - shared(q), 0)
  IN  Larger(available - Total([q \in contenders \ {p} |-> owed(q)]), 0)

(* Wrong: a request its own reservation covers skips the budget check. *)
EvaluateAcquireOwnFirst(policy, leases, demand, rotation, p) ==
  LET free      == policy.total - TotalHeld(leases)
      available == free - ProtectedNonBorrowable(policy, leases, p)
      cost      == policy.cost[p]
      fair      == FairAllocatable(policy, leases, demand, rotation, p, available)
  IN  IF Unused(policy, leases, p) >= cost THEN "own"
      ELSE IF free < cost                  THEN "budget-exhausted"
      ELSE IF available < cost             THEN "protected-reservation"
      ELSE IF fair >= cost                 THEN "fair"
      ELSE "fair-share-contention"

(* How a request of a known profile p is decided: granted from its "own"   *)
(* reservation or as a "fair" share of the pool, or the denial category.   *)
EvaluateAcquire(policy, leases, demand, rotation, p) ==
  LET free      == policy.total - TotalHeld(leases)
      available == free - ProtectedNonBorrowable(policy, leases, p)
      cost      == policy.cost[p]
      fair      == FairAllocatable(policy, leases, demand, rotation, p, available)
  IN  IF free < cost                            THEN "budget-exhausted"
      ELSE IF Unused(policy, leases, p) >= cost THEN "own"
      ELSE IF available < cost                  THEN "protected-reservation"
      ELSE IF fair >= cost                      THEN "fair"
      ELSE "fair-share-contention"

Granting == {"own", "fair"}

-----------------------------------------------------------------------------
(* What Status reports.  Its totals run over the profiles of the current   *)
(* policy only.                                                            *)

ReportedAvailable(policy, leases) ==
  Larger(policy.total - UnitsOn(leases, policy.profiles \X Slots), 0)

TheoreticalUnits(policy, p) ==
  Larger(policy.total
           - ReservedUnits(policy, policy.profiles \ (policy.borrowable \cup {p})), 0)

(* Wrong: a contender is reported the less of its own reservation and its   *)
(* fair share.                                                              *)
AllocatableLesser(policy, leases, demand, rotation, fenced, p) ==
  LET free    == ReportedAvailable(policy, leases)
      pool    == Larger(free - ProtectedNonBorrowable(policy, leases, p), 0)
      ceiling == Larger(TheoreticalUnits(policy, p) - HeldUnits(leases, p), 0)
      own     == Smaller(Unused(policy, leases, p), free)
      fair    == FairAllocatable(policy, leases, demand, rotation, p, pool)
  IN  IF fenced # {}                THEN 0
      ELSE IF demand[p].pending = 0 THEN Smaller(pool, ceiling)
      ELSE Smaller(Smaller(own, fair), ceiling)

AllocatableUnits(policy, leases, demand, rotation, fenced, p) ==
  LET free    == ReportedAvailable(policy, leases)
      pool    == Larger(free - ProtectedNonBorrowable(policy, leases, p), 0)
      ceiling == Larger(TheoreticalUnits(policy, p) - HeldUnits(leases, p), 0)
      own     == Smaller(Unused(policy, leases, p), free)
      fair    == FairAllocatable(policy, leases, demand, rotation, p, pool)
      verdict == EvaluateAcquire(policy, leases, demand, rotation, p)
  IN  IF fenced # {}                THEN 0
      ELSE IF demand[p].pending = 0 THEN Smaller(pool, ceiling)
      ELSE IF verdict \in Granting  THEN Smaller(Larger(own, fair), ceiling)
      ELSE 0

AllocatableWorkers(policy, leases, demand, rotation, fenced, p) ==
  AllocatableUnits(policy, leases, demand, rotation, fenced, p) \div policy.cost[p]

=============================================================================
