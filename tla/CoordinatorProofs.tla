-------------------------- MODULE CoordinatorProofs --------------------------
(* Type correctness of the coordinator, validity of every document it may  *)
(* leave behind, and the bookkeeping of deadlines and demand.              *)
EXTENDS Coordinator, FiniteSetTheorems, TLAPS

(* There are finitely many lease keys. *)
LEMMA KeysFinite == IsFiniteSet(Keys)
  BY ProfilesAssumption, SlotsAssumption, FS_Product DEF Keys

(* A set of lease keys has a size. *)
LEMMA CardinalityOfKeys ==
  ASSUME NEW X \in SUBSET Keys
  PROVE  IsFiniteSet(X) /\ Cardinality(X) \in Nat
  BY KeysFinite, FS_Subset, FS_CardinalityType

(* compactTombstones keeps a tombstone as it is or forgets it. *)
LEMMA CompactType ==
  ASSUME NEW t \in [Keys -> Nat]
  PROVE  /\ CompactTombstones(t) \in [Keys -> Nat]
         /\ \A k \in Keys : CompactTombstones(t)[k] \in {0, t[k]}
  BY DEF CompactTombstones

(* What expiry and restart change in a document, and what they leave alone. *)
LEMMA DiscardType ==
  ASSUME NEW st \in Durable, NEW X \in SUBSET Keys, NEW nx \in Discard(st, X)
  PROVE  /\ nx \in Durable
         /\ nx.epoch = st.epoch /\ nx.generation = st.generation
         /\ nx.policy = st.policy /\ nx.fenced = st.fenced /\ nx.pending = st.pending
         /\ nx.seq = st.seq + Cardinality(X)
         /\ nx.leases = [k \in Keys |-> IF k \in X THEN NoLease ELSE st.leases[k]]
         /\ \A k \in Keys \ X : nx.tombstones[k] \in {0, st.tombstones[k]}
         /\ \A k \in X : nx.tombstones[k] = 0 \/ nx.tombstones[k] \in st.seq + 1 .. nx.seq
<1>1. CASE X = {}
  <2>1. nx = st  BY <1>1 DEF Discard
  <2>2. Cardinality(X) = 0  BY <1>1, FS_EmptySet
  <2> QED BY <1>1, <2>1, <2>2 DEF Durable
<1>2. CASE X # {}
  <2>1. PICK order \in Bijection(X, 1..Cardinality(X)) :
          nx = [st EXCEPT
                 !.seq = @ + Cardinality(X),
                 !.leases = [k \in Keys |-> IF k \in X THEN NoLease ELSE @[k]],
                 !.tombstones = CompactTombstones(
                   [k \in Keys |-> IF k \in X THEN st.seq + order[k] ELSE @[k]])]
    BY <1>2 DEF Discard
  <2> DEFINE t == [k \in Keys |-> IF k \in X THEN st.seq + order[k] ELSE st.tombstones[k]]
  <2>2. Cardinality(X) \in Nat  BY CardinalityOfKeys
  <2>3. order \in [X -> 1..Cardinality(X)]  BY DEF Bijection, Injection
  <2>4. t \in [Keys -> Nat]  BY <2>2, <2>3 DEF Durable
  <2> HIDE DEF t
  <2>5. nx.tombstones = CompactTombstones(t) BY <2>1 DEF Durable, t
  <2>6. nx.seq = st.seq + Cardinality(X)  BY <2>1 DEF Durable
  <2>7. nx.leases = [k \in Keys |-> IF k \in X THEN NoLease ELSE st.leases[k]]
    BY <2>1 DEF Durable
  <2>8. /\ nx.epoch = st.epoch /\ nx.generation = st.generation
        /\ nx.policy = st.policy /\ nx.fenced = st.fenced /\ nx.pending = st.pending
    BY <2>1 DEF Durable
  <2>9. nx \in Durable
    <3>1. NoLease \in Lease  BY DEF NoLease, Lease, LeaseStatus
    <3>2. [k \in Keys |-> IF k \in X THEN NoLease ELSE st.leases[k]] \in [Keys -> Lease]
      BY <3>1 DEF Durable
    <3>3. CompactTombstones(t) \in [Keys -> Nat]  BY <2>4, CompactType
    <3>4. st.seq + Cardinality(X) \in Nat  BY <2>2 DEF Durable
    <3> QED BY <2>1, <3>2, <3>3, <3>4 DEF Durable, t
  <2>10. \A k \in Keys : nx.tombstones[k] \in {0, t[k]}
    BY <2>4, <2>5, CompactType
  <2>11. \A k \in X : t[k] \in st.seq + 1 .. nx.seq
    BY <2>2, <2>3, <2>6 DEF t, Durable
  <2>12. \A k \in Keys \ X : t[k] = st.tombstones[k]  BY DEF t
  <2>. QED BY <2>6, <2>7, <2>8, <2>9, <2>10, <2>11, <2>12
<1> QED BY <1>1, <1>2

-----------------------------------------------------------------------------
(* Sound documents, and the operations that keep them sound.               *)

(* A document Open accepts, with no policy before the first publication. *)
Sound(st) ==
  /\ st \in Durable
  /\ Valid(st)
  /\ st.generation = 0 => st.policy = NoPolicy

(* A lease key is a profile and a slot. *)
LEMMA KeyParts == \A k \in Keys : k[1] \in Profiles /\ k = <<k[1], k[2]>> /\ k[2] \in Slots
  BY DEF Keys

(* The empty policy a fresh coordinator starts with is a policy. *)
LEMMA NoPolicyType == NoPolicy \in Policy
  BY DEF NoPolicy, Policy

(* The policy of a document is a policy. *)
LEMMA PolicyTyped ==
  ASSUME NEW st \in Durable
  PROVE  st.policy \in Policy
  BY PublicationsAssumption, NoPolicyType DEF Durable

(* A profile known to a sound document has a positive unit cost. *)
LEMMA KnownCost ==
  ASSUME NEW st, Sound(st), NEW p \in st.policy.profiles
  PROVE  st.policy.cost[p] \in Nat /\ st.policy.cost[p] >= 1 /\ p \in Profiles
<1>1. st.policy \in Policy  BY PolicyTyped DEF Sound
<1>2. st.generation > 0
  <2>1. st.policy # NoPolicy  BY DEF NoPolicy
  <2> QED BY <2>1 DEF Sound, Durable
<1>3. st.policy.cost[p] >= 1  BY <1>2 DEF Sound, Valid, ValidPolicy, ValidProfile
<1> QED BY <1>1, <1>3 DEF Policy

(* A fresh coordinator starts from a sound document. *)
LEMMA NewSound == Sound(NewDurable)
<1>1. NoLease \in Lease  BY DEF NoLease, Lease, LeaseStatus
<1>2. NewDurable \in Durable  BY <1>1 DEF NewDurable, Durable
<1>3. Valid(NewDurable)  BY DEF Valid, NewDurable, Live, NoLease, NoPolicy
<1> QED BY <1>2, <1>3 DEF Sound, NewDurable

(* Tombstoning provisional leases (sweepExpiredLocked,                      *)
(* discardRestoredProvisionals) keeps a document sound.                     *)
LEMMA DiscardSound ==
  ASSUME NEW st, Sound(st), NEW X \in SUBSET Provisionals(st), NEW nx \in Discard(st, X)
  PROVE  Sound(nx)
<1>1. st \in Durable /\ X \in SUBSET Keys  BY DEF Sound, Provisionals
<1>2. /\ nx \in Durable
      /\ nx.generation = st.generation
      /\ nx.policy = st.policy /\ nx.fenced = st.fenced /\ nx.pending = st.pending
      /\ nx.leases = [k \in Keys |-> IF k \in X THEN NoLease ELSE st.leases[k]]
      /\ \A k \in Keys \ X : nx.tombstones[k] \in {0, st.tombstones[k]}
  BY <1>1, DiscardType
<1>3. \A k \in Keys : Live(nx, k) => k \notin X /\ nx.leases[k] = st.leases[k] /\ Live(st, k)
  BY <1>2 DEF Live, NoLease
<1>4. \A k \in st.pending : k \in Keys /\ k \notin X
  BY <1>1 DEF Sound, Valid, Provisionals, Durable
<1>5. Valid(nx)
  <2>1. nx.generation > 0 => ValidPolicy(nx.generation, nx.policy)
    BY <1>2 DEF Sound, Valid
  <2>2. \A k \in Keys : Live(nx, k) => nx.leases[k].units >= 1
    BY <1>3 DEF Sound, Valid
  <2>3. nx.fenced \subseteq nx.policy.profiles  BY <1>2 DEF Sound, Valid
  <2>4. \A k \in nx.pending : k[1] \in nx.fenced /\ nx.leases[k].status = "active"
    BY <1>2, <1>4 DEF Sound, Valid
  <2>5. \A k \in Keys : Live(nx, k) => nx.tombstones[k] = 0
    BY <1>2, <1>3 DEF Sound, Valid
  <2> QED BY <2>1, <2>2, <2>3, <2>4, <2>5 DEF Valid
<1> QED BY <1>2, <1>5 DEF Sound

(* A decision that changes the lease k alone keeps a document sound. *)
LEMMA DecidedSound ==
  ASSUME NEW st, Sound(st), NEW k \in Keys,
         NEW lease \in Lease, NEW T \in [Keys -> Nat], NEW P \in SUBSET st.pending,
         \A j \in Keys \ {k} : T[j] \in {0, st.tombstones[j]},
         lease.status # "absent" => lease.units >= 1 /\ T[k] = 0,
         k \in P => lease.status = "active"
  PROVE  Sound(Decided(st, [st.leases EXCEPT ![k] = lease], T, P))
<1> DEFINE L == [st.leases EXCEPT ![k] = lease]
           nx == Decided(st, L, T, P)
<1>1. st \in Durable  BY DEF Sound
<1>2. L \in [Keys -> Lease]  BY <1>1 DEF Durable
<1>3. \A j \in Keys : L[j] = IF j = k THEN lease ELSE st.leases[j]
  BY <1>1 DEF Durable
<1>4. st.seq + 1 \in Nat /\ P \in SUBSET Keys  BY <1>1 DEF Durable
<1> HIDE DEF L
<1>5. nx \in Durable
  BY <1>1, <1>2, <1>4 DEF Decided, Durable
<1>6. /\ nx.generation = st.generation /\ nx.policy = st.policy /\ nx.fenced = st.fenced
      /\ nx.pending = P /\ nx.leases = L /\ nx.tombstones = T
  BY <1>1 DEF Decided, Durable
<1> HIDE DEF nx
<1>7. \A j \in Keys : Live(nx, j) => nx.leases[j].units >= 1 /\ nx.tombstones[j] = 0
  BY <1>3, <1>6 DEF Sound, Valid, Live
<1>8. \A j \in nx.pending : j[1] \in nx.fenced /\ nx.leases[j].status = "active"
  BY <1>3, <1>4, <1>6 DEF Sound, Valid
<1>9. Sound(nx)  BY <1>5, <1>6, <1>7, <1>8 DEF Sound, Valid
<1> QED BY <1>9 DEF nx, L

(* A lease made for a known profile holds at least one unit. *)
LEMMA NewLeaseTyped ==
  ASSUME NEW st, Sound(st), NEW k \in Keys, k[1] \in st.policy.profiles,
         NEW status \in LeaseStatus
  PROVE  NewLease(st, k, status) \in Lease /\ NewLease(st, k, status).units >= 1
<1>1. st.policy.cost[k[1]] \in Nat /\ st.policy.cost[k[1]] >= 1  BY KnownCost
<1> QED BY <1>1 DEF NewLease, Lease, Sound, Durable

(* Acquire saves a sound document. *)
LEMMA GrantedSound ==
  ASSUME NEW st, Sound(st), NEW k \in Keys, k[1] \in st.policy.profiles, ~Live(st, k)
  PROVE  Sound(Granted(st, k))
<1> DEFINE lease == NewLease(st, k, "provisional")
           T == [st.tombstones EXCEPT ![k] = 0]
<1>1. lease \in Lease /\ lease.units >= 1  BY NewLeaseTyped DEF LeaseStatus
<1>2. T \in [Keys -> Nat] /\ T[k] = 0 /\ \A j \in Keys \ {k} : T[j] = st.tombstones[j]
  BY DEF Sound, Durable
<1>3. k \notin st.pending  BY DEF Sound, Valid, Live
<1> HIDE DEF lease, T
<1>4. Sound(Decided(st, [st.leases EXCEPT ![k] = lease], T, st.pending))
  BY <1>1, <1>2, <1>3, DecidedSound
<1> QED BY <1>4 DEF Granted, lease, T

(* Adopt saves a sound document when it promotes or creates a lease. *)
LEMMA AdoptedSound ==
  ASSUME NEW st, Sound(st), NEW k \in Keys, k[1] \in st.policy.profiles
  PROVE  Sound(Adopted(st, k))
<1> DEFINE lease == AdoptedLease(st, k)
           T == [st.tombstones EXCEPT ![k] = 0]
<1>1. lease \in Lease /\ lease.units >= 1
  <2>1. st.leases[k] \in Lease  BY DEF Sound, Durable
  <2>2. CASE Live(st, k)
    <3>1. st.leases[k].units >= 1  BY <2>2 DEF Sound, Valid
    <3> QED BY <2>1, <2>2, <3>1 DEF AdoptedLease, Lease, LeaseStatus
  <2>3. CASE ~Live(st, k)
    BY <2>3, NewLeaseTyped DEF AdoptedLease, LeaseStatus
  <2> QED BY <2>2, <2>3
<1>2. T \in [Keys -> Nat] /\ T[k] = 0 /\ \A j \in Keys \ {k} : T[j] = st.tombstones[j]
  BY DEF Sound, Durable
<1> HIDE DEF lease, T
<1>3. Sound(Decided(st, [st.leases EXCEPT ![k] = lease], T, st.pending \ {k}))
  BY <1>1, <1>2, DecidedSound
<1> QED BY <1>3 DEF Adopted, lease, T

(* Adopt saves a sound document when it only strikes a lease off the fence. *)
LEMMA AccountedSound ==
  ASSUME NEW st, Sound(st), NEW k \in Keys
  PROVE  Sound(Accounted(st, k))
<1> DEFINE nx == Accounted(st, k)
<1>1. st \in Durable  BY DEF Sound
<1>2. /\ nx \in Durable
      /\ nx.generation = st.generation /\ nx.policy = st.policy
      /\ nx.fenced = st.fenced /\ nx.pending = st.pending \ {k}
      /\ nx.leases = st.leases /\ nx.tombstones = st.tombstones
  BY <1>1 DEF Accounted, Durable
<1> HIDE DEF nx
<1>3. Valid(nx)  BY <1>2 DEF Sound, Valid, Live
<1>4. Sound(nx)  BY <1>2, <1>3 DEF Sound
<1> QED BY <1>4 DEF nx

(* Activate saves a sound document. *)
LEMMA ActivatedSound ==
  ASSUME NEW st, Sound(st), NEW k \in Provisionals(st)
  PROVE  Sound(Activated(st, k))
<1> DEFINE lease == [st.leases[k] EXCEPT !.status = "active"]
<1>1. k \in Keys /\ Live(st, k) /\ st.leases[k] \in Lease /\ st.tombstones \in [Keys -> Nat]
  BY DEF Sound, Durable, Provisionals, Live
<1>2. st.leases[k].units >= 1 /\ st.tombstones[k] = 0  BY <1>1 DEF Sound, Valid
<1>3. lease \in Lease /\ lease.units >= 1 /\ lease.status = "active"
  BY <1>1, <1>2 DEF Lease, LeaseStatus
<1> HIDE DEF lease
<1>4. Sound(Decided(st, [st.leases EXCEPT ![k] = lease], st.tombstones, st.pending))
  BY <1>1, <1>2, <1>3, DecidedSound
<1> QED BY <1>4 DEF Activated, lease

(* Renew saves a sound document. *)
LEMMA RenewedSound ==
  ASSUME NEW st, Sound(st), NEW k \in Provisionals(st)
  PROVE  Sound(Renewed(st))
<1>1. /\ k \in Keys /\ st.leases[k] \in Lease /\ st.tombstones \in [Keys -> Nat]
      /\ Live(st, k)
  BY DEF Sound, Durable, Provisionals, Live
<1>2. /\ Live(st, k) => st.leases[k].units >= 1 /\ st.tombstones[k] = 0
      /\ k \in st.pending => st.leases[k].status = "active"
  BY <1>1 DEF Sound, Valid
<1>3. st.leases = [st.leases EXCEPT ![k] = st.leases[k]]
  BY <1>1 DEF Sound, Durable
<1>4. Sound(Decided(st, [st.leases EXCEPT ![k] = st.leases[k]], st.tombstones, st.pending))
  BY <1>1, <1>2, DecidedSound
<1> QED BY <1>3, <1>4 DEF Renewed

(* BindRegistration saves a sound document. *)
LEMMA BoundSound ==
  ASSUME NEW st, Sound(st), NEW k \in Keys, Live(st, k), NEW name \in Names
  PROVE  Sound(Bound(st, k, name))
<1> DEFINE lease == [st.leases[k] EXCEPT !.name = name]
<1>1. st.leases[k] \in Lease /\ st.tombstones \in [Keys -> Nat]  BY DEF Sound, Durable
<1>2. /\ st.leases[k].units >= 1 /\ st.tombstones[k] = 0
      /\ k \in st.pending => st.leases[k].status = "active"
  BY DEF Sound, Valid
<1>3. lease \in Lease /\ lease.units >= 1 /\ lease.status = st.leases[k].status
  BY <1>1, <1>2 DEF Lease
<1> HIDE DEF lease
<1>4. Sound(Decided(st, [st.leases EXCEPT ![k] = lease], st.tombstones, st.pending))
  BY <1>1, <1>2, <1>3, DecidedSound
<1> QED BY <1>4 DEF Bound, lease

(* tombstoneLocked saves a sound document: the fence no longer waits for    *)
(* the lease, and the slot has a tombstone and no lease.                    *)
LEMMA TombstonedSound ==
  ASSUME NEW st, Sound(st), NEW k \in Keys
  PROVE  Sound(Tombstoned(st, k))
<1> DEFINE t == [st.tombstones EXCEPT ![k] = st.seq + 1]
           T == CompactTombstones(t)
<1>1. t \in [Keys -> Nat] /\ \A j \in Keys \ {k} : t[j] = st.tombstones[j]
  BY DEF Sound, Durable
<1> HIDE DEF t
<1>2. T \in [Keys -> Nat] /\ \A j \in Keys : T[j] \in {0, t[j]}
  BY <1>1, CompactType
<1> HIDE DEF T
<1>3. NoLease \in Lease /\ NoLease.status = "absent"  BY DEF NoLease, Lease, LeaseStatus
<1>4. Sound(Decided(st, [st.leases EXCEPT ![k] = NoLease], T, st.pending \ {k}))
  BY <1>1, <1>2, <1>3, DecidedSound
<1> QED BY <1>4 DEF Tombstoned, T, t

(* BeginAdoption saves a sound document: the fence waits for active leases only. *)
LEMMA FencedSound ==
  ASSUME NEW st, Sound(st), NEW p \in st.policy.profiles
  PROVE  Sound(Fenced(st, p))
<1> DEFINE nx == Fenced(st, p)
<1>1. st \in Durable /\ p \in Profiles  BY KnownCost DEF Sound
<1>2. ActiveKeys(st, p) \subseteq Keys /\ \A k \in ActiveKeys(st, p) : k[1] = p
  BY <1>1 DEF ActiveKeys, Keys
<1>3. /\ nx \in Durable
      /\ nx.generation = st.generation /\ nx.policy = st.policy
      /\ nx.fenced = st.fenced \cup {p} /\ nx.pending = st.pending \cup ActiveKeys(st, p)
      /\ nx.leases = st.leases /\ nx.tombstones = st.tombstones
  <2>1. /\ st.epoch + 1 \in Nat /\ st.fenced \cup {p} \in SUBSET Profiles
        /\ st.pending \cup ActiveKeys(st, p) \in SUBSET Keys
    BY <1>1, <1>2 DEF Durable
  <2>2. nx \in Durable  BY <1>1, <2>1 DEF Fenced, Durable
  <2> QED BY <1>1, <2>2 DEF Fenced, Durable
<1> HIDE DEF nx
<1>4. \A k \in nx.pending : k[1] \in nx.fenced /\ nx.leases[k].status = "active"
  BY <1>2, <1>3 DEF Sound, Valid, ActiveKeys
<1>5. Valid(nx)  BY <1>3, <1>4 DEF Sound, Valid, Live
<1>6. Sound(nx)  BY <1>3, <1>5 DEF Sound
<1> QED BY <1>6 DEF nx

(* CompleteAdoption saves a sound document, since no lease of the profile is pending. *)
LEMMA UnfencedSound ==
  ASSUME NEW st, Sound(st), NEW p \in Profiles, \A k \in st.pending : k[1] # p
  PROVE  Sound(Unfenced(st, p))
<1> DEFINE nx == Unfenced(st, p)
<1>1. st \in Durable  BY DEF Sound
<1>2. /\ nx \in Durable
      /\ nx.generation = st.generation /\ nx.policy = st.policy
      /\ nx.fenced = st.fenced \ {p} /\ nx.pending = st.pending
      /\ nx.leases = st.leases /\ nx.tombstones = st.tombstones
  <2>1. st.epoch + 1 \in Nat /\ st.fenced \ {p} \in SUBSET Profiles
    BY <1>1 DEF Durable
  <2>2. nx \in Durable  BY <1>1, <2>1 DEF Unfenced, Durable
  <2> QED BY <1>1, <2>2 DEF Unfenced, Durable
<1> HIDE DEF nx
<1>3. Valid(nx)  BY <1>2 DEF Sound, Valid, Live
<1>4. Sound(nx)  BY <1>2, <1>3 DEF Sound
<1> QED BY <1>4 DEF nx

(* ApplyPolicy saves a sound document: fences of dropped profiles are gone. *)
LEMMA GovernedSound ==
  ASSUME NEW st, Sound(st), NEW g \in Nat, NEW policy \in Publications,
         ValidPolicy(g, policy)
  PROVE  Sound(Governed(st, g, policy))
<1> DEFINE nx == Governed(st, g, policy)
           P == {k \in st.pending : k[1] \in policy.profiles}
<1>1. st \in Durable /\ P \subseteq Keys  BY DEF Sound, Durable
<1>2. /\ nx \in Durable
      /\ nx.generation = g /\ nx.policy = policy
      /\ nx.fenced = st.fenced \cap policy.profiles /\ nx.pending = P
      /\ nx.leases = st.leases /\ nx.tombstones = st.tombstones
  <2>1. /\ st.epoch + 1 \in Nat /\ st.fenced \cap policy.profiles \in SUBSET Profiles
        /\ P \in SUBSET Keys /\ policy \in Publications \cup {NoPolicy}
    BY <1>1 DEF Durable
  <2>2. nx = [st EXCEPT !.epoch = @ + 1, !.generation = g, !.policy = policy,
                        !.fenced = @ \cap policy.profiles, !.pending = P]
    BY DEF Governed
  <2> HIDE DEF nx, P
  <2>3. nx \in Durable  BY <1>1, <2>1, <2>2 DEF Durable
  <2> QED BY <1>1, <2>2, <2>3 DEF Durable
<1> HIDE DEF nx
<1>3. \A k \in nx.pending : k[1] \in nx.fenced /\ nx.leases[k].status = "active"
  BY <1>2 DEF Sound, Valid
<1>4. Valid(nx)  BY <1>2, <1>3 DEF Sound, Valid, Live
<1>5. g # 0  BY DEF ValidPolicy
<1>6. Sound(nx)  BY <1>2, <1>4, <1>5 DEF Sound
<1> QED BY <1>6 DEF nx

-----------------------------------------------------------------------------
(* The inductive invariant.                                                *)

(* Positive demand and a demand deadline go together. *)
DemandOK(d) ==
  /\ d \in [Profiles -> Demand]
  /\ \A p \in Profiles : /\ (d[p].pending > 0) <=> (d[p].ttl # Untracked)
                         /\ d[p].pending > 0 => d[p].known

(* Provisional leases and lease deadlines go together. *)
DeadlineOK(dl, st) ==
  /\ dl \in [Keys -> -1..LeaseTTL]
  /\ \A k \in Keys : (dl[k] # Untracked) <=> (k \in Provisionals(st))

Inv ==
  /\ up \in BOOLEAN
  /\ Sound(state)
  /\ Sound(disk)
  /\ DemandOK(demand)
  /\ rotation \in Nat
  /\ deadline \in [Keys -> -1..LeaseTTL]
  /\ up => DeadlineOK(deadline, state)
  /\ ~up => \A k \in Keys : deadline[k] = Untracked

(* Absent and satisfied demand carry no deadline. *)
LEMMA NoDemandTyped ==
  /\ NoDemand \in Demand /\ NoDemand.pending = 0 /\ NoDemand.ttl = Untracked
  /\ SatisfiedDemand \in Demand /\ SatisfiedDemand.pending = 0
  /\ SatisfiedDemand.ttl = Untracked
  BY TTLAssumption DEF NoDemand, SatisfiedDemand, Demand, Untracked

(* Forgetting demand keeps demand and deadlines in step. *)
LEMMA ForgetOK ==
  ASSUME NEW d, DemandOK(d), NEW P
  PROVE  DemandOK(Forget(d, P))
  BY NoDemandTyped DEF DemandOK, Forget

(* Publishing demand together with its deadline keeps them in step. *)
LEMMA DemandUpdate ==
  ASSUME NEW d, DemandOK(d), NEW p \in Profiles, NEW e \in Demand,
         (e.pending > 0) <=> (e.ttl # Untracked), e.pending > 0 => e.known
  PROVE  DemandOK([d EXCEPT ![p] = e])
  BY DEF DemandOK

(* The sweep that opens a call keeps documents sound, demand in step, and a *)
(* deadline for exactly the provisional leases that are left.               *)
LEMMA SweepOK ==
  ASSUME Inv, up, NEW st \in Discard(state, Expired)
  PROVE  /\ Sound(st)
         /\ Sound(SweptDisk(st))
         /\ DemandOK(SweptDemand)
         /\ DemandOK(ExpireStaleDemand(SweptDemand))
         /\ DeadlineOK(SweptDeadline, st)
         /\ Provisionals(st) = Provisionals(state) \ Expired
<1>1. Expired \in SUBSET Provisionals(state)  BY DEF Expired
<1>2. Sound(st)  BY <1>1, DiscardSound DEF Inv
<1>3. Sound(SweptDisk(st))  BY <1>2 DEF SweptDisk, Inv
<1>4. DemandOK(SweptDemand)  BY ForgetOK DEF Inv, SweptDemand
<1>5. DemandOK(ExpireStaleDemand(SweptDemand))  BY <1>4, ForgetOK DEF ExpireStaleDemand
<1>6. Expired \in SUBSET Keys  BY <1>1 DEF Provisionals
<1>7. st.leases = [k \in Keys |-> IF k \in Expired THEN NoLease ELSE state.leases[k]]
  BY <1>6, DiscardType DEF Inv, Sound
<1>8. Provisionals(st) = Provisionals(state) \ Expired
  BY <1>6, <1>7 DEF Provisionals, NoLease
<1>9. DeadlineOK(SweptDeadline, st)
  BY <1>8, TTLAssumption DEF SweptDeadline, DeadlineOK, Inv, Untracked
<1> QED BY <1>2, <1>3, <1>4, <1>5, <1>8, <1>9

(* A call whose sweep cannot be saved keeps the invariant. *)
LEMMA SweepFailsOK ==
  ASSUME Inv, up, NEW st \in Discard(state, Expired), NEW R \in SUBSET {state},
         SweepFails(st, R)
  PROVE  Inv'
<1>1. Sound(st)  BY SweepOK
<1>2. Sound(disk')  BY <1>1 DEF SweepFails, Inv
<1> QED BY <1>2 DEF SweepFails, Inv, DeadlineOK, Provisionals

(* A call that decides nothing beyond the sweep keeps the invariant. *)
LEMMA AnswerOK ==
  ASSUME Inv, up, NEW st \in Discard(state, Expired), NEW d, DemandOK(d), Answer(st, d)
  PROVE  Inv'
<1>1. Sound(st) /\ Sound(SweptDisk(st)) /\ DeadlineOK(SweptDeadline, st)  BY SweepOK
<1>2. Sound(state') /\ Sound(disk') /\ DeadlineOK(deadline', state') /\ DemandOK(demand')
  BY <1>1 DEF Answer
<1> QED BY <1>2 DEF Answer, Inv, DeadlineOK

(* A call whose own save fails keeps the invariant. *)
LEMMA SaveFailsOK ==
  ASSUME Inv, up, NEW st \in Discard(state, Expired), NEW d, DemandOK(d),
         NEW next, Sound(next), SaveFails(st, next, d)
  PROVE  Inv'
<1>1. Sound(st) /\ Sound(SweptDisk(st)) /\ DeadlineOK(SweptDeadline, st)  BY SweepOK
<1>2. Sound(state') /\ Sound(disk') /\ DeadlineOK(deadline', state') /\ DemandOK(demand')
  BY <1>1 DEF SaveFails
<1> QED BY <1>2 DEF SaveFails, Inv, DeadlineOK

(* A lease decision keeps the invariant if it gives its lease a deadline    *)
(* exactly when it leaves it provisional.                                   *)
LEMMA DecideOK ==
  ASSUME Inv, up, NEW st \in Discard(state, Expired), NEW k \in Keys,
         NEW next, Sound(next), NEW ttl \in -1..LeaseTTL,
         \A j \in Keys \ {k} : j \in Provisionals(next) <=> j \in Provisionals(st),
         ttl # Untracked <=> k \in Provisionals(next),
         Decide(st, next, k, ttl)
  PROVE  Inv'
<1>1. DemandOK(SweptDemand) /\ DeadlineOK(SweptDeadline, st)  BY SweepOK
<1>2. CASE SaveFails(st, next, SweptDemand)  BY <1>1, <1>2, SaveFailsOK
<1>3. CASE /\ Saved(next)
           /\ demand' = SweptDemand
           /\ deadline' = [SweptDeadline EXCEPT ![k] = ttl]
           /\ UNCHANGED rotation
  <2>1. DeadlineOK(deadline', state')
    BY <1>1, <1>3 DEF DeadlineOK, Saved
  <2>2. Sound(state') /\ Sound(disk') /\ DemandOK(demand') /\ up' = up
    BY <1>1, <1>3 DEF Saved
  <2> QED BY <1>3, <2>1, <2>2 DEF Inv, DeadlineOK
<1> QED BY <1>2, <1>3 DEF Decide

-----------------------------------------------------------------------------
(* One lemma per operation of the coordinator.                             *)

(* A decision changes the status of its own lease alone. *)
LEMMA DecidedProvisionals ==
  ASSUME NEW st \in Durable, NEW k \in Keys, NEW lease, NEW T, NEW P
  PROVE  LET nx == Decided(st, [st.leases EXCEPT ![k] = lease], T, P) IN
         /\ \A j \in Keys \ {k} : j \in Provisionals(nx) <=> j \in Provisionals(st)
         /\ k \in Provisionals(nx) <=> lease.status = "provisional"
<1> DEFINE nx == Decided(st, [st.leases EXCEPT ![k] = lease], T, P)
<1>1. nx.leases = [st.leases EXCEPT ![k] = lease]  BY DEF Decided, Durable
<1>2. st.leases \in [Keys -> Lease]  BY DEF Durable
<1> HIDE DEF nx
<1>3. /\ \A j \in Keys \ {k} : j \in Provisionals(nx) <=> j \in Provisionals(st)
      /\ k \in Provisionals(nx) <=> lease.status = "provisional"
  BY <1>1, <1>2 DEF Provisionals
<1> QED BY <1>3 DEF nx

(* The demand Acquire registers, and what a grant leaves of it. *)
LEMMA AskingOK ==
  ASSUME Inv, up, NEW p \in Profiles, NEW n \in Nat, NEW st \in Discard(state, Expired)
  PROVE  /\ DemandOK(Asking(p, n))
         /\ DemandOK(MetDemand(p, n))
         /\ Asking(p, n)[p].pending > 0
<1> DEFINE base == ExpireStaleDemand(SweptDemand)
           ask == [pending |-> Larger(n, 1), known |-> TRUE, ttl |-> DemandTTL]
           met == [pending |-> n - 1, known |-> TRUE, ttl |-> DemandTTL]
<1>1. DemandOK(base)  BY SweepOK
<1>2. ask \in Demand /\ ask.pending > 0 /\ ask.ttl # Untracked /\ ask.known
  BY TTLAssumption DEF Demand, Larger, Untracked
<1>3. n > 1 => met \in Demand /\ met.pending > 0 /\ met.ttl # Untracked /\ met.known
  BY TTLAssumption DEF Demand, Larger, Untracked
<1>4. base \in [Profiles -> Demand]  BY <1>1 DEF DemandOK
<1>5. Asking(p, n) = [base EXCEPT ![p] = ask]  BY DEF Asking
<1>8. MetDemand(p, n) = [Asking(p, n) EXCEPT ![p] = IF n <= 1 THEN SatisfiedDemand ELSE met]
  BY DEF MetDemand
<1> HIDE DEF base, ask, met
<1>6. DemandOK(Asking(p, n))
  <2>1. DemandOK([base EXCEPT ![p] = ask])  BY <1>1, <1>2, DemandUpdate
  <2> QED BY <1>5, <2>1
<1>7. Asking(p, n)[p] = ask  BY <1>4, <1>5
<1>9. DemandOK(MetDemand(p, n))
  <2>1. CASE n <= 1
    <3>1. DemandOK([Asking(p, n) EXCEPT ![p] = SatisfiedDemand])
      BY <1>6, NoDemandTyped, DemandUpdate
    <3> QED BY <1>8, <2>1, <3>1
  <2>2. CASE ~(n <= 1)
    <3>1. n > 1  BY <2>2
    <3>2. DemandOK([Asking(p, n) EXCEPT ![p] = met])  BY <1>3, <1>6, <3>1, DemandUpdate
    <3> QED BY <1>8, <2>2, <3>2
  <2> QED BY <2>1, <2>2
<1> QED BY <1>2, <1>6, <1>7, <1>9

(* Advancing the rotation divides by a contender count that is not zero. *)
LEMMA RotationTyped ==
  ASSUME NEW verdict, NEW st, Sound(st), NEW d, DemandOK(d), rotation \in Nat,
         NEW p \in st.policy.profiles, d[p].pending > 0
  PROVE  AdvancedRotation(verdict, st.policy, d) \in Nat
<1>1. st.policy.profiles \subseteq Profiles  BY PolicyTyped DEF Sound, Policy
<1>2. IsFiniteSet(Contenders(st.policy, d))
  BY <1>1, ProfilesAssumption, FS_Subset DEF Contenders
<1>3. p \in Contenders(st.policy, d)  BY DEF Contenders
<1>4. Cardinality(Contenders(st.policy, d)) \in Nat \ {0}
  BY <1>2, <1>3, FS_EmptySet, FS_CardinalityType
<1> QED BY <1>4 DEF AdvancedRotation

(* Acquire keeps the invariant once it has swept. *)
LEMMA AcquireFromOK ==
  ASSUME Inv, up, NEW st \in Discard(state, Expired),
         NEW p \in Profiles, NEW s \in Slots, NEW n \in Nat, AcquireFrom(st, p, s, n)
  PROVE  Inv'
<1> DEFINE k == <<p, s>>
           verdict == EvaluateAcquire(st.policy, st.leases, Asking(p, n), rotation, p)
           next == Granted(st, k)
<1>1. DemandOK(Asking(p, n)) /\ DemandOK(MetDemand(p, n)) /\ Asking(p, n)[p].pending > 0
  BY AskingOK
<1>2. Sound(st) /\ DeadlineOK(SweptDeadline, st)  BY SweepOK
<1>3. k \in Keys /\ k[1] = p  BY DEF Keys
<1>4. p \in st.policy.profiles /\ ~Live(st, k)  BY DEF AcquireFrom, Barred
<1>5. Sound(next)  BY <1>2, <1>3, <1>4, GrantedSound
<1>6. CASE verdict \notin Granting /\ Answer(st, Asking(p, n))  BY <1>1, <1>6, AnswerOK
<1>7. CASE SaveFails(st, next, Asking(p, n))  BY <1>1, <1>5, <1>7, SaveFailsOK
<1>8. CASE /\ Saved(next)
           /\ demand' = MetDemand(p, n)
           /\ deadline' = [SweptDeadline EXCEPT ![k] = LeaseTTL]
           /\ rotation' = AdvancedRotation(verdict, st.policy, Asking(p, n))
  <2>1. rotation' \in Nat  BY <1>1, <1>2, <1>4, <1>8, RotationTyped DEF Inv
  <2>2. NewLease(st, k, "provisional").status = "provisional"  BY DEF NewLease
  <2>3. /\ \A j \in Keys \ {k} : j \in Provisionals(next) <=> j \in Provisionals(st)
        /\ k \in Provisionals(next)
    BY <1>2, <1>3, <2>2, DecidedProvisionals DEF Granted, Sound
  <2> HIDE DEF next, k
  <2>4. DeadlineOK(deadline', next)
    BY <1>2, <1>3, <1>8, <2>3, TTLAssumption DEF DeadlineOK, Untracked
  <2> QED BY <1>1, <1>5, <1>8, <2>1, <2>4 DEF Inv, Saved, DeadlineOK
<1> QED BY <1>6, <1>7, <1>8 DEF AcquireFrom

(* Acquire keeps the invariant. *)
LEMMA AcquireOK ==
  ASSUME Inv, NEW p \in Profiles, NEW s \in Slots, NEW n \in Nat, Acquire(p, s, n)
  PROVE  Inv'
<1>1. up  BY DEF Acquire
<1>2. PICK st \in Discard(state, Expired) :
        \/ SweepFails(st, {state})
        \/ Barred(st, p, s) /\ Answer(st, ExpireStaleDemand(SweptDemand))
        \/ AcquireFrom(st, p, s, n)
  BY DEF Acquire
<1>3. DemandOK(ExpireStaleDemand(SweptDemand))  BY <1>1, SweepOK
<1> QED BY <1>1, <1>2, <1>3, SweepFailsOK, AnswerOK, AcquireFromOK

(* Adopt keeps the invariant. *)
LEMMA AdoptOK ==
  ASSUME Inv, NEW p \in Profiles, NEW s \in Slots, Adopt(p, s)
  PROVE  Inv'
<1> DEFINE k == <<p, s>>
<1>1. up /\ k \in Keys /\ k[1] = p  BY DEF Adopt, Keys
<1>2. PICK st \in Discard(state, Expired) :
       \/ SweepFails(st, {state})
       \/ Answer(st, SweptDemand)
       \/ /\ st.leases[k].status = "active"
          /\ Decide(st, Accounted(st, k), k, SweptDeadline[k])
       \/ /\ p \in st.policy.profiles
          /\ st.leases[k].status # "active"
          /\ Decide(st, Adopted(st, k), k, Untracked)
  BY DEF Adopt
<1>3. Sound(st) /\ DemandOK(SweptDemand) /\ DeadlineOK(SweptDeadline, st)  BY <1>1, SweepOK
<1> HIDE DEF k
<1>4. CASE SweepFails(st, {state})  BY <1>1, <1>4, SweepFailsOK
<1>5. CASE Answer(st, SweptDemand)  BY <1>1, <1>3, <1>5, AnswerOK
<1>6. CASE /\ st.leases[k].status = "active"
           /\ Decide(st, Accounted(st, k), k, SweptDeadline[k])
  <2>1. Sound(Accounted(st, k))  BY <1>1, <1>3, AccountedSound
  <2>2. Provisionals(Accounted(st, k)) = Provisionals(st)
    BY <1>3 DEF Provisionals, Accounted, Sound, Durable
  <2>3. SweptDeadline[k] \in -1..LeaseTTL  BY <1>1, <1>3 DEF DeadlineOK
  <2> QED BY <1>1, <1>3, <1>6, <2>1, <2>2, <2>3, DecideOK DEF DeadlineOK
<1>7. CASE /\ p \in st.policy.profiles
           /\ st.leases[k].status # "active"
           /\ Decide(st, Adopted(st, k), k, Untracked)
  <2>1. Sound(Adopted(st, k))  BY <1>1, <1>3, <1>7, AdoptedSound
  <2>2. AdoptedLease(st, k).status = "active"
    BY <1>1, <1>3 DEF AdoptedLease, NewLease, Sound, Durable, Lease
  <2>3. /\ \A j \in Keys \ {k} : j \in Provisionals(Adopted(st, k)) <=> j \in Provisionals(st)
        /\ k \notin Provisionals(Adopted(st, k))
    BY <1>1, <1>3, <2>2, DecidedProvisionals DEF Adopted, Sound
  <2>4. Untracked \in -1..LeaseTTL  BY TTLAssumption DEF Untracked
  <2> QED BY <1>1, <1>7, <2>1, <2>3, <2>4, DecideOK
<1> QED BY <1>2, <1>4, <1>5, <1>6, <1>7

(* Renew keeps the invariant. *)
LEMMA RenewOK ==
  ASSUME Inv, NEW p \in Profiles, NEW s \in Slots, Renew(p, s)
  PROVE  Inv'
<1> DEFINE k == <<p, s>>
<1>1. up /\ k \in Keys  BY DEF Renew, Keys
<1>2. PICK st \in Discard(state, Expired) :
       \/ SweepFails(st, {state})
       \/ Answer(st, SweptDemand)
       \/ k \in Provisionals(st) /\ Decide(st, Renewed(st), k, LeaseTTL)
  BY DEF Renew
<1>3. Sound(st) /\ DemandOK(SweptDemand)  BY <1>1, SweepOK
<1> HIDE DEF k
<1>4. CASE SweepFails(st, {state})  BY <1>1, <1>4, SweepFailsOK
<1>5. CASE Answer(st, SweptDemand)  BY <1>1, <1>3, <1>5, AnswerOK
<1>6. CASE k \in Provisionals(st) /\ Decide(st, Renewed(st), k, LeaseTTL)
  <2>1. Sound(Renewed(st))  BY <1>3, <1>6, RenewedSound
  <2>2. Provisionals(Renewed(st)) = Provisionals(st)
    <3>1. Renewed(st).leases = st.leases  BY <1>3 DEF Renewed, Decided, Sound, Durable
    <3> QED BY <3>1 DEF Provisionals
  <2>3. LeaseTTL \in -1..LeaseTTL /\ LeaseTTL # Untracked
    BY TTLAssumption DEF Untracked
  <2> QED BY <1>1, <1>6, <2>1, <2>2, <2>3, DecideOK
<1> QED BY <1>2, <1>4, <1>5, <1>6

(* Activate keeps the invariant. *)
LEMMA ActivateOK ==
  ASSUME Inv, NEW p \in Profiles, NEW s \in Slots, Activate(p, s)
  PROVE  Inv'
<1> DEFINE k == <<p, s>>
<1>1. up /\ k \in Keys  BY DEF Activate, Keys
<1>2. PICK st \in Discard(state, Expired) :
       \/ SweepFails(st, {state})
       \/ Answer(st, SweptDemand)
       \/ k \in Provisionals(st) /\ Decide(st, Activated(st, k), k, Untracked)
  BY DEF Activate
<1>3. Sound(st) /\ DemandOK(SweptDemand)  BY <1>1, SweepOK
<1> HIDE DEF k
<1>4. CASE SweepFails(st, {state})  BY <1>1, <1>4, SweepFailsOK
<1>5. CASE Answer(st, SweptDemand)  BY <1>1, <1>3, <1>5, AnswerOK
<1>6. CASE k \in Provisionals(st) /\ Decide(st, Activated(st, k), k, Untracked)
  <2>1. Sound(Activated(st, k))  BY <1>3, <1>6, ActivatedSound
  <2>2. [st.leases[k] EXCEPT !.status = "active"].status = "active"
    BY <1>1, <1>3 DEF Sound, Durable, Lease
  <2>3. /\ \A j \in Keys \ {k} :
             j \in Provisionals(Activated(st, k)) <=> j \in Provisionals(st)
        /\ k \notin Provisionals(Activated(st, k))
    <3> DEFINE lease == [st.leases[k] EXCEPT !.status = "active"]
    <3>1. Activated(st, k) =
            Decided(st, [st.leases EXCEPT ![k] = lease], st.tombstones, st.pending)
      BY DEF Activated
    <3>2. lease.status # "provisional"  BY <2>2
    <3> HIDE DEF lease
    <3> QED BY <1>1, <1>3, <3>1, <3>2, DecidedProvisionals DEF Sound
  <2>4. Untracked \in -1..LeaseTTL  BY TTLAssumption DEF Untracked
  <2> QED BY <1>1, <1>6, <2>1, <2>3, <2>4, DecideOK
<1> QED BY <1>2, <1>4, <1>5, <1>6

(* Release, and so Reconcile, keeps the invariant. *)
LEMMA ReleaseOK ==
  ASSUME Inv, NEW p \in Profiles, NEW s \in Slots, Release(p, s)
  PROVE  Inv'
<1> DEFINE k == <<p, s>>
<1>1. up /\ k \in Keys  BY DEF Release, Keys
<1>2. PICK st \in Discard(state, Expired) :
       \/ SweepFails(st, {state})
       \/ Answer(st, SweptDemand)
       \/ Decide(st, Tombstoned(st, k), k, Untracked)
  BY DEF Release
<1>3. Sound(st) /\ DemandOK(SweptDemand)  BY <1>1, SweepOK
<1> HIDE DEF k
<1>4. CASE SweepFails(st, {state})  BY <1>1, <1>4, SweepFailsOK
<1>5. CASE Answer(st, SweptDemand)  BY <1>1, <1>3, <1>5, AnswerOK
<1>6. CASE Decide(st, Tombstoned(st, k), k, Untracked)
  <2>1. Sound(Tombstoned(st, k))  BY <1>1, <1>3, TombstonedSound
  <2>2. NoLease.status = "absent"  BY DEF NoLease
  <2>3. /\ \A j \in Keys \ {k} :
             j \in Provisionals(Tombstoned(st, k)) <=> j \in Provisionals(st)
        /\ k \notin Provisionals(Tombstoned(st, k))
    BY <1>1, <1>3, <2>2, DecidedProvisionals DEF Tombstoned, Sound
  <2>4. Untracked \in -1..LeaseTTL  BY TTLAssumption DEF Untracked
  <2> QED BY <1>1, <1>6, <2>1, <2>3, <2>4, DecideOK
<1> QED BY <1>2, <1>4, <1>5, <1>6

(* BindRegistration keeps the invariant. *)
LEMMA BindRegistrationOK ==
  ASSUME Inv, NEW p \in Profiles, NEW s \in Slots, NEW name \in Names,
         BindRegistration(p, s, name)
  PROVE  Inv'
<1> DEFINE k == <<p, s>>
<1>1. up /\ k \in Keys  BY DEF BindRegistration, Keys
<1>2. PICK st \in Discard(state, Expired) :
       \/ SweepFails(st, {})
       \/ /\ state' = st \/ (Live(st, k) /\ state' = Bound(st, k, name))
          /\ \/ disk' = SweptDisk(st)
             \/ Live(st, k) /\ disk' = Bound(st, k, name)
          /\ demand' = SweptDemand /\ deadline' = SweptDeadline
          /\ UNCHANGED <<up, rotation>>
  BY DEF BindRegistration, Saved
<1>3. /\ Sound(st) /\ Sound(SweptDisk(st)) /\ DemandOK(SweptDemand)
      /\ DeadlineOK(SweptDeadline, st)
  BY <1>1, SweepOK
<1> HIDE DEF k
<1>4. CASE SweepFails(st, {})  BY <1>1, <1>4, SweepFailsOK
<1>5. Live(st, k) => /\ Sound(Bound(st, k, name))
                     /\ DeadlineOK(SweptDeadline, Bound(st, k, name))
  <2> HAVE Live(st, k)
  <2>1. Sound(Bound(st, k, name))  BY <1>1, <1>3, BoundSound
  <2>2. [st.leases[k] EXCEPT !.name = name].status = st.leases[k].status
    BY <1>1, <1>3 DEF Sound, Durable, Lease
  <2>3. \A j \in Keys : j \in Provisionals(Bound(st, k, name)) <=> j \in Provisionals(st)
    <3> DEFINE lease == [st.leases[k] EXCEPT !.name = name]
    <3>1. Bound(st, k, name) =
            Decided(st, [st.leases EXCEPT ![k] = lease], st.tombstones, st.pending)
      BY DEF Bound
    <3> HIDE DEF lease
    <3>2. /\ \A j \in Keys \ {k} :
               j \in Provisionals(Bound(st, k, name)) <=> j \in Provisionals(st)
          /\ k \in Provisionals(Bound(st, k, name)) <=> lease.status = "provisional"
      BY <1>1, <1>3, <3>1, DecidedProvisionals DEF Sound
    <3>3. k \in Provisionals(st) <=> st.leases[k].status = "provisional"
      BY <1>1 DEF Provisionals
    <3> QED BY <2>2, <3>2, <3>3 DEF lease
  <2> QED BY <1>3, <2>1, <2>3 DEF DeadlineOK
<1>6. CASE /\ state' = st \/ (Live(st, k) /\ state' = Bound(st, k, name))
           /\ \/ disk' = SweptDisk(st)
              \/ Live(st, k) /\ disk' = Bound(st, k, name)
           /\ demand' = SweptDemand /\ deadline' = SweptDeadline
           /\ UNCHANGED <<up, rotation>>
  <2>1. Sound(state') /\ Sound(disk') /\ DemandOK(demand')
    BY <1>3, <1>5, <1>6
  <2>2. DeadlineOK(deadline', state')
    BY <1>3, <1>5, <1>6
  <2>3. up' \in BOOLEAN /\ up' /\ rotation' \in Nat  BY <1>1, <1>6 DEF Inv
  <2> QED BY <2>1, <2>2, <2>3 DEF Inv, DeadlineOK
<1> QED BY <1>2, <1>4, <1>6

(* Status keeps the invariant. *)
LEMMA StatusOK ==
  ASSUME Inv, Status
  PROVE  Inv'
<1>1. PICK st \in Discard(state, Expired) :
        /\ up
        /\ \/ SweepFails(st, {})
           \/ /\ state' = st
              /\ disk' = SweptDisk(st)
              /\ demand' = ExpireStaleDemand(SweptDemand)
              /\ deadline' = SweptDeadline
              /\ UNCHANGED <<up, rotation>>
  BY DEF Status, StatusAnswered
<1>2. /\ Sound(st) /\ Sound(SweptDisk(st)) /\ DemandOK(ExpireStaleDemand(SweptDemand))
      /\ DeadlineOK(SweptDeadline, st)
  BY <1>1, SweepOK
<1>3. CASE SweepFails(st, {})  BY <1>1, <1>3, SweepFailsOK
<1>4. CASE ~SweepFails(st, {})  BY <1>1, <1>2, <1>4 DEF Inv, DeadlineOK
<1> QED BY <1>3, <1>4

(* SetDemand keeps the invariant. *)
LEMMA SetDemandOK ==
  ASSUME Inv, NEW p \in Profiles, NEW n \in Nat, SetDemand(p, n)
  PROVE  Inv'
<1> DEFINE e == [pending |-> n, known |-> TRUE, ttl |-> DemandTTL]
           base == ExpireStaleDemand(demand)
<1>1. DemandOK(base)  BY ForgetOK DEF Inv, ExpireStaleDemand
<1>2. demand' = [base EXCEPT ![p] = IF n = 0 THEN SatisfiedDemand ELSE e]
  BY DEF SetDemand
<1>3. n # 0 => e \in Demand /\ e.pending > 0 /\ e.ttl # Untracked /\ e.known
  BY TTLAssumption DEF Demand, Untracked
<1> HIDE DEF e, base
<1>4. DemandOK(demand')
  <2>1. CASE n = 0
    <3>1. DemandOK([base EXCEPT ![p] = SatisfiedDemand])  BY <1>1, NoDemandTyped, DemandUpdate
    <3> QED BY <1>2, <2>1, <3>1
  <2>2. CASE n # 0
    <3>1. DemandOK([base EXCEPT ![p] = e])  BY <1>1, <1>3, <2>2, DemandUpdate
    <3> QED BY <1>2, <2>2, <3>1
  <2> QED BY <2>1, <2>2
<1> QED BY <1>4 DEF SetDemand, Inv, DeadlineOK, Provisionals

(* An operation that saves once and touches no lease keeps the invariant. *)
LEMMA PublishOK ==
  ASSUME Inv, up, NEW next, Sound(next), next.leases = state.leases,
         \/ Saved(next)
         \/ disk' = next /\ UNCHANGED <<up, state>>,
         DemandOK(demand'), UNCHANGED <<deadline, rotation>>
  PROVE  Inv'
<1>1. Sound(state') /\ Sound(disk') /\ up' = up  BY DEF Saved, Inv
<1>2. state'.leases = state.leases  BY DEF Saved
<1>3. DeadlineOK(deadline', state')  BY <1>2 DEF DeadlineOK, Provisionals, Inv
<1> QED BY <1>1, <1>3 DEF Inv, DeadlineOK

(* BeginAdoption keeps the invariant. *)
LEMMA BeginAdoptionOK ==
  ASSUME Inv, NEW p \in Profiles, BeginAdoption(p)
  PROVE  Inv'
<1>1. Sound(Fenced(state, p))  BY FencedSound DEF Inv, BeginAdoption
<1>2. Fenced(state, p).leases = state.leases  BY DEF Fenced, Inv, Sound, Durable
<1>3. DemandOK(demand')  BY DEF BeginAdoption, Inv
<1> QED BY <1>1, <1>2, <1>3, PublishOK DEF BeginAdoption, Publish

(* CompleteAdoption keeps the invariant. *)
LEMMA CompleteAdoptionOK ==
  ASSUME Inv, NEW p \in Profiles, CompleteAdoption(p)
  PROVE  Inv'
<1>1. Sound(Unfenced(state, p))  BY UnfencedSound DEF Inv, CompleteAdoption
<1>2. Unfenced(state, p).leases = state.leases  BY DEF Unfenced, Inv, Sound, Durable
<1>3. DemandOK(demand')  BY DEF CompleteAdoption, Inv
<1> QED BY <1>1, <1>2, <1>3, PublishOK DEF CompleteAdoption, Publish

(* ApplyPolicy keeps the invariant. *)
LEMMA ApplyPolicyOK ==
  ASSUME Inv, NEW g \in Nat, NEW policy \in Publications, ApplyPolicy(g, policy)
  PROVE  Inv'
<1>1. Sound(Governed(state, g, policy))  BY GovernedSound DEF Inv, ApplyPolicy
<1>2. Governed(state, g, policy).leases = state.leases  BY DEF Governed, Inv, Sound, Durable
<1>3. DemandOK([p \in Profiles |-> NoDemand])  BY NoDemandTyped DEF DemandOK
<1>4. DemandOK(demand')  BY <1>3 DEF ApplyPolicy, Inv
<1> QED BY <1>1, <1>2, <1>4, PublishOK DEF ApplyPolicy

(* The passing of time keeps the invariant: a deadline is never lost. *)
LEMMA TickOK ==
  ASSUME Inv, Tick
  PROVE  Inv'
<1>1. ASSUME NEW bound \in Nat, NEW n \in -1..bound
      PROVE  Countdown(n) \in -1..bound /\ (Countdown(n) = Untracked <=> n = Untracked)
  BY DEF Countdown, Untracked
<1>2. deadline' \in [Keys -> -1..LeaseTTL]
  BY <1>1, TTLAssumption DEF Tick, Inv
<1>3. \A k \in Keys : deadline'[k] = Untracked <=> deadline[k] = Untracked
  BY <1>1, TTLAssumption DEF Tick, Inv
<1>4. DemandOK(demand')
  <2>1. demand \in [Profiles -> Demand]  BY DEF Inv, DemandOK
  <2>2. ASSUME NEW p \in Profiles
        PROVE  /\ demand'[p] \in Demand
               /\ demand'[p].pending = demand[p].pending
               /\ demand'[p].known = demand[p].known
               /\ demand'[p].ttl = Untracked <=> demand[p].ttl = Untracked
    <3>1. demand'[p] = [demand[p] EXCEPT !.ttl = Countdown(demand[p].ttl)]  BY DEF Tick
    <3>2. demand[p].ttl \in -1..DemandTTL  BY <2>1 DEF Demand
    <3>3. /\ Countdown(demand[p].ttl) \in -1..DemandTTL
          /\ Countdown(demand[p].ttl) = Untracked <=> demand[p].ttl = Untracked
      BY <1>1, <3>2, TTLAssumption
    <3>4. demand[p] \in Demand  BY <2>1
    <3> QED BY <3>1, <3>3, <3>4 DEF Demand
  <2>3. demand' \in [Profiles -> Demand]
    <3>1. demand' = [p \in Profiles |-> demand'[p]]  BY DEF Tick
    <3> QED BY <2>2, <3>1
  <2>4. \A p \in Profiles :
          /\ (demand[p].pending > 0) <=> (demand[p].ttl # Untracked)
          /\ demand[p].pending > 0 => demand[p].known
    BY DEF DemandOK, Inv
  <2>5. \A p \in Profiles :
          /\ (demand'[p].pending > 0) <=> (demand'[p].ttl # Untracked)
          /\ demand'[p].pending > 0 => demand'[p].known
    BY <2>2, <2>4
  <2> QED BY <2>3, <2>5 DEF DemandOK
<1>5. UNCHANGED <<up, state, disk, rotation>>  BY DEF Tick
<1> QED BY <1>2, <1>3, <1>4, <1>5 DEF Inv, DeadlineOK, Provisionals

(* A crash keeps the invariant: it loses demand and deadlines, not documents. *)
LEMMA CrashOK ==
  ASSUME Inv, Crash
  PROVE  Inv'
<1>1. DemandOK(demand')  BY NoDemandTyped DEF DemandOK, Crash
<1>2. deadline' \in [Keys -> -1..LeaseTTL]  BY TTLAssumption DEF Crash, Untracked
<1> QED BY <1>1, <1>2 DEF Inv, Crash

(* A restart keeps the invariant: what it restores holds no provisional lease. *)
LEMMA OpenOK ==
  ASSUME Inv, Open
  PROVE  Inv'
<1>1. PICK st \in Discard(disk, Provisionals(disk)) :
        /\ disk' = st
        /\ \/ up' = TRUE /\ state' = st /\ rotation' = st.seq % RotationSeedModulus
           \/ UNCHANGED <<up, state, rotation>>
  BY DEF Open
<1>2. ~up /\ UNCHANGED <<demand, deadline>>  BY DEF Open
<1>3. Sound(st)  BY DiscardSound DEF Inv
<1>4. st.leases = [k \in Keys |-> IF k \in Provisionals(disk) THEN NoLease
                                  ELSE disk.leases[k]]
  BY DiscardType DEF Inv, Sound, Provisionals
<1>5. Provisionals(st) = {}  BY <1>4 DEF Provisionals, NoLease
<1>6. DeadlineOK(deadline, st)  BY <1>2, <1>5 DEF DeadlineOK, Inv
<1>7. st.seq % RotationSeedModulus \in Nat  BY <1>3 DEF Sound, Durable, RotationSeedModulus
<1>8. Sound(state') /\ Sound(disk') /\ rotation' \in Nat /\ up' \in BOOLEAN
  BY <1>1, <1>3, <1>7 DEF Inv
<1>9. DemandOK(demand') /\ deadline' \in [Keys -> -1..LeaseTTL]  BY <1>2 DEF Inv
<1>10. up' => DeadlineOK(deadline', state')  BY <1>1, <1>2, <1>6
<1>11. \A k \in Keys : deadline'[k] = Untracked  BY <1>2 DEF Inv
<1> QED BY <1>8, <1>9, <1>10, <1>11 DEF Inv

-----------------------------------------------------------------------------
(* The invariant holds in every behaviour.                                 *)

(* A fresh coordinator satisfies the invariant. *)
LEMMA InitInv == Init => Inv
<1> SUFFICES ASSUME Init PROVE Inv  OBVIOUS
<1>1. DemandOK(demand)  BY NoDemandTyped DEF Init, DemandOK
<1>2. Sound(state) /\ Sound(disk)  BY NewSound DEF Init
<1>3. Provisionals(state) = {}  BY DEF Init, Provisionals, NewDurable, NoLease
<1>4. deadline \in [Keys -> -1..LeaseTTL]  BY TTLAssumption DEF Init, Untracked
<1>5. DeadlineOK(deadline, state)  BY <1>3, <1>4 DEF DeadlineOK, Init
<1> QED BY <1>1, <1>2, <1>4, <1>5 DEF Init, Inv

(* Every step of the coordinator keeps the invariant. *)
LEMMA NextInv == Inv /\ [Next]_vars => Inv'
<1> SUFFICES ASSUME Inv, [Next]_vars PROVE Inv'  OBVIOUS
<1>1. \A n : n \in 0..MaxPending => n \in Nat  BY BoundsAssumption
<1>2. ASSUME NEW p \in Profiles, NEW s \in Slots, Call(p, s) PROVE Inv'
  BY <1>1, <1>2, AcquireOK, AdoptOK, RenewOK, ActivateOK, ReleaseOK, BindRegistrationOK
     DEF Call, Reconcile
<1>3. ASSUME NEW p \in Profiles, ProfileCall(p) PROVE Inv'
  BY <1>1, <1>3, SetDemandOK, BeginAdoptionOK, CompleteAdoptionOK DEF ProfileCall
<1>4. ASSUME NEW g \in 0..MaxGeneration, NEW policy \in Publications, ApplyPolicy(g, policy)
      PROVE  Inv'
  <2>1. g \in Nat  BY BoundsAssumption
  <2> QED BY <1>4, <2>1, ApplyPolicyOK
<1>5. CASE UNCHANGED vars  BY <1>5 DEF vars, Inv, DeadlineOK, Provisionals
<1> QED BY <1>2, <1>3, <1>4, <1>5, StatusOK, TickOK, CrashOK, OpenOK DEF Next, Serve

(* The inductive invariant holds in every reachable state: every document in *)
(* memory and on disk passes validate, and deadlines and demand are tracked. *)
THEOREM Invariance == Spec => []Inv
<1>1. Inv /\ [Next]_vars => Inv'  BY NextInv
<1> QED BY InitInv, <1>1, PTL DEF Spec

(* Every reachable state of the coordinator has the types TypeOK gives. *)
THEOREM TypeCorrect == Spec => []TypeOK
<1>1. Inv => TypeOK  BY DEF Inv, TypeOK, Sound, DemandOK
<1> QED BY Invariance, <1>1, PTL

(* Whatever saves failed and whenever the process died, Open finds a document *)
(* that durableState.validate accepts.                                        *)
THEOREM DocumentsValid == Spec => []DocumentValid
<1>1. Inv => DocumentValid  BY DEF Inv, DocumentValid, Sound
<1> QED BY Invariance, <1>1, PTL

(* A serving coordinator has a deadline for exactly its provisional leases, so *)
(* the fail-closed branch of sweepExpiredLocked is never what ends one.        *)
THEOREM DeadlinesAlwaysTracked == Spec => []DeadlinesTracked
<1>1. Inv => DeadlinesTracked  BY DEF Inv, DeadlinesTracked, DeadlineOK
<1> QED BY Invariance, <1>1, PTL

(* Demand that weighs on other profiles always has a deadline that ends it. *)
THEOREM DemandAlwaysTracked == Spec => []DemandTracked
<1>1. Inv => DemandTracked  BY DEF Inv, DemandTracked, DemandOK
<1> QED BY Invariance, <1>1, PTL

=============================================================================
