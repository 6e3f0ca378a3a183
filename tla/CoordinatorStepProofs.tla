------------------------ MODULE CoordinatorStepProofs ------------------------
(* What one step of the coordinator may do to the sequences, the lease     *)
(* identifiers and the held units: proofs of SequencesDurable,             *)
(* NeverBackward and GrantsFitBudget.                                      *)
EXTENDS CoordinatorProofs, UnitsProofs

(* new may follow old: nothing runs backward and no identifier is reused.  *)
Later(old, new) ==
  /\ old.seq <= new.seq
  /\ old.epoch <= new.epoch
  /\ old.generation <= new.generation
  /\ \A k \in Keys : \/ new.leases[k].id \in {0, old.leases[k].id}
                     \/ new.leases[k].id > old.seq

(* Every provisional lease of new was already there, the same, in old. *)
NoNewGrant(old, new) ==
  \A k \in Provisionals(new) :
    k \in Provisionals(old) /\ new.leases[k].id = old.leases[k].id

(* A document follows itself. *)
LEMMA LaterReflexive ==
  ASSUME NEW st \in Durable
  PROVE  Later(st, st) /\ NoNewGrant(st, st)
  BY DEF Later, Durable, NoNewGrant

(* Following is transitive. *)
LEMMA LaterTransitive ==
  ASSUME NEW a \in Durable, NEW b \in Durable, NEW c \in Durable,
         Later(a, b), Later(b, c)
  PROVE  Later(a, c)
<1>1. /\ a.seq \in Nat /\ b.seq \in Nat /\ c.seq \in Nat
      /\ a.epoch \in Nat /\ b.epoch \in Nat /\ c.epoch \in Nat
      /\ a.generation \in Nat /\ b.generation \in Nat /\ c.generation \in Nat
      /\ \A k \in Keys : c.leases[k].id \in Nat
  BY DEF Durable, Lease
<1>2. \A k \in Keys : \/ c.leases[k].id \in {0, a.leases[k].id}
                      \/ c.leases[k].id > a.seq
  BY <1>1 DEF Later
<1> QED BY <1>1, <1>2 DEF Later

(* Keeping grants is transitive. *)
LEMMA NoNewGrantTransitive ==
  ASSUME NEW a, NEW b, NEW c, NoNewGrant(a, b), NoNewGrant(b, c)
  PROVE  NoNewGrant(a, c)
  BY DEF NoNewGrant

(* A decision that changes lease k alone, keeps its identifier or takes the *)
(* next sequence number, keeps a document numbered and follows it.          *)
LEMMA DecidedEvolves ==
  ASSUME NEW st, Sound(st), Numbered(st), NEW k \in Keys,
         NEW lease \in Lease, NEW T \in [Keys -> Nat], NEW P,
         lease.id \in {0, st.leases[k].id, st.seq + 1},
         lease.status # "absent" =>
           \/ lease.id = st.seq + 1
           \/ Live(st, k) /\ lease.id = st.leases[k].id,
         \A j \in Keys \ {k} : T[j] \in {0, st.tombstones[j]},
         T[k] \in {0, st.tombstones[k], st.seq + 1}
  PROVE  LET nx == Decided(st, [st.leases EXCEPT ![k] = lease], T, P) IN
         /\ Numbered(nx)
         /\ Later(st, nx)
         /\ (lease.status = "provisional"
               => k \in Provisionals(st) /\ lease.id = st.leases[k].id)
             => NoNewGrant(st, nx)
<1> DEFINE L == [st.leases EXCEPT ![k] = lease]
           nx == Decided(st, L, T, P)
<1>1. st \in Durable  BY DEF Sound
<1>2. /\ nx.seq = st.seq + 1 /\ nx.epoch = st.epoch /\ nx.generation = st.generation
      /\ nx.leases = L /\ nx.tombstones = T
  BY <1>1 DEF Decided, Durable
<1>3. \A j \in Keys : L[j] = IF j = k THEN lease ELSE st.leases[j]
  BY <1>1 DEF Durable
<1>4. /\ st.seq \in Nat /\ st.epoch \in Nat /\ st.generation \in Nat
      /\ \A j \in Keys : st.leases[j].id \in Nat /\ st.tombstones[j] \in Nat
      /\ lease.id \in Nat
  BY <1>1 DEF Durable, Lease
<1> HIDE DEF L, nx
<1>5. \A j \in Keys : st.leases[j].id <= st.seq /\ st.tombstones[j] <= st.seq
  BY DEF Numbered
<1>6. \A j \in Keys : nx.leases[j].id <= nx.seq /\ nx.tombstones[j] <= nx.seq
  <2> TAKE j \in Keys
  <2>1. CASE j = k  BY <1>2, <1>3, <1>4, <1>5, <2>1
  <2>2. CASE j # k  BY <1>2, <1>3, <1>4, <1>5, <2>2
  <2> QED BY <2>1, <2>2
<1>7. \A i, j \in Keys : i # j /\ Live(nx, i) /\ Live(nx, j)
                           => nx.leases[i].id # nx.leases[j].id
  <2>1. \A j \in Keys \ {k} : Live(nx, j) <=> Live(st, j)  BY <1>2, <1>3 DEF Live
  <2>2. ASSUME NEW j \in Keys \ {k}, Live(nx, j), Live(nx, k)
        PROVE  st.leases[j].id # lease.id
    <3>1. Live(st, j) /\ lease.status # "absent"  BY <1>2, <1>3, <2>1, <2>2 DEF Live
    <3>2. st.leases[j].id # st.seq + 1  BY <1>4, <1>5
    <3> QED BY <3>1, <3>2 DEF Numbered
  <2>3. ASSUME NEW i \in Keys \ {k}, NEW j \in Keys \ {k}, i # j, Live(nx, i), Live(nx, j)
        PROVE  st.leases[i].id # st.leases[j].id
    BY <2>1, <2>3 DEF Numbered
  <2> QED BY <1>2, <1>3, <2>2, <2>3
<1>8. \A i, j \in Keys : i # j /\ nx.tombstones[i] # 0
                           => nx.tombstones[i] # nx.tombstones[j]
  <2>1. \A i, j \in Keys : i # j /\ st.tombstones[i] # 0
                             => st.tombstones[i] # st.tombstones[j]
    BY DEF Numbered
  <2>2. \A j \in Keys : st.tombstones[j] # st.seq + 1  BY <1>4, <1>5
  <2> QED BY <1>2, <1>4, <2>1, <2>2
<1>9. Numbered(nx)  BY <1>6, <1>7, <1>8 DEF Numbered
<1>10. Later(st, nx)  BY <1>2, <1>3, <1>4 DEF Later
<1>11. (lease.status = "provisional"
          => k \in Provisionals(st) /\ lease.id = st.leases[k].id)
        => NoNewGrant(st, nx)
  BY <1>2, <1>3 DEF NoNewGrant, Provisionals
<1> QED BY <1>9, <1>10, <1>11 DEF nx, L

(* Compaction forgets tombstones but never renumbers one. *)
LEMMA CompactDistinct ==
  ASSUME NEW t \in [Keys -> Nat],
         \A i, j \in Keys : i # j /\ t[i] # 0 => t[i] # t[j]
  PROVE  \A i, j \in Keys : i # j /\ CompactTombstones(t)[i] # 0
                              => CompactTombstones(t)[i] # CompactTombstones(t)[j]
  BY CompactType

(* Expiry and restart number the tombstones of the leases they end afresh. *)
LEMMA DiscardTombstones ==
  ASSUME NEW st, Sound(st), Numbered(st), NEW X \in SUBSET Keys, X # {},
         NEW nx \in Discard(st, X)
  PROVE  \A i, j \in Keys : i # j /\ nx.tombstones[i] # 0
                              => nx.tombstones[i] # nx.tombstones[j]
<1>1. PICK order \in Bijection(X, 1..Cardinality(X)) :
        nx = [st EXCEPT
               !.seq = @ + Cardinality(X),
               !.leases = [k \in Keys |-> IF k \in X THEN NoLease ELSE @[k]],
               !.tombstones = CompactTombstones(
                 [k \in Keys |-> IF k \in X THEN st.seq + order[k] ELSE @[k]])]
  BY DEF Discard
<1> DEFINE t == [k \in Keys |-> IF k \in X THEN st.seq + order[k] ELSE st.tombstones[k]]
<1>2. st \in Durable /\ Cardinality(X) \in Nat  BY CardinalityOfKeys DEF Sound
<1>3. order \in [X -> 1..Cardinality(X)] /\ \A i, j \in X : i # j => order[i] # order[j]
  BY DEF Bijection, Injection, IsInjective
<1>4. st.seq \in Nat /\ \A k \in Keys : st.tombstones[k] \in Nat /\ st.tombstones[k] <= st.seq
  BY <1>2 DEF Durable, Numbered
<1>5. t \in [Keys -> Nat]  BY <1>2, <1>3, <1>4
<1>6. nx.tombstones = CompactTombstones(t)  BY <1>1, <1>2 DEF Durable
<1>7. \A i, j \in Keys : i # j /\ t[i] # 0 => t[i] # t[j]
  <2> SUFFICES ASSUME NEW i \in Keys, NEW j \in Keys, i # j, t[i] # 0 PROVE t[i] # t[j]
    OBVIOUS
  <2>1. CASE i \in X /\ j \in X  BY <1>2, <1>3, <1>4, <2>1
  <2>2. CASE i \in X /\ j \notin X  BY <1>2, <1>3, <1>4, <2>2
  <2>3. CASE i \notin X /\ j \in X  BY <1>2, <1>3, <1>4, <2>3
  <2>4. CASE i \notin X /\ j \notin X  BY <2>4 DEF Numbered
  <2> QED BY <2>1, <2>2, <2>3, <2>4
<1> HIDE DEF t
<1> QED BY <1>5, <1>6, <1>7, CompactDistinct

(* Expiry and restart keep a document numbered, follow it and grant nothing. *)
LEMMA DiscardEvolves ==
  ASSUME NEW st, Sound(st), Numbered(st), NEW X \in SUBSET Provisionals(st),
         NEW nx \in Discard(st, X)
  PROVE  Numbered(nx) /\ Later(st, nx) /\ NoNewGrant(st, nx)
<1>1. CASE X = {}
  <2>1. nx = st  BY <1>1 DEF Discard
  <2> QED BY <2>1, LaterReflexive DEF Sound
<1>2. CASE X # {}
  <2>1. st \in Durable /\ X \in SUBSET Keys  BY DEF Sound, Provisionals
  <2>2. /\ nx \in Durable
        /\ nx.epoch = st.epoch /\ nx.generation = st.generation
        /\ nx.seq = st.seq + Cardinality(X)
        /\ nx.leases = [k \in Keys |-> IF k \in X THEN NoLease ELSE st.leases[k]]
        /\ \A k \in Keys \ X : nx.tombstones[k] \in {0, st.tombstones[k]}
        /\ \A k \in X : nx.tombstones[k] = 0 \/ nx.tombstones[k] \in st.seq + 1 .. nx.seq
    BY <2>1, DiscardType
  <2>3. /\ st.seq \in Nat /\ Cardinality(X) \in Nat /\ nx.seq \in Nat
        /\ st.epoch \in Nat /\ st.generation \in Nat
        /\ \A k \in Keys : /\ st.leases[k].id \in Nat /\ st.leases[k].id <= st.seq
                           /\ st.tombstones[k] \in Nat /\ st.tombstones[k] <= st.seq
    BY <2>1, <2>2, CardinalityOfKeys DEF Durable, Lease, Numbered
  <2>4. NoLease.id = 0 /\ NoLease.status = "absent"  BY DEF NoLease
  <2>5. \A k \in Keys : nx.leases[k].id <= nx.seq  BY <2>2, <2>3, <2>4
  <2>6. \A k \in Keys : nx.tombstones[k] <= nx.seq
    <3> TAKE k \in Keys
    <3>1. CASE k \in X  BY <2>2, <2>3, <3>1
    <3>2. CASE k \notin X  BY <2>2, <2>3, <3>2
    <3> QED BY <3>1, <3>2
  <2>7. \A i, j \in Keys : i # j /\ Live(nx, i) /\ Live(nx, j)
                             => nx.leases[i].id # nx.leases[j].id
    BY <2>2, <2>4 DEF Live, Numbered
  <2>8. Numbered(nx)  BY <1>2, <2>1, <2>5, <2>6, <2>7, DiscardTombstones DEF Numbered
  <2>9. Later(st, nx)  BY <2>2, <2>3, <2>4 DEF Later
  <2>10. NoNewGrant(st, nx)  BY <2>2, <2>4 DEF NoNewGrant, Provisionals
  <2> QED BY <2>8, <2>9, <2>10
<1> QED BY <1>1, <1>2

-----------------------------------------------------------------------------
(* The operations on documents.                                            *)

Evolves(old, new) == Numbered(new) /\ Later(old, new) /\ NoNewGrant(old, new)

(* A grant takes the next sequence number as its identifier. *)
LEMMA GrantedEvolves ==
  ASSUME NEW st, Sound(st), Numbered(st), NEW k \in Keys, k[1] \in st.policy.profiles
  PROVE  Numbered(Granted(st, k)) /\ Later(st, Granted(st, k))
<1> DEFINE lease == NewLease(st, k, "provisional")
           T == [st.tombstones EXCEPT ![k] = 0]
<1>1. lease \in Lease  BY NewLeaseTyped DEF LeaseStatus
<1>2. lease.id = st.seq + 1  BY DEF NewLease
<1>3. T \in [Keys -> Nat] /\ T[k] = 0 /\ \A j \in Keys \ {k} : T[j] = st.tombstones[j]
  BY DEF Sound, Durable
<1>4. Granted(st, k) = Decided(st, [st.leases EXCEPT ![k] = lease], T, st.pending)
  BY DEF Granted
<1> HIDE DEF lease, T
<1> QED BY <1>1, <1>2, <1>3, <1>4, DecidedEvolves

(* Adoption promotes the lease it finds or makes an active one. *)
LEMMA AdoptedEvolves ==
  ASSUME NEW st, Sound(st), Numbered(st), NEW k \in Keys, k[1] \in st.policy.profiles
  PROVE  Evolves(st, Adopted(st, k))
<1> DEFINE lease == AdoptedLease(st, k)
           T == [st.tombstones EXCEPT ![k] = 0]
<1>1. /\ lease \in Lease /\ lease.status = "active"
      /\ lease.id = IF Live(st, k) THEN st.leases[k].id ELSE st.seq + 1
  <2>1. st.leases[k] \in Lease  BY DEF Sound, Durable
  <2>2. CASE Live(st, k)  BY <2>1, <2>2 DEF AdoptedLease, Lease, LeaseStatus
  <2>3. CASE ~Live(st, k)
    <3>1. lease = NewLease(st, k, "active")  BY <2>3 DEF AdoptedLease
    <3>2. lease \in Lease  BY <3>1, NewLeaseTyped DEF LeaseStatus
    <3> QED BY <2>3, <3>1, <3>2 DEF NewLease
  <2> QED BY <2>2, <2>3
<1>2. T \in [Keys -> Nat] /\ T[k] = 0 /\ \A j \in Keys \ {k} : T[j] = st.tombstones[j]
  BY DEF Sound, Durable
<1>3. Adopted(st, k) = Decided(st, [st.leases EXCEPT ![k] = lease], T, st.pending \ {k})
  BY DEF Adopted
<1> HIDE DEF lease, T
<1> QED BY <1>1, <1>2, <1>3, DecidedEvolves DEF Evolves

(* Striking a lease off a fence touches no lease. *)
LEMMA AccountedEvolves ==
  ASSUME NEW st, Sound(st), Numbered(st), NEW k \in Keys
  PROVE  Evolves(st, Accounted(st, k))
<1> DEFINE nx == Accounted(st, k)
<1>1. /\ nx.seq = st.seq /\ nx.epoch = st.epoch /\ nx.generation = st.generation
      /\ nx.leases = st.leases /\ nx.tombstones = st.tombstones
  BY DEF Accounted, Sound, Durable
<1>2. Later(st, st) /\ NoNewGrant(st, st)  BY LaterReflexive DEF Sound
<1> HIDE DEF nx
<1>3. Evolves(st, nx)
  BY <1>1, <1>2 DEF Evolves, Numbered, Later, NoNewGrant, Live, Provisionals
<1> QED BY <1>3 DEF nx

(* Activation changes a provisional lease's status alone. *)
LEMMA ActivatedEvolves ==
  ASSUME NEW st, Sound(st), Numbered(st), NEW k \in Provisionals(st)
  PROVE  Evolves(st, Activated(st, k))
<1> DEFINE lease == [st.leases[k] EXCEPT !.status = "active"]
<1>1. k \in Keys /\ Live(st, k) /\ st.leases[k] \in Lease /\ st.tombstones \in [Keys -> Nat]
  BY DEF Sound, Durable, Provisionals, Live
<1>2. lease \in Lease /\ lease.status = "active" /\ lease.id = st.leases[k].id
  BY <1>1 DEF Lease, LeaseStatus
<1>3. Activated(st, k) =
        Decided(st, [st.leases EXCEPT ![k] = lease], st.tombstones, st.pending)
  BY DEF Activated
<1> HIDE DEF lease
<1> QED BY <1>1, <1>2, <1>3, DecidedEvolves DEF Evolves

(* Renewal takes a sequence number and touches no durable lease. *)
LEMMA RenewedEvolves ==
  ASSUME NEW st, Sound(st), Numbered(st), NEW k \in Provisionals(st)
  PROVE  Evolves(st, Renewed(st))
<1> DEFINE lease == st.leases[k]
<1>1. k \in Keys /\ Live(st, k) /\ lease \in Lease /\ st.tombstones \in [Keys -> Nat]
  BY DEF Sound, Durable, Provisionals, Live
<1>2. st.leases = [st.leases EXCEPT ![k] = lease]
  BY <1>1 DEF Sound, Durable
<1>3. Renewed(st) =
        Decided(st, [st.leases EXCEPT ![k] = lease], st.tombstones, st.pending)
  BY <1>2 DEF Renewed
<1>4. lease.id = st.leases[k].id  OBVIOUS
<1> HIDE DEF lease
<1> QED BY <1>1, <1>3, <1>4, DecidedEvolves DEF Evolves

(* Binding a registration changes a live lease's name alone. *)
LEMMA BoundEvolves ==
  ASSUME NEW st, Sound(st), Numbered(st), NEW k \in Keys, Live(st, k), NEW name \in Names
  PROVE  Evolves(st, Bound(st, k, name))
<1> DEFINE lease == [st.leases[k] EXCEPT !.name = name]
<1>1. st.leases[k] \in Lease /\ st.tombstones \in [Keys -> Nat]  BY DEF Sound, Durable
<1>2. /\ lease \in Lease /\ lease.id = st.leases[k].id
      /\ lease.status = st.leases[k].status
  BY <1>1 DEF Lease
<1>3. Bound(st, k, name) =
        Decided(st, [st.leases EXCEPT ![k] = lease], st.tombstones, st.pending)
  BY DEF Bound
<1>4. lease.status = "provisional" => k \in Provisionals(st)  BY <1>2 DEF Provisionals
<1> HIDE DEF lease
<1> QED BY <1>1, <1>2, <1>3, <1>4, DecidedEvolves DEF Evolves

(* A release leaves a tombstone numbered with the next sequence number. *)
LEMMA TombstonedEvolves ==
  ASSUME NEW st, Sound(st), Numbered(st), NEW k \in Keys
  PROVE  Evolves(st, Tombstoned(st, k))
<1> DEFINE t == [st.tombstones EXCEPT ![k] = st.seq + 1]
           T == CompactTombstones(t)
<1>1. /\ t \in [Keys -> Nat] /\ t[k] = st.seq + 1
      /\ \A j \in Keys \ {k} : t[j] = st.tombstones[j]
  BY DEF Sound, Durable
<1> HIDE DEF t
<1>2. T \in [Keys -> Nat] /\ \A j \in Keys : T[j] \in {0, t[j]}
  BY <1>1, CompactType
<1>3. NoLease \in Lease /\ NoLease.status = "absent" /\ NoLease.id = 0
  BY DEF NoLease, Lease, LeaseStatus
<1>4. Tombstoned(st, k) =
        Decided(st, [st.leases EXCEPT ![k] = NoLease], T, st.pending \ {k})
  BY DEF Tombstoned, T, t
<1> HIDE DEF T
<1> QED BY <1>1, <1>2, <1>3, <1>4, DecidedEvolves DEF Evolves

(* A document that differs in its epoch, policy and fences alone. *)
LEMMA SameLeasesEvolve ==
  ASSUME NEW st \in Durable, Numbered(st), NEW nx,
         nx.seq = st.seq, nx.leases = st.leases, nx.tombstones = st.tombstones,
         st.epoch <= nx.epoch, st.generation <= nx.generation
  PROVE  Evolves(st, nx)
<1>1. Later(st, st) /\ NoNewGrant(st, st)  BY LaterReflexive
<1> QED BY <1>1 DEF Evolves, Numbered, Later, NoNewGrant, Live, Provisionals

-----------------------------------------------------------------------------
(* The operations of the coordinator.                                      *)

Ordered == Numbered(state) /\ Numbered(disk) /\ Later(state, disk)

(* What a step keeps, apart from the grants it makes. *)
Forward == Ordered' /\ Later(state, state')

Fits == TotalHeld(state'.leases) <= state'.policy.total

(* A call that sweeps and then leaves memory and document at the swept     *)
(* state or at the state it decided on, memory never ahead of the document.*)
LEMMA SweptForward ==
  ASSUME Inv, Ordered, up, NEW st \in Discard(state, Expired),
         NEW next, Sound(next), Numbered(next), Later(st, next),
         \/ state' = next /\ disk' = next
         \/ state' = st /\ disk' \in {SweptDisk(st), st, next}
  PROVE  /\ Forward
         /\ state' = st \/ NoNewGrant(st, next) => NoNewGrant(state, state')
<1>1. Expired \in SUBSET Provisionals(state)  BY DEF Expired
<1>2. Sound(st)  BY SweepOK
<1>3. Numbered(st) /\ Later(state, st) /\ NoNewGrant(state, st)
  BY <1>1, DiscardEvolves DEF Inv, Ordered
<1>4. state \in Durable /\ st \in Durable /\ next \in Durable /\ disk \in Durable
  BY <1>2 DEF Sound, Inv
<1>5. Later(st, st) /\ Later(next, next)  BY <1>4, LaterReflexive
<1>6. Later(state, next)  BY <1>3, <1>4, LaterTransitive
<1>7. Numbered(SweptDisk(st)) /\ Later(st, SweptDisk(st))
  <2>1. CASE Expired = {}
    <3>1. st = state  BY <2>1 DEF Discard
    <3> QED BY <2>1, <3>1 DEF SweptDisk, Ordered
  <2>2. CASE Expired # {}  BY <1>3, <1>5, <2>2 DEF SweptDisk
  <2> QED BY <2>1, <2>2
<1>8. Numbered(state') /\ Numbered(disk') /\ Later(state', disk') /\ Later(state, state')
  BY <1>3, <1>5, <1>6, <1>7
<1>9. state' = st \/ NoNewGrant(st, next) => NoNewGrant(state, state')
  BY <1>3, NoNewGrantTransitive
<1> QED BY <1>8, <1>9 DEF Forward, Ordered

(* A sweep that could not be saved. *)
LEMMA SweepFailsForward ==
  ASSUME Inv, Ordered, up, NEW st \in Discard(state, Expired), NEW R \in SUBSET {state},
         SweepFails(st, R)
  PROVE  Forward /\ NoNewGrant(state, state')
<1>1. Expired \in SUBSET Provisionals(state)  BY DEF Expired
<1>2. Numbered(st) /\ Later(state, st)  BY <1>1, DiscardEvolves DEF Inv, Ordered
<1>3. Later(state, state) /\ NoNewGrant(state, state)  BY LaterReflexive DEF Inv, Sound
<1>4. state' = state /\ disk' \in {disk, st, state}  BY DEF SweepFails
<1>5. Numbered(disk') /\ Later(state, disk')  BY <1>2, <1>3, <1>4 DEF Ordered
<1> QED BY <1>3, <1>4, <1>5 DEF Forward, Ordered

(* A call that decides nothing. *)
LEMMA AnswerForward ==
  ASSUME Inv, Ordered, up, NEW st \in Discard(state, Expired),
         state' = st, disk' \in {SweptDisk(st), st}
  PROVE  Forward /\ NoNewGrant(state, state')
<1>1. Expired \in SUBSET Provisionals(state)  BY DEF Expired
<1>2. Sound(st) /\ Numbered(st)  BY <1>1, SweepOK, DiscardEvolves DEF Inv, Ordered
<1>3. Later(st, st)  BY <1>2, LaterReflexive DEF Sound
<1> QED BY <1>2, <1>3, SweptForward

(* A lease decision that grants nothing. *)
LEMMA DecideForward ==
  ASSUME Inv, Ordered, up, NEW st \in Discard(state, Expired), NEW next, Sound(next),
         Evolves(st, next), NEW k, NEW ttl, Decide(st, next, k, ttl)
  PROVE  Forward /\ NoNewGrant(state, state')
<1>1. \/ state' = next /\ disk' = next
      \/ state' = st /\ disk' \in {SweptDisk(st), st, next}
  BY DEF Decide, Saved, SaveFails
<1> QED BY <1>1, SweptForward DEF Evolves

(* Held units after a lease of n units has been put in slot k. *)
LEMMA HeldRaised ==
  ASSUME NEW leases \in [Keys -> Lease], NEW k \in Keys, NEW lease \in Lease
  PROVE  TotalHeld([leases EXCEPT ![k] = lease]) <= TotalHeld(leases) + lease.units
<1> DEFINE f == [j \in Keys |-> leases[j].units]
           L == [leases EXCEPT ![k] = lease]
<1>1. f \in [Keys -> Int] /\ lease.units \in Nat  BY DEF Lease
<1>2. [j \in Keys |-> L[j].units] = [f EXCEPT ![k] = lease.units]  OBVIOUS
<1>3. TotalHeld(leases) = Total(f)  BY DEF TotalHeld, UnitsOn
<1>4. TotalHeld(L) = Total([j \in Keys |-> L[j].units])  BY DEF TotalHeld, UnitsOn
<1> HIDE DEF f, L
<1>5. Total([f EXCEPT ![k] = lease.units]) <= Total(f) + lease.units
  BY <1>1, KeysFinite, TotalRaised
<1>6. TotalHeld(L) <= TotalHeld(leases) + lease.units  BY <1>2, <1>3, <1>4, <1>5
<1> QED BY <1>6 DEF L

(* What is held is a number. *)
LEMMA HeldTyped ==
  ASSUME NEW leases \in [Keys -> Lease]
  PROVE  TotalHeld(leases) \in Nat
<1> DEFINE f == [j \in Keys |-> leases[j].units]
<1>1. f \in [Keys -> Int]  BY DEF Lease
<1>2. TotalHeld(leases) = Total(f)  BY DEF TotalHeld, UnitsOn
<1> HIDE DEF f
<1> QED BY <1>1, <1>2, KeysFinite, TotalFinite

(* Both kinds of grant leave the requester's cost free. *)
LEMMA GrantHasRoom ==
  ASSUME NEW policy, NEW leases, NEW d, NEW r, NEW p,
         policy.total - TotalHeld(leases) \in Int, policy.cost[p] \in Int,
         EvaluateAcquire(policy, leases, d, r, p) \in Granting
  PROVE  policy.total - TotalHeld(leases) >= policy.cost[p]
  BY DEF EvaluateAcquire, Granting

(* A grant, if saved, leaves the host within its budget. *)
LEMMA AcquireForward ==
  ASSUME Inv, Ordered, NEW p \in Profiles, NEW s \in Slots, NEW n \in Nat, Acquire(p, s, n)
  PROVE  Forward /\ (NoNewGrant(state, state') \/ Fits)
<1> DEFINE k == <<p, s>>
<1>1. up /\ k \in Keys /\ k[1] = p  BY DEF Acquire, Keys
<1>2. PICK st \in Discard(state, Expired) :
        \/ SweepFails(st, {state})
        \/ \E d : Answer(st, d)
        \/ /\ ~Barred(st, p, s)
           /\ EvaluateAcquire(st.policy, st.leases, Asking(p, n), rotation, p) \in Granting
           /\ Saved(Granted(st, k)) \/ SaveFails(st, Granted(st, k), Asking(p, n))
  BY DEF Acquire, AcquireFrom
<1>3. Expired \in SUBSET Provisionals(state)  BY DEF Expired
<1>4. Sound(st) /\ Numbered(st)  BY <1>1, <1>3, SweepOK, DiscardEvolves DEF Inv, Ordered
<1>5. CASE SweepFails(st, {state})  BY <1>1, <1>5, SweepFailsForward
<1>6. CASE \E d : Answer(st, d)  BY <1>1, <1>6, AnswerForward DEF Answer
<1>7. CASE /\ ~Barred(st, p, s)
           /\ EvaluateAcquire(st.policy, st.leases, Asking(p, n), rotation, p) \in Granting
           /\ Saved(Granted(st, k)) \/ SaveFails(st, Granted(st, k), Asking(p, n))
  <2>1. p \in st.policy.profiles /\ ~Live(st, k)  BY <1>7 DEF Barred
  <2>2. /\ Sound(Granted(st, k)) /\ Numbered(Granted(st, k))
        /\ Later(st, Granted(st, k))
    BY <1>1, <1>4, <2>1, GrantedSound, GrantedEvolves
  <2>3. \/ state' = Granted(st, k) /\ disk' = Granted(st, k)
        \/ state' = st /\ disk' \in {SweptDisk(st), st, Granted(st, k)}
    BY <1>7 DEF Saved, SaveFails
  <2>4. Forward /\ (state' = st => NoNewGrant(state, state'))
    BY <1>1, <2>2, <2>3, SweptForward
  <2>5. ASSUME state' = Granted(st, k) PROVE Fits
    <3> DEFINE lease == NewLease(st, k, "provisional")
    <3>1. st \in Durable /\ st.policy \in Policy /\ st.leases \in [Keys -> Lease]
      BY <1>4, PolicyTyped DEF Sound, Durable
    <3>2. lease \in Lease /\ lease.units = st.policy.cost[p]
      BY <1>1, <1>4, <2>1, NewLeaseTyped DEF NewLease, LeaseStatus
    <3>3. Granted(st, k).leases = [st.leases EXCEPT ![k] = lease]
          /\ Granted(st, k).policy = st.policy
      BY <3>1 DEF Granted, Decided, Durable
    <3> HIDE DEF lease
    <3>4. TotalHeld(state'.leases) <= TotalHeld(st.leases) + lease.units
      BY <1>1, <2>5, <3>1, <3>2, <3>3, HeldRaised
    <3>5. /\ TotalHeld(st.leases) \in Nat /\ lease.units \in Nat /\ st.policy.total \in Int
          /\ TotalHeld(state'.leases) \in Nat
      <4>1. state'.leases \in [Keys -> Lease]  BY <2>2, <2>5 DEF Sound, Durable
      <4> QED BY <3>1, <3>2, <4>1, HeldTyped DEF Lease, Policy
    <3>6. st.policy.total - TotalHeld(st.leases) >= lease.units
      BY <1>7, <3>2, <3>5, GrantHasRoom
    <3> QED BY <2>5, <3>3, <3>4, <3>5, <3>6 DEF Fits
  <2> QED BY <2>3, <2>4, <2>5
<1> QED BY <1>2, <1>5, <1>6, <1>7

(* The lease decisions other than Acquire move forward and grant nothing. *)
LEMMA DecisionForward ==
  ASSUME Inv, Ordered, NEW p \in Profiles, NEW s \in Slots,
         Adopt(p, s) \/ Renew(p, s) \/ Activate(p, s) \/ Release(p, s)
  PROVE  Forward /\ NoNewGrant(state, state')
<1> DEFINE k == <<p, s>>
<1>1. up /\ k \in Keys /\ k[1] = p  BY DEF Adopt, Renew, Activate, Release, Keys
<1>2. PICK st \in Discard(state, Expired) :
        \/ SweepFails(st, {state})
        \/ Answer(st, SweptDemand)
        \/ Decide(st, Accounted(st, k), k, SweptDeadline[k])
        \/ p \in st.policy.profiles /\ Decide(st, Adopted(st, k), k, Untracked)
        \/ k \in Provisionals(st) /\ Decide(st, Renewed(st), k, LeaseTTL)
        \/ k \in Provisionals(st) /\ Decide(st, Activated(st, k), k, Untracked)
        \/ Decide(st, Tombstoned(st, k), k, Untracked)
  BY DEF Adopt, Renew, Activate, Release
<1> HIDE DEF k
<1>3. Expired \in SUBSET Provisionals(state)  BY DEF Expired
<1>4. Sound(st) /\ Numbered(st)  BY <1>1, <1>3, SweepOK, DiscardEvolves DEF Inv, Ordered
<1>5. CASE SweepFails(st, {state})  BY <1>1, <1>5, SweepFailsForward
<1>6. CASE Answer(st, SweptDemand)  BY <1>1, <1>6, AnswerForward DEF Answer
<1>7. CASE Decide(st, Accounted(st, k), k, SweptDeadline[k])
  BY <1>1, <1>4, <1>7, AccountedSound, AccountedEvolves, DecideForward
<1>8. CASE p \in st.policy.profiles /\ Decide(st, Adopted(st, k), k, Untracked)
  BY <1>1, <1>4, <1>8, AdoptedSound, AdoptedEvolves, DecideForward
<1>9. CASE k \in Provisionals(st) /\ Decide(st, Renewed(st), k, LeaseTTL)
  BY <1>1, <1>4, <1>9, RenewedSound, RenewedEvolves, DecideForward
<1>10. CASE k \in Provisionals(st) /\ Decide(st, Activated(st, k), k, Untracked)
  BY <1>1, <1>4, <1>10, ActivatedSound, ActivatedEvolves, DecideForward
<1>11. CASE Decide(st, Tombstoned(st, k), k, Untracked)
  BY <1>1, <1>4, <1>11, TombstonedSound, TombstonedEvolves, DecideForward
<1> QED BY <1>2, <1>5, <1>6, <1>7, <1>8, <1>9, <1>10, <1>11

(* Binding a registration moves forward and grants nothing. *)
LEMMA BindForward ==
  ASSUME Inv, Ordered, NEW p \in Profiles, NEW s \in Slots, NEW name \in Names,
         BindRegistration(p, s, name)
  PROVE  Forward /\ NoNewGrant(state, state')
<1> DEFINE k == <<p, s>>
<1>1. up /\ k \in Keys  BY DEF BindRegistration, Keys
<1>2. PICK st \in Discard(state, Expired) :
        \/ SweepFails(st, {})
        \/ state' = st /\ disk' = SweptDisk(st)
        \/ /\ Live(st, k)
           /\ \/ state' = Bound(st, k, name) /\ disk' = Bound(st, k, name)
              \/ state' = st /\ disk' \in {SweptDisk(st), Bound(st, k, name)}
  BY DEF BindRegistration, Saved
<1> HIDE DEF k
<1>3. Expired \in SUBSET Provisionals(state)  BY DEF Expired
<1>4. Sound(st) /\ Numbered(st)  BY <1>1, <1>3, SweepOK, DiscardEvolves DEF Inv, Ordered
<1>5. CASE SweepFails(st, {})  BY <1>1, <1>5, SweepFailsForward
<1>6. CASE state' = st /\ disk' = SweptDisk(st)  BY <1>1, <1>6, AnswerForward
<1>7. CASE /\ Live(st, k)
           /\ \/ state' = Bound(st, k, name) /\ disk' = Bound(st, k, name)
              \/ state' = st /\ disk' \in {SweptDisk(st), Bound(st, k, name)}
  <2>1. Sound(Bound(st, k, name)) /\ Evolves(st, Bound(st, k, name))
    BY <1>1, <1>4, <1>7, BoundSound, BoundEvolves
  <2> QED BY <1>1, <1>7, <2>1, SweptForward DEF Evolves
<1> QED BY <1>2, <1>5, <1>6, <1>7

(* Status only sweeps. *)
LEMMA StatusForward ==
  ASSUME Inv, Ordered, Status
  PROVE  Forward /\ NoNewGrant(state, state')
<1>1. PICK st \in Discard(state, Expired) :
        up /\ (SweepFails(st, {}) \/ (state' = st /\ disk' = SweptDisk(st)))
  BY DEF Status, StatusAnswered
<1> QED BY <1>1, SweepFailsForward, AnswerForward

(* An operation that neither sweeps nor touches a lease. *)
LEMMA PublishForward ==
  ASSUME Inv, Ordered, NEW next, Sound(next), Evolves(state, next),
         Saved(next) \/ (disk' = next /\ UNCHANGED <<up, state>>)
  PROVE  Forward /\ NoNewGrant(state, state')
<1>1. /\ Later(state, state) /\ NoNewGrant(state, state)
      /\ Later(next, next)
  BY LaterReflexive DEF Inv, Sound
<1>2. \/ state' = next /\ disk' = next
      \/ state' = state /\ disk' = next
  BY DEF Saved
<1>3. Numbered(state') /\ Numbered(disk') /\ Later(state', disk') /\ Later(state, state')
  BY <1>1, <1>2 DEF Evolves, Ordered
<1>4. NoNewGrant(state, state')  BY <1>1, <1>2 DEF Evolves
<1> QED BY <1>3, <1>4 DEF Forward, Ordered

(* Fences and policy changes move the epoch and the generation forward. *)
LEMMA GovernForward ==
  ASSUME Inv, Ordered,
         \/ \E p \in Profiles : BeginAdoption(p) \/ CompleteAdoption(p)
         \/ \E g \in Nat, policy \in Publications : ApplyPolicy(g, policy)
  PROVE  Forward /\ NoNewGrant(state, state')
<1>1. state \in Durable /\ Sound(state) /\ Numbered(state)  BY DEF Inv, Sound, Ordered
<1>2. state.epoch \in Nat /\ state.generation \in Nat  BY <1>1 DEF Durable
<1>3. ASSUME NEW p \in Profiles, BeginAdoption(p)
      PROVE  Forward /\ NoNewGrant(state, state')
  <2>1. Sound(Fenced(state, p))  BY <1>1, <1>3, FencedSound DEF BeginAdoption
  <2>2. Evolves(state, Fenced(state, p))
    <3>1. /\ Fenced(state, p).seq = state.seq /\ Fenced(state, p).leases = state.leases
          /\ Fenced(state, p).tombstones = state.tombstones
          /\ Fenced(state, p).epoch = state.epoch + 1
          /\ Fenced(state, p).generation = state.generation
      BY <1>1 DEF Fenced, Durable
    <3> QED BY <1>1, <1>2, <3>1, SameLeasesEvolve
  <2> QED BY <1>3, <2>1, <2>2, PublishForward DEF BeginAdoption, Publish
<1>4. ASSUME NEW p \in Profiles, CompleteAdoption(p)
      PROVE  Forward /\ NoNewGrant(state, state')
  <2>1. Sound(Unfenced(state, p))  BY <1>1, <1>4, UnfencedSound DEF CompleteAdoption
  <2>2. Evolves(state, Unfenced(state, p))
    <3>1. /\ Unfenced(state, p).seq = state.seq /\ Unfenced(state, p).leases = state.leases
          /\ Unfenced(state, p).tombstones = state.tombstones
          /\ Unfenced(state, p).epoch = state.epoch + 1
          /\ Unfenced(state, p).generation = state.generation
      BY <1>1 DEF Unfenced, Durable
    <3> QED BY <1>1, <1>2, <3>1, SameLeasesEvolve
  <2> QED BY <1>4, <2>1, <2>2, PublishForward DEF CompleteAdoption, Publish
<1>5. ASSUME NEW g \in Nat, NEW policy \in Publications, ApplyPolicy(g, policy)
      PROVE  Forward /\ NoNewGrant(state, state')
  <2> DEFINE next == Governed(state, g, policy)
  <2>1. Sound(next)  BY <1>1, <1>5, GovernedSound DEF ApplyPolicy
  <2>2. Evolves(state, next)
    <3>1. /\ next.seq = state.seq /\ next.leases = state.leases
          /\ next.tombstones = state.tombstones
          /\ next.epoch = state.epoch + 1 /\ next.generation = g
      BY <1>1 DEF Governed, Durable
    <3>2. g > state.generation  BY <1>5 DEF ApplyPolicy
    <3> QED BY <1>1, <1>2, <3>1, <3>2, SameLeasesEvolve
  <2>3. Saved(next) \/ (disk' = next /\ UNCHANGED <<up, state>>)
    BY <1>5 DEF ApplyPolicy
  <2> QED BY <2>1, <2>2, <2>3, PublishForward
<1> QED BY <1>3, <1>4, <1>5

(* A restart resumes from the document, which memory never ran ahead of. *)
LEMMA OpenForward ==
  ASSUME Inv, Ordered, Open
  PROVE  Forward /\ NoNewGrant(state, state')
<1>1. PICK st \in Discard(disk, Provisionals(disk)) :
        disk' = st /\ (state' = st \/ state' = state)
  BY DEF Open
<1>2. Sound(st)  BY DiscardSound DEF Inv
<1>3. Numbered(st) /\ Later(disk, st)  BY DiscardEvolves DEF Inv, Ordered
<1>4. state \in Durable /\ disk \in Durable /\ st \in Durable  BY <1>2 DEF Inv, Sound
<1>5. Later(state, st)  BY <1>3, <1>4, LaterTransitive DEF Ordered
<1>6. Later(st, st) /\ Later(state, state) /\ NoNewGrant(state, state)
  BY <1>4, LaterReflexive
<1>7. NoNewGrant(state, st)
  <2>1. st.leases = [k \in Keys |-> IF k \in Provisionals(disk) THEN NoLease
                                    ELSE disk.leases[k]]
    BY <1>4, DiscardType DEF Provisionals
  <2>2. Provisionals(st) = {}  BY <2>1 DEF Provisionals, NoLease
  <2> QED BY <2>2 DEF NoNewGrant
<1>8. Numbered(state') /\ Numbered(disk') /\ Later(state', disk') /\ Later(state, state')
  BY <1>1, <1>3, <1>5, <1>6 DEF Ordered
<1>9. NoNewGrant(state, state')  BY <1>1, <1>6, <1>7
<1> QED BY <1>8, <1>9 DEF Forward, Ordered

(* Steps that change neither memory nor document. *)
LEMMA IdleForward ==
  ASSUME Inv, Ordered, UNCHANGED <<state, disk>>
  PROVE  Forward /\ NoNewGrant(state, state')
  BY LaterReflexive DEF Inv, Sound, Forward, Ordered

-----------------------------------------------------------------------------
(* The theorems.                                                           *)

(* One step of the coordinator, whatever it is. *)
LEMMA NextForward ==
  ASSUME Inv, Ordered, [Next]_vars
  PROVE  Forward /\ (NoNewGrant(state, state') \/ Fits)
<1>1. \A n : n \in 0..MaxPending => n \in Nat  BY BoundsAssumption
<1>2. ASSUME NEW p \in Profiles, NEW s \in Slots, Call(p, s)
      PROVE  Forward /\ (NoNewGrant(state, state') \/ Fits)
  BY <1>1, <1>2, AcquireForward, DecisionForward, BindForward DEF Call, Reconcile
<1>3. ASSUME NEW p \in Profiles, ProfileCall(p)
      PROVE  Forward /\ NoNewGrant(state, state')
  BY <1>3, GovernForward, IdleForward DEF ProfileCall, SetDemand
<1>4. ASSUME NEW g \in 0..MaxGeneration, NEW policy \in Publications, ApplyPolicy(g, policy)
      PROVE  Forward /\ NoNewGrant(state, state')
  <2>1. g \in Nat  BY BoundsAssumption
  <2> QED BY <1>4, <2>1, GovernForward
<1>5. CASE Tick \/ Crash \/ UNCHANGED vars  BY <1>5, IdleForward DEF Tick, Crash, vars
<1> QED BY <1>2, <1>3, <1>4, <1>5, StatusForward, OpenForward DEF Next, Serve

(* A fresh coordinator is ordered. *)
LEMMA InitOrdered == Init => Ordered
<1> SUFFICES ASSUME Init PROVE Ordered  OBVIOUS
<1>1. state = NewDurable /\ disk = NewDurable  BY DEF Init
<1>2. Numbered(NewDurable)  BY DEF Numbered, NewDurable, Live, NoLease
<1>3. Later(NewDurable, NewDurable)  BY NewSound, LaterReflexive DEF Sound
<1> QED BY <1>1, <1>2, <1>3 DEF Ordered

(* Memory and document are numbered, and the document follows memory. *)
THEOREM OrderInvariance == Spec => []Ordered
<1>1. Inv /\ Ordered /\ [Next]_vars => Ordered'  BY NextForward DEF Forward
<1> QED BY InitOrdered, Invariance, <1>1, PTL DEF Spec

(* Whatever saves failed, no sequence, epoch or generation on disk runs behind *)
(* what the coordinator acknowledged, and no identifier or tombstone number is *)
(* shared.                                                                     *)
THEOREM SequencesAlwaysDurable == Spec => []SequencesDurable
<1>1. Ordered => SequencesDurable  BY DEF Ordered, SequencesDurable, Later
<1> QED BY OrderInvariance, <1>1, PTL

(* No call, failed save, crash or restart moves sequence, epoch or policy   *)
(* generation backward or reuses a lease identifier.                        *)
THEOREM CoordinatorNeverBackward == Spec => NeverBackward
<1> DEFINE Step == /\ state'.seq >= state.seq
                   /\ state'.epoch >= state.epoch
                   /\ state'.generation >= state.generation
                   /\ \A k \in Keys : state'.leases[k].id \notin {0, state.leases[k].id}
                                        => state'.leases[k].id > state.seq
<1>1. Inv /\ Inv' /\ Ordered /\ [Next]_vars => [Step]_vars
  <2> SUFFICES ASSUME Inv, Inv', Ordered, [Next]_vars PROVE Step  OBVIOUS
  <2>1. Later(state, state')  BY NextForward DEF Forward
  <2>2. /\ state.seq \in Nat /\ state'.seq \in Nat /\ state.epoch \in Nat
        /\ state'.epoch \in Nat /\ state.generation \in Nat /\ state'.generation \in Nat
    BY DEF Inv, Sound, Durable
  <2> QED BY <2>1, <2>2 DEF Later
<1>2. Spec => [][Step]_vars  BY Invariance, OrderInvariance, <1>1, PTL DEF Spec
<1> QED BY <1>2 DEF NeverBackward

(* A step that grants a lease leaves the units of all leases, those of dropped *)
(* profiles included, within the total of the policy in force.                 *)
THEOREM CoordinatorGrantsFitBudget == Spec => GrantsFitBudget
<1> DEFINE Step == NewGrants # {} => TotalHeld(state'.leases) <= state'.policy.total
<1>1. Inv /\ Ordered /\ [Next]_vars => [Step]_vars
  <2> SUFFICES ASSUME Inv, Ordered, [Next]_vars PROVE Step  OBVIOUS
  <2>1. NoNewGrant(state, state') \/ Fits  BY NextForward
  <2> QED BY <2>1 DEF NoNewGrant, Fits, NewGrants
<1>2. Spec => [][Step]_vars  BY Invariance, OrderInvariance, <1>1, PTL DEF Spec
<1> QED BY <1>2 DEF GrantsFitBudget

=============================================================================
