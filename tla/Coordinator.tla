----------------------------- MODULE Coordinator -----------------------------
(***************************************************************************)
(* The host admission coordinator (manager/admission/coordinator.go) with  *)
(* its durable document (manager/admission/state.go).                      *)
(*                                                                         *)
(* Every exported method runs under one mutex, so one method call is one   *)
(* step, from the first sweep to the deferred recording of the decision.   *)
(* Managers, the CLI and retries of ambiguous calls may invoke any method  *)
(* at any time with any arguments, and the specification lets them.        *)
(*                                                                         *)
(* state is the coordinator's c.state, disk is the document a restart      *)
(* would read.  A save may succeed, fail with the document untouched, or   *)
(* fail after the rename (the directory sync), leaving the new document in *)
(* place although the caller is told of an error.  A process that dies     *)
(* between two saves of one call leaves a document that some combination   *)
(* of those failures followed by Crash also leaves.                        *)
(*                                                                         *)
(* Deadlines count the ticks that remain; Untracked means no map entry.    *)
(* LastDecision is informational and not kept, but the save that records   *)
(* it is: it rewrites the document from memory.                            *)
(***************************************************************************)
EXTENDS HostBudget, Functions

CONSTANTS
  Names,          \* registration names a manager may bind
  Publications,   \* policies Setup may publish
  LeaseTTL,       \* ticks a provisional lease lives without renewal
  DemandTTL,      \* ticks published demand lives without a refresh
  MaxTombstones,  \* the tombstone ledger's bound
  MaxPending,     \* bound: largest demand published
  MaxGeneration,  \* bound: largest policy generation published
  MaxSequence,    \* bound: no lease is granted or renewed from here on
  MaxEpoch        \* bound: no adoption begins or completes from here on

ASSUME TTLAssumption == LeaseTTL \in Nat \ {0} /\ DemandTTL \in Nat \ {0}
ASSUME TombstonesAssumption == MaxTombstones \in Nat \ {0}
ASSUME BoundsAssumption == /\ MaxPending \in Nat /\ MaxGeneration \in Nat
                           /\ MaxSequence \in Nat /\ MaxEpoch \in Nat
ASSUME PublicationsAssumption == Publications \subseteq Policy
ASSUME NamesAssumption == NoName \notin Names

VARIABLES up, state, disk, demand, deadline, rotation

vars == <<up, state, disk, demand, deadline, rotation>>

Untracked == -1

RotationSeedModulus == 1000000007

Lease == [status : LeaseStatus, units : Nat, id : Nat, name : Names \cup {NoName}]

(* tombstones[k] is the sequence the tombstone was recorded at, 0 for none. *)
(* An adoption fence is a member of fenced, with its pending lease keys in  *)
(* pending.                                                                 *)
Durable == [epoch      : Nat,
            seq        : Nat,
            generation : Nat,
            policy     : Publications \cup {NoPolicy},
            leases     : [Keys -> Lease],
            tombstones : [Keys -> Nat],
            fenced     : SUBSET Profiles,
            pending    : SUBSET Keys]

NewDurable == [epoch      |-> 0,
               seq        |-> 0,
               generation |-> 0,
               policy     |-> NoPolicy,
               leases     |-> [k \in Keys |-> NoLease],
               tombstones |-> [k \in Keys |-> 0],
               fenced     |-> {},
               pending    |-> {}]

Demand == [pending : Nat, known : BOOLEAN, ttl : -1..DemandTTL]

NoDemand == [pending |-> 0, known |-> FALSE, ttl |-> Untracked]

SatisfiedDemand == [pending |-> 0, known |-> TRUE, ttl |-> Untracked]

TypeOK ==
  /\ up \in BOOLEAN
  /\ state \in Durable
  /\ disk \in Durable
  /\ demand \in [Profiles -> Demand]
  /\ deadline \in [Keys -> -1..LeaseTTL]
  /\ rotation \in Nat

-----------------------------------------------------------------------------
(* The durable document.                                                    *)

Live(st, k) == st.leases[k].status # "absent"

Provisionals(st) == {k \in Keys : st.leases[k].status = "provisional"}

ActiveKeys(st, p) == {k \in {p} \X Slots : st.leases[k].status = "active"}

(* durableState.validate: the documents Open accepts. *)
Valid(st) ==
  /\ st.generation > 0 => ValidPolicy(st.generation, st.policy)
  /\ \A k \in Keys : Live(st, k) => st.leases[k].units >= 1
  /\ st.fenced \subseteq st.policy.profiles
  /\ \A k \in st.pending : k[1] \in st.fenced /\ st.leases[k].status = "active"
  /\ \A k \in Keys : Live(st, k) => st.tombstones[k] = 0

(* Keep the MaxTombstones newest tombstones. *)
CompactTombstones(tombstones) ==
  [k \in Keys |->
     IF Cardinality({j \in Keys : tombstones[j] > tombstones[k]}) < MaxTombstones
     THEN tombstones[k] ELSE 0]

(* The documents in which the leases X are gone and each left a tombstone.  *)
(* Go visits the lease map in any order, so the sequence numbers the leases *)
(* of X are tombstoned at come in any order.                                *)
Discard(st, X) ==
  IF X = {} THEN {st} ELSE
  {[st EXCEPT
      !.seq = @ + Cardinality(X),
      !.leases = [k \in Keys |-> IF k \in X THEN NoLease ELSE @[k]],
      !.tombstones = CompactTombstones(
          [k \in Keys |-> IF k \in X THEN st.seq + order[k] ELSE @[k]])]
     : order \in Bijection(X, 1..Cardinality(X))}

(* What a decision saves: it takes the next sequence number and replaces    *)
(* these parts of the document.                                             *)
Decided(st, leases, tombstones, pending) ==
  [st EXCEPT !.seq = @ + 1,
             !.leases = leases,
             !.tombstones = tombstones,
             !.pending = pending]

NewLease(st, k, status) ==
  [status |-> status, units |-> st.policy.cost[k[1]], id |-> st.seq + 1, name |-> NoName]

Granted(st, k) ==
  Decided(st, [st.leases EXCEPT ![k] = NewLease(st, k, "provisional")],
              [st.tombstones EXCEPT ![k] = 0], st.pending)

(* Adopt's two new leases: a promoted provisional or a lease made for a     *)
(* worker that is already running, whatever the budget says.                *)
AdoptedLease(st, k) ==
  IF Live(st, k) THEN [st.leases[k] EXCEPT !.status = "active"]
                 ELSE NewLease(st, k, "active")

Adopted(st, k) ==
  Decided(st, [st.leases EXCEPT ![k] = AdoptedLease(st, k)],
              [st.tombstones EXCEPT ![k] = 0], st.pending \ {k})

(* An active lease that is adopted again is only struck off the fence. *)
Accounted(st, k) == [st EXCEPT !.pending = @ \ {k}]

Activated(st, k) ==
  Decided(st, [st.leases EXCEPT ![k] = [@ EXCEPT !.status = "active"]],
              st.tombstones, st.pending)

(* Only the deadline, which is not durable, tells a renewed lease apart. *)
Renewed(st) == Decided(st, st.leases, st.tombstones, st.pending)

Bound(st, k, name) ==
  Decided(st, [st.leases EXCEPT ![k] = [@ EXCEPT !.name = name]],
              st.tombstones, st.pending)

(* Wrong: the fence keeps waiting for the lease that is gone. *)
TombstonedStillPending(st, k) ==
  Decided(st, [st.leases EXCEPT ![k] = NoLease],
              CompactTombstones([st.tombstones EXCEPT ![k] = st.seq + 1]),
              st.pending)

Tombstoned(st, k) ==
  Decided(st, [st.leases EXCEPT ![k] = NoLease],
              CompactTombstones([st.tombstones EXCEPT ![k] = st.seq + 1]),
              st.pending \ {k})

Fenced(st, p) ==
  [st EXCEPT !.epoch = @ + 1,
             !.fenced = @ \cup {p},
             !.pending = @ \cup ActiveKeys(st, p)]

Unfenced(st, p) == [st EXCEPT !.epoch = @ + 1, !.fenced = @ \ {p}]

(* Wrong: a policy change revokes the leases of profiles it drops. *)
GovernedRevoking(st, generation, policy) ==
  [st EXCEPT !.epoch = @ + 1,
             !.generation = generation,
             !.policy = policy,
             !.leases = [k \in Keys |-> IF k[1] \in policy.profiles THEN @[k] ELSE NoLease],
             !.fenced = @ \cap policy.profiles,
             !.pending = {k \in @ : k[1] \in policy.profiles}]

Governed(st, generation, policy) ==
  [st EXCEPT !.epoch = @ + 1,
             !.generation = generation,
             !.policy = policy,
             !.fenced = @ \cap policy.profiles,
             !.pending = {k \in @ : k[1] \in policy.profiles}]

-----------------------------------------------------------------------------
(* The sweep that opens most calls, and the saves.                          *)

(* Wrong: the sweep misses a lease whose time is just up. *)
ExpiredLate == {k \in Provisionals(state) : deadline[k] < 0}

Expired == {k \in Provisionals(state) : deadline[k] <= 0}

Forget(d, P) == [p \in Profiles |-> IF p \in P THEN NoDemand ELSE d[p]]

SweptDemand == Forget(demand, {k[1] : k \in Expired})

SweptDeadline == [k \in Keys |-> IF k \in Expired THEN Untracked ELSE deadline[k]]

(* Wrong: demand is never forgotten. *)
DemandKept(d) == d

ExpireStaleDemand(d) == Forget(d, {p \in Profiles : d[p].ttl = 0})

(* The document on disk once the sweep that leads to st has been saved. *)
SweptDisk(st) == IF Expired = {} THEN disk ELSE st

(* The sweep could not be saved: the call fails before it does anything.    *)
(* A lease decision still tries to record itself, which rewrites the        *)
(* document from memory.                                                    *)
SweepFails(st, rewritten) ==
  /\ Expired # {}
  /\ disk' \in {disk, st} \cup rewritten
  /\ UNCHANGED <<up, state, demand, deadline, rotation>>

(* The call changes no lease beyond the sweep; its decision is recorded, or *)
(* that last save fails silently.                                           *)
Answer(st, d) ==
  /\ state' = st
  /\ disk' \in {SweptDisk(st), st}
  /\ demand' = d
  /\ deadline' = SweptDeadline
  /\ UNCHANGED <<up, rotation>>

(* Wrong: memory is updated before the save and not put back. *)
SaveFailsMemoryFirst(st, next, d) ==
  /\ state' = next
  /\ disk' \in {SweptDisk(st), next, st}
  /\ demand' = d
  /\ deadline' = SweptDeadline
  /\ UNCHANGED <<up, rotation>>

(* The call's own save fails, before or after the rename; recording the     *)
(* denial may then put the old document back.                               *)
SaveFails(st, next, d) ==
  /\ state' = st
  /\ disk' \in {SweptDisk(st), next, st}
  /\ demand' = d
  /\ deadline' = SweptDeadline
  /\ UNCHANGED <<up, rotation>>

Saved(next) ==
  /\ state' = next
  /\ disk' = next
  /\ UNCHANGED up

(* A lease decision that ends in one save of next and sets k's deadline.    *)
Decide(st, next, k, ttl) ==
  \/ /\ Saved(next)
     /\ demand' = SweptDemand
     /\ deadline' = [SweptDeadline EXCEPT ![k] = ttl]
     /\ UNCHANGED rotation
  \/ SaveFails(st, next, SweptDemand)

-----------------------------------------------------------------------------
(* Acquire.                                                                 *)

Asking(p, n) ==
  [ExpireStaleDemand(SweptDemand) EXCEPT
     ![p] = [pending |-> Larger(n, 1), known |-> TRUE, ttl |-> DemandTTL]]

(* The early returns of Acquire, which leave demand alone. *)
Barred(st, p, s) ==
  \/ st.fenced # {}
  \/ Live(st, <<p, s>>)
  \/ p \notin st.policy.profiles

AdvancedRotation(verdict, policy, d) ==
  IF verdict = "fair"
  THEN (rotation + 1) % Cardinality(Contenders(policy, d))
  ELSE rotation

(* One worker of the demand has been met. *)
MetDemand(p, n) ==
  [Asking(p, n) EXCEPT
     ![p] = IF n <= 1 THEN SatisfiedDemand
            ELSE [pending |-> n - 1, known |-> TRUE, ttl |-> DemandTTL]]

AcquireFrom(st, p, s, n) ==
  LET verdict == EvaluateAcquire(st.policy, st.leases, Asking(p, n), rotation, p)
      next    == Granted(st, <<p, s>>)
  IN
  /\ ~Barred(st, p, s)
  /\ \/ /\ verdict \notin Granting
        /\ Answer(st, Asking(p, n))
     \/ /\ verdict \in Granting
        /\ Saved(next)
        /\ demand' = MetDemand(p, n)
        /\ deadline' = [SweptDeadline EXCEPT ![<<p, s>>] = LeaseTTL]
        /\ rotation' = AdvancedRotation(verdict, st.policy, Asking(p, n))
     \/ /\ verdict \in Granting
        /\ SaveFails(st, next, Asking(p, n))

Acquire(p, s, n) ==
  /\ up
  /\ state.seq < MaxSequence
  /\ \E st \in Discard(state, Expired) :
       \/ SweepFails(st, {state})
       \/ Barred(st, p, s) /\ Answer(st, ExpireStaleDemand(SweptDemand))
       \/ AcquireFrom(st, p, s, n)

-----------------------------------------------------------------------------
(* The other lease decisions.                                               *)

Adopt(p, s) ==
  LET k == <<p, s>> IN
  /\ up
  /\ state.seq < MaxSequence
  /\ \E st \in Discard(state, Expired) :
       \/ SweepFails(st, {state})
       \/ p \notin st.policy.profiles /\ Answer(st, SweptDemand)
       \/ /\ p \in st.policy.profiles
          /\ st.leases[k].status = "active"
          /\ IF k \in st.pending
             THEN Decide(st, Accounted(st, k), k, SweptDeadline[k])
             ELSE Answer(st, SweptDemand)
       \/ /\ p \in st.policy.profiles
          /\ st.leases[k].status # "active"
          /\ Decide(st, Adopted(st, k), k, Untracked)

Renew(p, s) ==
  LET k == <<p, s>> IN
  /\ up
  /\ state.seq < MaxSequence
  /\ \E st \in Discard(state, Expired) :
       \/ SweepFails(st, {state})
       \/ k \notin Provisionals(st) /\ Answer(st, SweptDemand)
       \/ k \in Provisionals(st) /\ Decide(st, Renewed(st), k, LeaseTTL)

Activate(p, s) ==
  LET k == <<p, s>> IN
  /\ up
  /\ \E st \in Discard(state, Expired) :
       \/ SweepFails(st, {state})
       \/ k \notin Provisionals(st) /\ Answer(st, SweptDemand)
       \/ k \in Provisionals(st) /\ Decide(st, Activated(st, k), k, Untracked)

Release(p, s) ==
  LET k == <<p, s>> IN
  /\ up
  /\ \E st \in Discard(state, Expired) :
       \/ SweepFails(st, {state})
       \/ ~Live(st, k) /\ Answer(st, SweptDemand)
       \/ Live(st, k) /\ Decide(st, Tombstoned(st, k), k, Untracked)

(* Reconcile is Release for a caller that presents acceptable evidence of   *)
(* the worker's absence; other evidence is rejected before the lock.        *)
Reconcile(p, s, acceptable) == acceptable /\ Release(p, s)

-----------------------------------------------------------------------------
(* Calls that are not lease decisions: nothing is recorded after them.      *)

(* Only an unbound live lease takes a name; the same name again is a no-op  *)
(* and another name is refused.                                             *)
BindRegistration(p, s, name) ==
  LET k == <<p, s>> IN
  /\ up
  /\ \E st \in Discard(state, Expired) :
       \/ SweepFails(st, {})
       \/ /\ ~Live(st, k) \/ st.leases[k].name # NoName
          /\ state' = st /\ disk' = SweptDisk(st)
          /\ demand' = SweptDemand /\ deadline' = SweptDeadline
          /\ UNCHANGED <<up, rotation>>
       \/ /\ Live(st, k) /\ st.leases[k].name = NoName
          /\ \/ Saved(Bound(st, k, name))
             \/ /\ state' = st
                /\ disk' \in {SweptDisk(st), Bound(st, k, name)}
                /\ UNCHANGED up
          /\ demand' = SweptDemand /\ deadline' = SweptDeadline
          /\ UNCHANGED rotation

StatusAnswered ==
  /\ up
  /\ \E st \in Discard(state, Expired) :
       /\ state' = st
       /\ disk' = SweptDisk(st)
       /\ demand' = ExpireStaleDemand(SweptDemand)
       /\ deadline' = SweptDeadline
       /\ UNCHANGED <<up, rotation>>

Status ==
  \/ StatusAnswered
  \/ up /\ \E st \in Discard(state, Expired) : SweepFails(st, {})

SetDemand(p, n) ==
  /\ up
  /\ p \in state.policy.profiles
  /\ demand' = [ExpireStaleDemand(demand) EXCEPT
                  ![p] = IF n = 0 THEN SatisfiedDemand
                         ELSE [pending |-> n, known |-> TRUE, ttl |-> DemandTTL]]
  /\ UNCHANGED <<up, state, disk, deadline, rotation>>

(* The one save of an operation that neither sweeps nor records. *)
Publish(next) ==
  \/ Saved(next)
  \/ disk' = next /\ UNCHANGED <<up, state>>

BeginAdoption(p) ==
  /\ up
  /\ state.epoch < MaxEpoch
  /\ p \in state.policy.profiles \ state.fenced
  /\ Publish(Fenced(state, p))
  /\ UNCHANGED <<demand, deadline, rotation>>

(* Wrong: a fence comes down while leases are still unaccounted for. *)
CompleteAdoptionEarly(p) ==
  /\ up
  /\ p \in state.fenced
  /\ Publish(Unfenced(state, p))
  /\ UNCHANGED <<demand, deadline, rotation>>

CompleteAdoption(p) ==
  /\ up
  /\ p \in state.fenced
  /\ \A k \in state.pending : k[1] # p
  /\ Publish(Unfenced(state, p))
  /\ UNCHANGED <<demand, deadline, rotation>>

(* Wrong: any valid generation is applied, older ones too. *)
ApplyAnyPolicy(generation, policy) ==
  LET next == Governed(state, generation, policy) IN
  /\ up
  /\ ValidPolicy(generation, policy)
  /\ \/ Saved(next) /\ demand' = [p \in Profiles |-> NoDemand]
     \/ disk' = next /\ UNCHANGED <<up, state, demand>>
  /\ UNCHANGED <<deadline, rotation>>

ApplyPolicy(generation, policy) ==
  LET next == Governed(state, generation, policy) IN
  /\ up
  /\ ValidPolicy(generation, policy)
  /\ generation > state.generation
  /\ \/ Saved(next) /\ demand' = [p \in Profiles |-> NoDemand]
     \/ disk' = next /\ UNCHANGED <<up, state, demand>>
  /\ UNCHANGED <<deadline, rotation>>

-----------------------------------------------------------------------------
(* Time, crashes and restarts.                                              *)

Countdown(n) == IF n > 0 THEN n - 1 ELSE n

Tick ==
  /\ up
  /\ deadline' = [k \in Keys |-> Countdown(deadline[k])]
  /\ demand' = [p \in Profiles |-> [demand[p] EXCEPT !.ttl = Countdown(@)]]
  /\ UNCHANGED <<up, state, disk, rotation>>

(* The process dies.  state keeps what it last acknowledged, so that the    *)
(* properties can compare it with what the next process restores.           *)
Crash ==
  /\ up
  /\ up' = FALSE
  /\ demand' = [p \in Profiles |-> NoDemand]
  /\ deadline' = [k \in Keys |-> Untracked]
  /\ rotation' = 0
  /\ UNCHANGED <<state, disk>>

Open ==
  /\ ~up
  /\ Valid(disk)
  /\ \E st \in Discard(disk, Provisionals(disk)) :
       \/ /\ up' = TRUE
          /\ state' = st
          /\ disk' = st
          /\ rotation' = st.seq % RotationSeedModulus
       \/ /\ Provisionals(disk) # {}
          /\ disk' = st
          /\ UNCHANGED <<up, state, rotation>>
  /\ UNCHANGED <<demand, deadline>>

Init ==
  /\ up = TRUE
  /\ state = NewDurable
  /\ disk = NewDurable
  /\ demand = [p \in Profiles |-> NoDemand]
  /\ deadline = [k \in Keys |-> Untracked]
  /\ rotation = 0

Call(p, s) ==
  \/ \E n \in 0..MaxPending : Acquire(p, s, n)
  \/ Adopt(p, s)
  \/ Renew(p, s)
  \/ Activate(p, s)
  \/ Release(p, s)
  \/ \E acceptable \in BOOLEAN : Reconcile(p, s, acceptable)
  \/ \E name \in Names : BindRegistration(p, s, name)

ProfileCall(p) ==
  \/ \E n \in 0..MaxPending : SetDemand(p, n)
  \/ BeginAdoption(p)
  \/ CompleteAdoption(p)

Serve ==
  \/ \E p \in Profiles, s \in Slots : Call(p, s)
  \/ \E p \in Profiles : ProfileCall(p)
  \/ \E g \in 0..MaxGeneration, policy \in Publications : ApplyPolicy(g, policy)
  \/ Status
  \/ Tick

Next == Serve \/ Crash \/ Open

Spec == Init /\ [][Next]_vars

(* Behaviours of one process that never restarts. *)
UninterruptedSpec == Init /\ [][Serve]_vars

(* Time passes, some manager keeps polling Status and is answered (a save   *)
(* that keeps failing is an operator's problem), and a container restart    *)
(* policy reopens a coordinator that died.                                  *)
FairSpec == Spec /\ WF_vars(Tick) /\ WF_vars(StatusAnswered) /\ WF_vars(Open)

-----------------------------------------------------------------------------
(* Properties.                                                              *)

(* Every document the coordinator may leave behind, saved in full or after  *)
(* a failed call, passes durableState.validate: Open never refuses it as    *)
(* corrupt.  So a fence only waits for leases that are active, only for     *)
(* profiles of the policy, and no slot has a lease and a tombstone at once. *)
DocumentValid == Valid(state) /\ Valid(disk)

(* While the coordinator serves, exactly the provisional leases have an     *)
(* in-process deadline: none is left to the fail-closed untracked case of   *)
(* sweepExpiredLocked, and no entry outlives its lease.                     *)
DeadlinesTracked ==
  up => \A k \in Keys : (deadline[k] # Untracked) <=> (k \in Provisionals(state))

(* Demand that weighs on other profiles always has a deadline that will end *)
(* it, and demand that ended leaves no deadline behind.                     *)
DemandTracked ==
  \A p \in Profiles : /\ (demand[p].pending > 0) <=> (demand[p].ttl # Untracked)
                      /\ demand[p].pending > 0 => demand[p].known

(* The sequences on disk and in memory never run behind what was handed     *)
(* out: lease identifiers and tombstones are numbered at or below the       *)
(* sequence, no two live leases or tombstones share a number, and the       *)
(* document is never older than the memory it backs.                        *)
Numbered(st) ==
  /\ \A k \in Keys : st.leases[k].id <= st.seq /\ st.tombstones[k] <= st.seq
  /\ \A j, k \in Keys : j # k /\ Live(st, j) /\ Live(st, k)
                          => st.leases[j].id # st.leases[k].id
  /\ \A j, k \in Keys : j # k /\ st.tombstones[j] # 0
                          => st.tombstones[j] # st.tombstones[k]

SequencesDurable ==
  /\ Numbered(state) /\ Numbered(disk)
  /\ state.seq <= disk.seq
  /\ state.epoch <= disk.epoch
  /\ state.generation <= disk.generation

(* An acknowledged active lease survives any crash: the document still has  *)
(* it, or a release of it reached the disk, whose tombstone is there unless *)
(* the ledger is full of newer ones.                                        *)
ActiveDurable ==
  \A k \in Keys : state.leases[k].status = "active" =>
    \/ disk.leases[k].status = "active" /\ disk.leases[k].id = state.leases[k].id
    \/ /\ ~Live(disk, k)
       /\ \/ disk.tombstones[k] > state.seq
          \/ Cardinality({j \in Keys : disk.tombstones[j] > state.seq}) >= MaxTombstones

(* Lease keys that gain a provisional lease in this step. *)
NewGrants == {k \in Provisionals(state') : state'.leases[k].id # state.leases[k].id}

(* Only adoption may take the host past its budget: a step that grants a    *)
(* lease leaves the sum of all held units, those of profiles no longer in   *)
(* the policy included, within the total units.                             *)
GrantsFitBudget ==
  [][NewGrants # {} => TotalHeld(state'.leases) <= state'.policy.total]_vars

(* The host has free every unit the non-borrowable reservations still miss. *)
ReservationsIntact(st) ==
  TotalHeld(st.leases) + Protected(st.policy, st.leases, Profiles) <= st.policy.total

(* A grant that is not drawn from the requester's own borrowable            *)
(* reservation never uses up units another profile's idle non-borrowable    *)
(* reservation counts on, sweeps of expired leases in the same call         *)
(* included.                                                                *)
GrantsKeepReservations ==
  [][\A k \in NewGrants :
        \/ k[1] \in state.policy.borrowable /\ state.policy.reserved[k[1]] > 0
        \/ ReservationsIntact(state) => ReservationsIntact(state')]_vars

(* The same without the exception, as the policy and the coordinator        *)
(* document it: a non-borrowable reservation stays protected headroom even  *)
(* while idle.  The coordinator does not keep to it: see the README.        *)
NonBorrowableStaysProtected ==
  [][NewGrants # {} /\ ReservationsIntact(state) => ReservationsIntact(state')]_vars

(* Across calls, failed saves and restarts, sequence, epoch and policy      *)
(* generation never go back, and a lease that appears has an identifier     *)
(* above every sequence acknowledged before, so no identifier is reused.    *)
NeverBackward ==
  [][/\ state'.seq >= state.seq
     /\ state'.epoch >= state.epoch
     /\ state'.generation >= state.generation
     /\ \A k \in Keys : state'.leases[k].id \notin {0, state.leases[k].id}
                          => state'.leases[k].id > state.seq]_vars

(* Time, demand expiry, policy changes and restarts never end an active     *)
(* lease: it leaves memory only together with a fresh tombstone.            *)
ActiveEndsByRelease ==
  [][\A k \in Keys :
       /\ state.leases[k].status = "active"
       /\ state'.leases[k].id # state.leases[k].id
       => \/ state'.tombstones[k] > state.seq
          \/ Cardinality({j \in Keys : state'.tombstones[j] > state.seq})
               >= MaxTombstones]_vars

-----------------------------------------------------------------------------
(* Fairness of the shared pool, for the contenders and rotation at hand.    *)

(* The guaranteed shares split any pool exactly: nothing is promised twice  *)
(* and nothing is left out.                                                 *)
SharesSplitPool ==
  LET contenders == Contenders(state.policy, demand) IN
  up /\ contenders # {} =>
    \A available \in 0..state.policy.total :
      Total([p \in contenders |->
               GuaranteedShare(contenders, p, rotation, available)]) = available

Verdict(p) == EvaluateAcquire(state.policy, state.leases, demand, rotation, p)

(* Contenders never deny each other everything: if the unprotected free     *)
(* units would do for each contender alone, one of them is granted.         *)
PoolNeverStuck ==
  LET contenders == Contenders(state.policy, demand) IN
  up /\ contenders # {} /\ state.fenced = {} =>
    \/ \E p \in contenders : Verdict(p) \in Granting
    \/ \E p \in contenders : Verdict(p) \in {"budget-exhausted", "protected-reservation"}

(* Status never hides capacity: a profile whose demand Acquire would grant  *)
(* is reported at least one allocatable worker.                             *)
StatusShowsGrantable ==
  \A p \in Contenders(state.policy, demand) :
    state.fenced = {} /\ Verdict(p) \in Granting =>
      AllocatableWorkers(state.policy, state.leases, demand, rotation, {}, p) >= 1

(* Status never invents capacity: the host-wide available units are units   *)
(* no lease holds.  It does for profiles that left the policy: see the      *)
(* README.                                                                  *)
StatusCountsEveryLease ==
  ReportedAvailable(state.policy, state.leases)
    <= Larger(state.policy.total - TotalHeld(state.leases), 0)

-----------------------------------------------------------------------------
(* Liveness, under FairSpec.                                                *)

(* No provisional lease holds units for ever: it is activated, released,    *)
(* expired or discarded.                                                    *)
ProvisionalEnds ==
  \A k \in Keys : k \in Provisionals(state) ~> k \notin Provisionals(state)

Refresh(p) ==
  \/ \E n \in 0..MaxPending : SetDemand(p, n)
  \/ \E s \in Slots, n \in 0..MaxPending : Acquire(p, s, n)

(* A manager that stops refreshing its demand stops weighing on the others. *)
StoppedManagerForgotten ==
  \A p \in Profiles : \/ []<><<Refresh(p)>>_vars
                      \/ []<>(demand[p].pending = 0)

=============================================================================
