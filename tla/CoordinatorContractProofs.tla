--------------------- MODULE CoordinatorContractProofs ---------------------
(* The coordinator implements the lease service.  The argument follows two *)
(* documents: the one in memory, and the one a restart would restore.      *)
(* Between calls the second is one service step away from the first, the   *)
(* step of the last decision whose caller was told of an error.            *)
EXTENDS CoordinatorContract, CoordinatorProofs

(* What the service sees of a document's leases. *)
Seen(st) == [k \in Keys |-> st.leases[k].status]

Lapsed(st, X) == [k \in Keys |-> IF k \in X THEN "absent" ELSE st.leases[k].status]

Turned(a, b, X, k, status) == Seen(b) = [Lapsed(a, X) EXCEPT ![k] = status]

(* A service step from document a to document b: one lease is decided, or   *)
(* the fences change.                                                       *)
LeaseStep(a, b, X, k) ==
  \/ /\ a.fenced = {} /\ Lapsed(a, X)[k] = "absent"
     /\ Turned(a, b, X, k, "provisional")
     /\ b.fenced = a.fenced /\ b.pending = a.pending
  \/ /\ Lapsed(a, X)[k] = "provisional"
     /\ Turned(a, b, X, k, "active")
     /\ b.fenced = a.fenced /\ b.pending = a.pending
  \/ /\ Turned(a, b, X, k, "active") \/ Turned(a, b, X, k, "absent")
     /\ b.fenced = a.fenced /\ b.pending = a.pending \ {k}

FenceStep(a, b, X) ==
  /\ Seen(b) = Lapsed(a, X)
  /\ \/ \E p \in Profiles :
          \/ /\ b.fenced = a.fenced \cup {p}
             /\ b.pending = a.pending \cup {k \in {p} \X Slots : Seen(a)[k] = "active"}
          \/ /\ \A k \in a.pending : k[1] # p
             /\ b.fenced = a.fenced \ {p}
             /\ b.pending = a.pending
     \/ \E P \in SUBSET Profiles :
          /\ b.fenced = a.fenced \cap P
          /\ b.pending = {k \in a.pending : k[1] \in P}

Serves(a, b) ==
  \E X \in SUBSET Provisionals(a) :
    (\E k \in Keys : LeaseStep(a, b, X, k)) \/ FenceStep(a, b, X)

(* Whatever a restart restores from document d is one service step from a. *)
Backed(a, d) == \A st \in Discard(d, Provisionals(d)) : Serves(a, st)

-----------------------------------------------------------------------------
(* Service steps between documents.                                        *)

(* A service step between the documents in memory is one of the service. *)
LEMMA ServesIsNext ==
  ASSUME Serves(state, state')
  PROVE  Service!Next
<1>1. PICK X \in SUBSET Provisionals(state) :
        (\E k \in Keys : LeaseStep(state, state', X, k)) \/ FenceStep(state, state', X)
  BY DEF Serves
<1>2. X \in SUBSET Service!Provisional
  BY DEF Provisionals, Service!Provisional, Service!Keys, Keys
<1>3. Lapsed(state, X) = Service!Lapse(X)
  BY DEF Lapsed, Service!Lapse, Service!Keys, Keys
<1>4. ASSUME NEW k \in Keys, LeaseStep(state, state', X, k)
      PROVE  \/ Service!Grant(X, k) \/ Service!Activate(X, k)
             \/ Service!Adopt(X, k) \/ Service!Release(X, k)
  BY <1>3, <1>4 DEF LeaseStep, Turned, Seen, Service!Grant, Service!Activate,
     Service!Adopt, Service!Release, Service!Change
<1>5. ASSUME FenceStep(state, state', X)
      PROVE  \/ \E p \in Profiles : Service!Raise(X, p) \/ Service!Lower(X, p)
             \/ \E P \in SUBSET Profiles : Service!Govern(X, P)
  BY <1>3, <1>5 DEF FenceStep, Seen, Service!Raise, Service!Lower, Service!Govern
<1> QED BY <1>1, <1>2, <1>4, <1>5 DEF Service!Next, Service!Keys, Keys

(* A document's fences name profiles, and wait for lease keys. *)
LEMMA FencesTyped ==
  ASSUME NEW st \in Durable
  PROVE  /\ st.fenced \cap Profiles = st.fenced
         /\ {k \in st.pending : k[1] \in Profiles} = st.pending
         /\ st.leases \in [Keys -> Lease]
  BY KeyParts DEF Durable

(* Letting provisional leases lapse is a service step. *)
LEMMA LapseServes ==
  ASSUME NEW a \in Durable, NEW X \in SUBSET Provisionals(a), NEW b,
         Seen(b) = Lapsed(a, X), b.fenced = a.fenced, b.pending = a.pending
  PROVE  Serves(a, b)
<1>1. FenceStep(a, b, X)
  <2>1. b.fenced = a.fenced \cap Profiles  BY FencesTyped
  <2>2. b.pending = {k \in a.pending : k[1] \in Profiles}  BY FencesTyped
  <2>3. Profiles \in SUBSET Profiles  OBVIOUS
  <2> QED BY <2>1, <2>2, <2>3 DEF FenceStep
<1> QED BY <1>1 DEF Serves

(* Expiry and restart take leases away and leave the fences alone. *)
LEMMA DiscardSeen ==
  ASSUME NEW st \in Durable, NEW X \in SUBSET Provisionals(st), NEW nx \in Discard(st, X)
  PROVE  /\ nx \in Durable
         /\ Seen(nx) = Lapsed(st, X)
         /\ nx.fenced = st.fenced /\ nx.pending = st.pending
<1>1. X \in SUBSET Keys  BY DEF Provisionals
<1>2. /\ nx \in Durable /\ nx.fenced = st.fenced /\ nx.pending = st.pending
      /\ nx.leases = [k \in Keys |-> IF k \in X THEN NoLease ELSE st.leases[k]]
  BY <1>1, DiscardType
<1>3. Seen(nx) = Lapsed(st, X)  BY <1>2 DEF Seen, Lapsed, NoLease
<1> QED BY <1>2, <1>3

(* A sweep or a restart is a service step. *)
LEMMA DiscardServes ==
  ASSUME NEW st \in Durable, NEW X \in SUBSET Provisionals(st), NEW nx \in Discard(st, X)
  PROVE  Serves(st, nx)
  BY DiscardSeen, LapseServes

(* A document backs itself. *)
LEMMA SelfBacked ==
  ASSUME NEW st \in Durable
  PROVE  Backed(st, st)
  BY DiscardServes DEF Backed

(* If b is one service step from a, so is what a restart restores from b:   *)
(* the other provisional leases lapse in the same step.                     *)
LEMMA ServesBacks ==
  ASSUME NEW a \in Durable, NEW b \in Durable, Serves(a, b)
  PROVE  Backed(a, b)
<1> SUFFICES ASSUME NEW st \in Discard(b, Provisionals(b)) PROVE Serves(a, st)
  BY DEF Backed
<1>1. /\ Seen(st) = Lapsed(b, Provisionals(b))
      /\ st.fenced = b.fenced /\ st.pending = b.pending
  BY DiscardSeen
<1>2. Seen(st) = [j \in Keys |-> IF Seen(b)[j] = "provisional" THEN "absent" ELSE Seen(b)[j]]
  BY <1>1 DEF Seen, Lapsed, Provisionals
<1>3. PICK X \in SUBSET Provisionals(a) :
        (\E k \in Keys : LeaseStep(a, b, X, k)) \/ FenceStep(a, b, X)
  BY DEF Serves
<1> DEFINE all == Provisionals(a)
<1>4. \A j \in Keys : /\ Lapsed(a, X)[j] = "provisional" => j \in all
                      /\ j \in all => Lapsed(a, X)[j] \in {"provisional", "absent"}
                      /\ j \notin all => Lapsed(a, X)[j] = a.leases[j].status
  BY <1>3 DEF Lapsed, Provisionals
<1>5. CASE FenceStep(a, b, X)
  <2>1. Seen(b) = Lapsed(a, X)  BY <1>5 DEF FenceStep
  <2>2. Seen(st) = Lapsed(a, all)  BY <1>2, <1>4, <2>1 DEF Lapsed, Provisionals
  <2>3. FenceStep(a, st, all)  BY <1>1, <1>5, <2>2 DEF FenceStep
  <2> QED BY <2>3 DEF Serves
<1>6. ASSUME NEW k \in Keys, LeaseStep(a, b, X, k) PROVE Serves(a, st)
  <2>1. ASSUME NEW s, Turned(a, b, X, k, s)
        PROVE  Seen(b) = [j \in Keys |-> IF j = k THEN s ELSE Lapsed(a, X)[j]]
    BY <2>1 DEF Turned, Lapsed
  <2>2. ASSUME NEW s \in {"active", "absent"}, Turned(a, b, X, k, s)
        PROVE  \A Y : all \ {k} \subseteq Y /\ Y \subseteq all
                      => Seen(st) = [Lapsed(a, Y) EXCEPT ![k] = s]
    <3>1. Seen(st) = [j \in Keys |-> IF j = k THEN s
                                     ELSE IF j \in all THEN "absent"
                                     ELSE a.leases[j].status]
      <4>1. \A j \in Keys : Seen(b)[j] = IF j = k THEN s ELSE Lapsed(a, X)[j]
        BY <2>1, <2>2
      <4>2. \A j \in Keys : Seen(st)[j] = IF j = k THEN s
                                            ELSE IF j \in all THEN "absent"
                                            ELSE a.leases[j].status
        BY <1>2, <1>4, <2>2, <4>1 DEF Provisionals
      <4> QED BY <1>2, <4>2
    <3> QED BY <3>1 DEF Lapsed
  <2>3. CASE /\ Turned(a, b, X, k, "provisional") /\ Lapsed(a, X)[k] = "absent"
             /\ b.fenced = a.fenced /\ b.pending = a.pending
    <3>1. Seen(st) = [j \in Keys |-> IF j \in all \/ j = k THEN "absent"
                                     ELSE a.leases[j].status]
      BY <1>2, <1>4, <2>1, <2>3 DEF Provisionals
    <3>2. k \in all \/ a.leases[k].status = "absent"  BY <1>4, <2>3
    <3>3. Seen(st) = Lapsed(a, all)  BY <3>1, <3>2 DEF Lapsed
    <3> QED BY <1>1, <2>3, <3>3, LapseServes
  <2>4. CASE /\ Turned(a, b, X, k, "active") /\ Lapsed(a, X)[k] = "provisional"
             /\ b.fenced = a.fenced /\ b.pending = a.pending
    <3>1. Seen(st) = [Lapsed(a, all \ {k}) EXCEPT ![k] = "active"]  BY <2>4, <2>2
    <3>2. Lapsed(a, all \ {k})[k] = "provisional"  BY <1>4, <2>4 DEF Lapsed, Provisionals
    <3>3. LeaseStep(a, st, all \ {k}, k)  BY <1>1, <2>4, <3>1, <3>2 DEF LeaseStep, Turned
    <3> QED BY <3>3 DEF Serves
  <2>5. ASSUME NEW s \in {"active", "absent"}, Turned(a, b, X, k, s),
               b.fenced = a.fenced, b.pending = a.pending \ {k}
        PROVE  Serves(a, st)
    <3>1. Seen(st) = [Lapsed(a, all) EXCEPT ![k] = s]  BY <2>5, <2>2
    <3>2. LeaseStep(a, st, all, k)  BY <1>1, <2>5, <3>1 DEF LeaseStep, Turned
    <3> QED BY <3>2 DEF Serves
  <2> QED BY <1>6, <2>3, <2>4, <2>5 DEF LeaseStep
<1> QED BY <1>3, <1>5, <1>6

-----------------------------------------------------------------------------
(* Decisions, taken in a document the call has swept.                      *)

(* A decision replaces one lease, and at most strikes it off the fences. *)
LEMMA DecidedSeen ==
  ASSUME NEW st \in Durable, NEW k \in Keys, NEW lease, NEW T, NEW P
  PROVE  LET nx == Decided(st, [st.leases EXCEPT ![k] = lease], T, P) IN
         /\ Seen(nx) = [Seen(st) EXCEPT ![k] = lease.status]
         /\ nx.fenced = st.fenced /\ nx.pending = P
<1> DEFINE nx == Decided(st, [st.leases EXCEPT ![k] = lease], T, P)
<1>1. /\ nx.leases = [st.leases EXCEPT ![k] = lease]
      /\ nx.fenced = st.fenced /\ nx.pending = P
  BY DEF Decided, Durable
<1>2. st.leases \in [Keys -> Lease]  BY FencesTyped
<1> HIDE DEF nx
<1>3. Seen(nx) = [Seen(st) EXCEPT ![k] = lease.status]  BY <1>1, <1>2 DEF Seen
<1> QED BY <1>1, <1>3 DEF nx

(* A swept document followed by one decision on a lease is a service step. *)
LEMMA DecisionServes ==
  ASSUME NEW a \in Durable, NEW X \in SUBSET Provisionals(a), NEW st \in Discard(a, X),
         NEW k \in Keys, NEW nx, NEW s,
         Seen(nx) = [Seen(st) EXCEPT ![k] = s], nx.fenced = st.fenced,
         \/ s = "active" /\ k \in Provisionals(st) /\ nx.pending = st.pending
         \/ s \in {"active", "absent"} /\ nx.pending = st.pending \ {k}
  PROVE  Serves(a, nx)
<1>1. Seen(st) = Lapsed(a, X) /\ st.fenced = a.fenced /\ st.pending = a.pending
  BY DiscardSeen
<1>2. Turned(a, nx, X, k, s)  BY <1>1 DEF Turned
<1>3. k \in Provisionals(st) => Lapsed(a, X)[k] = "provisional"
  BY <1>1 DEF Provisionals, Seen
<1>4. LeaseStep(a, nx, X, k)  BY <1>1, <1>2, <1>3 DEF LeaseStep
<1> QED BY <1>4 DEF Serves


(* A swept document without fences followed by a grant is a service step. *)
LEMMA GrantServes ==
  ASSUME NEW a \in Durable, NEW X \in SUBSET Provisionals(a), NEW st \in Discard(a, X),
         NEW k \in Keys, ~Live(st, k), st.fenced = {}, NEW nx,
         Seen(nx) = [Seen(st) EXCEPT ![k] = "provisional"],
         nx.fenced = st.fenced, nx.pending = st.pending
  PROVE  Serves(a, nx)
<1>1. Seen(st) = Lapsed(a, X) /\ st.fenced = a.fenced /\ st.pending = a.pending
  BY DiscardSeen
<1>2. Lapsed(a, X)[k] = "absent"  BY <1>1 DEF Live, Seen
<1>3. LeaseStep(a, nx, X, k)  BY <1>1, <1>2 DEF LeaseStep, Turned
<1> QED BY <1>3 DEF Serves

-----------------------------------------------------------------------------
(* Steps of the coordinator.                                               *)

(* A step serves, and leaves a document that backs what memory holds. *)
Kept == Serves(state, state') /\ Backed(state', disk')

(* What a call has after its sweep: a service step from memory, backed by  *)
(* the document the sweep left on disk.                                    *)
LEMMA SweptServes ==
  ASSUME Inv, Backed(state, disk), NEW st \in Discard(state, Expired)
  PROVE  /\ state \in Durable /\ st \in Durable
         /\ Expired \in SUBSET Provisionals(state)
         /\ {} \in SUBSET Provisionals(st) /\ st \in Discard(st, {})
         /\ Serves(state, st) /\ Serves(state, state)
         /\ Backed(st, SweptDisk(st)) /\ Backed(st, st)
<1>1. state \in Durable  BY DEF Inv, Sound
<1>2. Expired \in SUBSET Provisionals(state)  BY DEF Expired
<1>3. st \in Durable  BY <1>1, <1>2, DiscardSeen
<1>4. Serves(state, st)  BY <1>1, <1>2, DiscardServes
<1>5. st \in Discard(st, {}) /\ state \in Discard(state, {})  BY DEF Discard
<1>6. Serves(state, state)  BY <1>1, <1>5, DiscardServes
<1>7. Backed(st, SweptDisk(st))
  <2>1. CASE Expired = {}
    <3>1. st = state  BY <2>1 DEF Discard
    <3> QED BY <2>1, <3>1 DEF SweptDisk
  <2>2. CASE Expired # {}  BY <1>3, <2>2, SelfBacked DEF SweptDisk
  <2> QED BY <2>1, <2>2
<1> QED BY <1>1, <1>2, <1>3, <1>4, <1>5, <1>6, <1>7, SelfBacked

(* A call whose sweep cannot be saved. *)
LEMMA SweepFailsKept ==
  ASSUME Inv, Backed(state, disk), NEW st \in Discard(state, Expired),
         NEW R \in SUBSET {state}, SweepFails(st, R)
  PROVE  Kept
<1>1. /\ Serves(state, state) /\ Serves(state, st)
      /\ state \in Durable /\ st \in Durable
  BY SweptServes
<1>2. Backed(state, st) /\ Backed(state, state)  BY <1>1, ServesBacks
<1>3. state' = state /\ disk' \in {disk, st, state}  BY DEF SweepFails
<1> QED BY <1>1, <1>2, <1>3 DEF Kept

(* A call that decides nothing beyond the sweep. *)
LEMMA AnswerKept ==
  ASSUME Inv, Backed(state, disk), NEW st \in Discard(state, Expired), NEW d, Answer(st, d)
  PROVE  Kept
<1>1. Serves(state, st) /\ Backed(st, SweptDisk(st)) /\ Backed(st, st)  BY SweptServes
<1>2. state' = st /\ disk' \in {SweptDisk(st), st}  BY DEF Answer
<1> QED BY <1>1, <1>2 DEF Kept

(* A call whose own save fails. *)
LEMMA SaveFailsKept ==
  ASSUME Inv, Backed(state, disk), NEW st \in Discard(state, Expired), NEW d,
         NEW next \in Durable, Serves(st, next), SaveFails(st, next, d)
  PROVE  Kept
<1>1. /\ Serves(state, st) /\ Backed(st, SweptDisk(st)) /\ Backed(st, st)
      /\ st \in Durable
  BY SweptServes
<1>2. Backed(st, next)  BY <1>1, ServesBacks
<1>3. state' = st /\ disk' \in {SweptDisk(st), next, st}  BY DEF SaveFails
<1> QED BY <1>1, <1>2, <1>3 DEF Kept

(* A decision that was saved. *)
LEMMA SavedKept ==
  ASSUME NEW next \in Durable, Serves(state, next), Saved(next)
  PROVE  Kept
  BY SelfBacked DEF Saved, Kept

(* A lease decision, saved or not, that is a service step from the swept    *)
(* document.                                                                *)
LEMMA DecideKept ==
  ASSUME Inv, Backed(state, disk), NEW st \in Discard(state, Expired),
         NEW k \in Keys, NEW next \in Durable, NEW s, NEW ttl,
         Seen(next) = [Seen(st) EXCEPT ![k] = s], next.fenced = st.fenced,
         \/ s = "active" /\ k \in Provisionals(st) /\ next.pending = st.pending
         \/ s \in {"active", "absent"} /\ next.pending = st.pending \ {k},
         Decide(st, next, k, ttl)
  PROVE  Kept
<1>1. /\ state \in Durable /\ st \in Durable
      /\ Expired \in SUBSET Provisionals(state)
      /\ {} \in SUBSET Provisionals(st) /\ st \in Discard(st, {})
  BY SweptServes
<1>2. Serves(state, next)  BY <1>1, DecisionServes
<1>3. Serves(st, next)  BY <1>1, DecisionServes
<1>4. CASE Saved(next)  BY <1>2, <1>4, SavedKept
<1>5. CASE SaveFails(st, next, SweptDemand)  BY <1>3, <1>5, SaveFailsKept
<1> QED BY <1>4, <1>5 DEF Decide

(* Acquire grants only while no profile is fenced. *)
LEMMA AcquireKept ==
  ASSUME Inv, Backed(state, disk), NEW p \in Profiles, NEW s \in Slots, NEW n \in Nat,
         Acquire(p, s, n)
  PROVE  Kept
<1> DEFINE k == <<p, s>>
<1>1. up /\ k \in Keys /\ k[1] = p  BY DEF Acquire, Keys
<1>2. PICK st \in Discard(state, Expired) :
        \/ SweepFails(st, {state})
        \/ Answer(st, ExpireStaleDemand(SweptDemand))
        \/ AcquireFrom(st, p, s, n)
  BY DEF Acquire
<1> HIDE DEF k
<1>3. CASE SweepFails(st, {state})  BY <1>3, SweepFailsKept
<1>4. CASE Answer(st, ExpireStaleDemand(SweptDemand))  BY <1>4, AnswerKept
<1>5. CASE AcquireFrom(st, p, s, n)
  <2> DEFINE next == Granted(st, k)
  <2>1. Sound(st)  BY <1>1, SweepOK
  <2>2. st.fenced = {} /\ ~Live(st, k) /\ p \in st.policy.profiles
    BY <1>5 DEF AcquireFrom, Barred, k
  <2>3. Sound(next)  BY <1>1, <2>1, <2>2, GrantedSound
  <2>4. NewLease(st, k, "provisional").status = "provisional"  BY DEF NewLease
  <2>5. /\ Seen(next) = [Seen(st) EXCEPT ![k] = "provisional"]
        /\ next.fenced = st.fenced /\ next.pending = st.pending
    BY <1>1, <2>1, <2>4, DecidedSeen DEF Granted, Sound
  <2>6. \/ Answer(st, Asking(p, n)) \/ Saved(next) \/ SaveFails(st, next, Asking(p, n))
    BY <1>5 DEF AcquireFrom, k
  <2> HIDE DEF next
  <2>7. /\ state \in Durable /\ st \in Durable
        /\ Expired \in SUBSET Provisionals(state)
        /\ {} \in SUBSET Provisionals(st) /\ st \in Discard(st, {})
    BY SweptServes
  <2>8. Serves(state, next)  BY <1>1, <2>2, <2>5, <2>7, GrantServes
  <2>9. Serves(st, next)  BY <1>1, <2>2, <2>5, <2>7, GrantServes
  <2> QED BY <2>3, <2>6, <2>8, <2>9, AnswerKept, SavedKept, SaveFailsKept DEF Sound
<1> QED BY <1>2, <1>3, <1>4, <1>5


(* Adopt makes or keeps its lease active and strikes it off the fences. *)
LEMMA AdoptKept ==
  ASSUME Inv, Backed(state, disk), NEW p \in Profiles, NEW s \in Slots, Adopt(p, s)
  PROVE  Kept
<1> DEFINE k == <<p, s>>
<1>1. up /\ k \in Keys /\ k[1] = p  BY DEF Adopt, Keys
<1>2. PICK st \in Discard(state, Expired) :
       \/ SweepFails(st, {state})
       \/ Answer(st, SweptDemand)
       \/ /\ st.leases[k].status = "active"
          /\ Decide(st, Accounted(st, k), k, SweptDeadline[k])
       \/ /\ p \in st.policy.profiles
          /\ Decide(st, Adopted(st, k), k, Untracked)
  BY DEF Adopt
<1>3. Sound(st)  BY <1>1, SweepOK
<1> HIDE DEF k
<1>4. CASE SweepFails(st, {state})  BY <1>4, SweepFailsKept
<1>5. CASE Answer(st, SweptDemand)  BY <1>5, AnswerKept
<1>6. CASE /\ st.leases[k].status = "active"
           /\ Decide(st, Accounted(st, k), k, SweptDeadline[k])
  <2>1. Sound(Accounted(st, k))  BY <1>1, <1>3, AccountedSound
  <2>2. /\ Accounted(st, k).leases = st.leases
        /\ Accounted(st, k).fenced = st.fenced
        /\ Accounted(st, k).pending = st.pending \ {k}
    BY <1>3 DEF Accounted, Sound, Durable
  <2>3. Seen(Accounted(st, k)) = [Seen(st) EXCEPT ![k] = "active"]
    BY <1>1, <1>6, <2>2 DEF Seen
  <2> QED BY <1>1, <1>6, <2>1, <2>2, <2>3, DecideKept DEF Sound
<1>7. CASE p \in st.policy.profiles /\ Decide(st, Adopted(st, k), k, Untracked)
  <2>1. Sound(Adopted(st, k))  BY <1>1, <1>3, <1>7, AdoptedSound
  <2>2. AdoptedLease(st, k).status = "active"
    BY <1>1, <1>3 DEF AdoptedLease, NewLease, Sound, Durable, Lease
  <2>3. /\ Seen(Adopted(st, k)) = [Seen(st) EXCEPT ![k] = "active"]
        /\ Adopted(st, k).fenced = st.fenced
        /\ Adopted(st, k).pending = st.pending \ {k}
    BY <1>1, <1>3, <2>2, DecidedSeen DEF Adopted, Sound
  <2> QED BY <1>1, <1>7, <2>1, <2>3, DecideKept DEF Sound
<1> QED BY <1>2, <1>4, <1>5, <1>6, <1>7

(* A decision the service does not see: only the sweep shows. *)
LEMMA UnseenServes ==
  ASSUME Inv, Backed(state, disk), NEW st \in Discard(state, Expired), NEW next,
         Seen(next) = Seen(st), next.fenced = st.fenced, next.pending = st.pending
  PROVE  Serves(state, next) /\ Serves(st, next)
<1>1. /\ state \in Durable /\ st \in Durable
      /\ Expired \in SUBSET Provisionals(state) /\ {} \in SUBSET Provisionals(st)
  BY SweptServes
<1>2. Seen(st) = Lapsed(state, Expired) /\ st.fenced = state.fenced /\ st.pending = state.pending
  BY <1>1, DiscardSeen
<1>3. Seen(st) = Lapsed(st, {})  BY DEF Seen, Lapsed
<1> QED BY <1>1, <1>2, <1>3, LapseServes

(* Renew only moves a deadline. *)
LEMMA RenewKept ==
  ASSUME Inv, Backed(state, disk), NEW p \in Profiles, NEW s \in Slots, Renew(p, s)
  PROVE  Kept
<1> DEFINE k == <<p, s>>
<1>1. up /\ k \in Keys  BY DEF Renew, Keys
<1>2. PICK st \in Discard(state, Expired) :
       \/ SweepFails(st, {state})
       \/ Answer(st, SweptDemand)
       \/ k \in Provisionals(st) /\ Decide(st, Renewed(st), k, LeaseTTL)
  BY DEF Renew
<1>3. Sound(st)  BY <1>1, SweepOK
<1> HIDE DEF k
<1>4. CASE SweepFails(st, {state})  BY <1>4, SweepFailsKept
<1>5. CASE Answer(st, SweptDemand)  BY <1>5, AnswerKept
<1>6. CASE k \in Provisionals(st) /\ Decide(st, Renewed(st), k, LeaseTTL)
  <2>1. Sound(Renewed(st))  BY <1>3, <1>6, RenewedSound
  <2>2. /\ Renewed(st).leases = st.leases
        /\ Renewed(st).fenced = st.fenced /\ Renewed(st).pending = st.pending
    BY <1>3 DEF Renewed, Decided, Sound, Durable
  <2>3. Seen(Renewed(st)) = Seen(st)  BY <2>2 DEF Seen
  <2>4. Serves(state, Renewed(st)) /\ Serves(st, Renewed(st))  BY <2>2, <2>3, UnseenServes
  <2> QED BY <1>6, <2>1, <2>4, SavedKept, SaveFailsKept DEF Decide, Sound
<1> QED BY <1>2, <1>4, <1>5, <1>6

(* Activate turns its provisional lease active. *)
LEMMA ActivateKept ==
  ASSUME Inv, Backed(state, disk), NEW p \in Profiles, NEW s \in Slots, Activate(p, s)
  PROVE  Kept
<1> DEFINE k == <<p, s>>
<1>1. up /\ k \in Keys  BY DEF Activate, Keys
<1>2. PICK st \in Discard(state, Expired) :
       \/ SweepFails(st, {state})
       \/ Answer(st, SweptDemand)
       \/ k \in Provisionals(st) /\ Decide(st, Activated(st, k), k, Untracked)
  BY DEF Activate
<1>3. Sound(st)  BY <1>1, SweepOK
<1> HIDE DEF k
<1>4. CASE SweepFails(st, {state})  BY <1>4, SweepFailsKept
<1>5. CASE Answer(st, SweptDemand)  BY <1>5, AnswerKept
<1>6. CASE k \in Provisionals(st) /\ Decide(st, Activated(st, k), k, Untracked)
  <2> DEFINE lease == [st.leases[k] EXCEPT !.status = "active"]
  <2>1. Sound(Activated(st, k))  BY <1>3, <1>6, ActivatedSound
  <2>2. lease.status = "active"  BY <1>1, <1>3 DEF Sound, Durable, Lease
  <2>3. Activated(st, k) =
          Decided(st, [st.leases EXCEPT ![k] = lease], st.tombstones, st.pending)
    BY DEF Activated
  <2> HIDE DEF lease
  <2>4. /\ Seen(Activated(st, k)) = [Seen(st) EXCEPT ![k] = "active"]
        /\ Activated(st, k).fenced = st.fenced
        /\ Activated(st, k).pending = st.pending
    BY <1>1, <1>3, <2>2, <2>3, DecidedSeen DEF Sound
  <2> QED BY <1>1, <1>6, <2>1, <2>4, DecideKept DEF Sound
<1> QED BY <1>2, <1>4, <1>5, <1>6

(* Release, and so Reconcile, ends its lease and strikes it off the fences. *)
LEMMA ReleaseKept ==
  ASSUME Inv, Backed(state, disk), NEW p \in Profiles, NEW s \in Slots, Release(p, s)
  PROVE  Kept
<1> DEFINE k == <<p, s>>
<1>1. up /\ k \in Keys  BY DEF Release, Keys
<1>2. PICK st \in Discard(state, Expired) :
       \/ SweepFails(st, {state})
       \/ Answer(st, SweptDemand)
       \/ Decide(st, Tombstoned(st, k), k, Untracked)
  BY DEF Release
<1>3. Sound(st)  BY <1>1, SweepOK
<1> HIDE DEF k
<1>4. CASE SweepFails(st, {state})  BY <1>4, SweepFailsKept
<1>5. CASE Answer(st, SweptDemand)  BY <1>5, AnswerKept
<1>6. CASE Decide(st, Tombstoned(st, k), k, Untracked)
  <2>1. Sound(Tombstoned(st, k))  BY <1>1, <1>3, TombstonedSound
  <2>2. NoLease.status = "absent"  BY DEF NoLease
  <2>3. /\ Seen(Tombstoned(st, k)) = [Seen(st) EXCEPT ![k] = "absent"]
        /\ Tombstoned(st, k).fenced = st.fenced
        /\ Tombstoned(st, k).pending = st.pending \ {k}
    BY <1>1, <1>3, <2>2, DecidedSeen DEF Tombstoned, Sound
  <2> QED BY <1>1, <1>6, <2>1, <2>3, DecideKept DEF Sound
<1> QED BY <1>2, <1>4, <1>5, <1>6


(* BindRegistration only names a lease. *)
LEMMA BindRegistrationKept ==
  ASSUME Inv, Backed(state, disk), NEW p \in Profiles, NEW s \in Slots, NEW name \in Names,
         BindRegistration(p, s, name)
  PROVE  Kept
<1> DEFINE k == <<p, s>>
<1>1. up /\ k \in Keys  BY DEF BindRegistration, Keys
<1>2. PICK st \in Discard(state, Expired) :
       \/ SweepFails(st, {})
       \/ state' = st /\ disk' = SweptDisk(st)
       \/ /\ Live(st, k)
          /\ \/ Saved(Bound(st, k, name))
             \/ state' = st /\ disk' \in {SweptDisk(st), Bound(st, k, name)}
  BY DEF BindRegistration
<1>3. Sound(st)  BY <1>1, SweepOK
<1> HIDE DEF k
<1>4. /\ Serves(state, st) /\ Backed(st, SweptDisk(st)) /\ Backed(st, st)
      /\ st \in Durable
  BY SweptServes
<1>5. CASE SweepFails(st, {})  BY <1>5, SweepFailsKept
<1>6. CASE state' = st /\ disk' = SweptDisk(st)  BY <1>4, <1>6 DEF Kept
<1>7. CASE /\ Live(st, k)
           /\ \/ Saved(Bound(st, k, name))
              \/ state' = st /\ disk' \in {SweptDisk(st), Bound(st, k, name)}
  <2> DEFINE lease == [st.leases[k] EXCEPT !.name = name]
             next == Bound(st, k, name)
  <2>1. Sound(next)  BY <1>1, <1>3, <1>7, BoundSound
  <2>2. lease.status = st.leases[k].status  BY <1>1, <1>3 DEF Sound, Durable, Lease
  <2>3. next = Decided(st, [st.leases EXCEPT ![k] = lease], st.tombstones, st.pending)
    BY DEF Bound
  <2> HIDE DEF lease, next
  <2>4. /\ Seen(next) = [Seen(st) EXCEPT ![k] = lease.status]
        /\ next.fenced = st.fenced /\ next.pending = st.pending
    BY <1>1, <1>4, <2>3, DecidedSeen
  <2>5. Seen(next) = Seen(st)  BY <1>1, <2>2, <2>4 DEF Seen
  <2>6. Serves(state, next) /\ Serves(st, next)  BY <2>4, <2>5, UnseenServes
  <2>7. Backed(st, next)  BY <1>4, <2>1, <2>6, ServesBacks DEF Sound
  <2>8. CASE Saved(next)  BY <2>1, <2>6, <2>8, SavedKept DEF Sound
  <2>9. CASE state' = st /\ disk' \in {SweptDisk(st), next}  BY <1>4, <2>7, <2>9 DEF Kept
  <2> QED BY <1>7, <2>8, <2>9 DEF next
<1> QED BY <1>2, <1>5, <1>6, <1>7

(* Status only sweeps. *)
LEMMA StatusKept ==
  ASSUME Inv, Backed(state, disk), Status
  PROVE  Kept
<1>1. CASE StatusAnswered
  <2>1. PICK st \in Discard(state, Expired) : state' = st /\ disk' = SweptDisk(st)
    BY <1>1 DEF StatusAnswered
  <2> QED BY <2>1, SweptServes DEF Kept
<1>2. CASE up /\ \E st \in Discard(state, Expired) : SweepFails(st, {})
  BY <1>2, SweepFailsKept
<1> QED BY <1>1, <1>2 DEF Status

(* An operation that saves once, without a sweep. *)
LEMMA PublishKept ==
  ASSUME Inv, Backed(state, disk), NEW next \in Durable, FenceStep(state, next, {}),
         \/ Saved(next)
         \/ disk' = next /\ UNCHANGED <<up, state>>
  PROVE  Kept
<1>1. state \in Durable  BY DEF Inv, Sound
<1>2. Serves(state, next)  BY DEF Serves
<1>3. Backed(state, next)  BY <1>1, <1>2, ServesBacks
<1>4. state \in Discard(state, {})  BY DEF Discard
<1>5. Serves(state, state)  BY <1>1, <1>4, DiscardServes
<1>6. CASE Saved(next)  BY <1>2, <1>6, SavedKept
<1>7. CASE disk' = next /\ UNCHANGED <<up, state>>  BY <1>3, <1>5, <1>7 DEF Kept
<1> QED BY <1>6, <1>7

(* A fence goes up with the active leases of its profile. *)
LEMMA BeginAdoptionKept ==
  ASSUME Inv, Backed(state, disk), NEW p \in Profiles, BeginAdoption(p)
  PROVE  Kept
<1> DEFINE next == Fenced(state, p)
<1>1. Sound(next)  BY FencedSound DEF Inv, BeginAdoption
<1>2. /\ next.leases = state.leases
      /\ next.fenced = state.fenced \cup {p}
      /\ next.pending = state.pending \cup ActiveKeys(state, p)
  BY DEF Fenced, Inv, Sound, Durable
<1>3. ActiveKeys(state, p) = {k \in {p} \X Slots : Seen(state)[k] = "active"}
  BY DEF ActiveKeys, Seen, Keys
<1> HIDE DEF next
<1>4. Seen(next) = Lapsed(state, {})  BY <1>2 DEF Seen, Lapsed
<1>5. FenceStep(state, next, {})  BY <1>2, <1>3, <1>4 DEF FenceStep
<1> QED BY <1>1, <1>5, PublishKept DEF BeginAdoption, Publish, Sound, next

(* A fence comes down once it waits for no lease of its profile. *)
LEMMA CompleteAdoptionKept ==
  ASSUME Inv, Backed(state, disk), NEW p \in Profiles, CompleteAdoption(p)
  PROVE  Kept
<1> DEFINE next == Unfenced(state, p)
<1>1. Sound(next)  BY UnfencedSound DEF Inv, CompleteAdoption
<1>2. /\ next.leases = state.leases
      /\ next.fenced = state.fenced \ {p}
      /\ next.pending = state.pending
  BY DEF Unfenced, Inv, Sound, Durable
<1> HIDE DEF next
<1>3. Seen(next) = Lapsed(state, {})  BY <1>2 DEF Seen, Lapsed
<1>4. FenceStep(state, next, {})  BY <1>2, <1>3 DEF FenceStep, CompleteAdoption
<1> QED BY <1>1, <1>4, PublishKept DEF CompleteAdoption, Publish, Sound, next

(* A policy ends the fences of the profiles it drops, and no lease. *)
LEMMA ApplyPolicyKept ==
  ASSUME Inv, Backed(state, disk), NEW g \in Nat, NEW policy \in Publications,
         ApplyPolicy(g, policy)
  PROVE  Kept
<1> DEFINE next == Governed(state, g, policy)
<1>1. Sound(next)  BY GovernedSound DEF Inv, ApplyPolicy
<1>2. /\ next.leases = state.leases
      /\ next.fenced = state.fenced \cap policy.profiles
      /\ next.pending = {k \in state.pending : k[1] \in policy.profiles}
  BY DEF Governed, Inv, Sound, Durable
<1>3. Saved(next) \/ (disk' = next /\ UNCHANGED <<up, state>>)  BY DEF ApplyPolicy
<1>4. policy.profiles \in SUBSET Profiles  BY PublicationsAssumption DEF Policy
<1> HIDE DEF next
<1>5. Seen(next) = Lapsed(state, {})  BY <1>2 DEF Seen, Lapsed
<1>6. FenceStep(state, next, {})  BY <1>2, <1>4, <1>5 DEF FenceStep
<1> QED BY <1>1, <1>3, <1>6, PublishKept DEF Sound

(* A restart carries out the step the document on disk is away. *)
LEMMA OpenKept ==
  ASSUME Inv, Backed(state, disk), Open
  PROVE  Kept
<1>1. PICK st \in Discard(disk, Provisionals(disk)) :
        disk' = st /\ (state' = st \/ state' = state)
  BY DEF Open
<1>2. disk \in Durable /\ state \in Durable  BY DEF Inv, Sound
<1>3. st \in Durable  BY <1>2, DiscardSeen
<1>4. Serves(state, st)  BY DEF Backed
<1>5. Backed(state, st)  BY <1>2, <1>3, <1>4, ServesBacks
<1>6. state \in Discard(state, {})  BY DEF Discard
<1>7. Serves(state, state)  BY <1>2, <1>6, DiscardServes
<1> QED BY <1>1, <1>3, <1>4, <1>5, <1>7, SelfBacked DEF Kept

(* Steps that leave both documents alone. *)
LEMMA IdleKept ==
  ASSUME Inv, Backed(state, disk), UNCHANGED <<state, disk>>
  PROVE  Kept
<1>1. state \in Durable  BY DEF Inv, Sound
<1>2. state \in Discard(state, {})  BY DEF Discard
<1>3. Serves(state, state)  BY <1>1, <1>2, DiscardServes
<1> QED BY <1>3 DEF Kept

(* Every step of the coordinator serves and stays backed. *)
LEMMA NextKept ==
  ASSUME Inv, Backed(state, disk), [Next]_vars
  PROVE  Kept
<1>1. \A n : n \in 0..MaxPending => n \in Nat  BY BoundsAssumption
<1>2. ASSUME NEW p \in Profiles, NEW s \in Slots, Call(p, s) PROVE Kept
  BY <1>1, <1>2, AcquireKept, AdoptKept, RenewKept, ActivateKept, ReleaseKept,
     BindRegistrationKept DEF Call, Reconcile
<1>3. ASSUME NEW p \in Profiles, ProfileCall(p) PROVE Kept
  <2>1. CASE \E n \in 0..MaxPending : SetDemand(p, n)  BY <2>1, IdleKept DEF SetDemand
  <2> QED BY <1>3, <2>1, BeginAdoptionKept, CompleteAdoptionKept DEF ProfileCall
<1>4. ASSUME NEW g \in 0..MaxGeneration, NEW policy \in Publications, ApplyPolicy(g, policy)
      PROVE  Kept
  <2>1. g \in Nat  BY BoundsAssumption
  <2> QED BY <1>4, <2>1, ApplyPolicyKept
<1>5. CASE Tick \/ Crash \/ UNCHANGED vars  BY <1>5, IdleKept DEF Tick, Crash, vars
<1> QED BY <1>2, <1>3, <1>4, <1>5, StatusKept, OpenKept DEF Next, Serve

-----------------------------------------------------------------------------
(* The refinement.                                                         *)

(* In every reachable state what a restart would restore is one service     *)
(* step from what memory holds.                                             *)
THEOREM AlwaysBacked == Spec => []Backed(state, disk)
<1>1. Init => Backed(state, disk)
  <2>1. NewDurable \in Durable  BY NewSound DEF Sound
  <2> QED BY <2>1, SelfBacked DEF Init
<1>2. Inv /\ Backed(state, disk) /\ [Next]_vars => Backed(state, disk)'
  BY NextKept DEF Kept, Backed
<1> QED BY <1>1, <1>2, Invariance, PTL DEF Spec

(* The coordinator implements the lease service for any number of profiles, *)
(* slots and policies, whatever saves fail and whenever it dies.            *)
THEOREM CoordinatorKeepsContract == Spec => KeepsContract
<1>1. Init => Service!Init
  BY DEF Init, NewDurable, NoLease, Service!Init, Service!Keys, Keys
<1>2. Inv /\ Backed(state, disk) /\ [Next]_vars => [Service!Next]_(Service!vars)
  BY NextKept, ServesIsNext DEF Kept
<1> QED BY <1>1, <1>2, Invariance, AlwaysBacked, PTL DEF Spec, KeepsContract, Service!Spec


=============================================================================
