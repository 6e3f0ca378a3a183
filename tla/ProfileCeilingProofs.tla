------------------------ MODULE ProfileCeilingProofs ------------------------
(* The profile ceiling holds, and admissions are settled exactly, for any    *)
(* number of targets and however the scalers interleave with reserve.        *)
EXTENDS ProfileCeiling, UnitsProofs

(* The scaler's reconciliation may run. *)
Present(t) == status[t] \in {"serving", "closing"}

(* The launch loop of a target, and what its scaler has taken over so far.   *)
Sane(t) ==
  /\ launch[t].remaining = 0 <=> launch[t] = Idle
  /\ launch[t] # Idle => Present(t)
  /\ gone[t] <= runners[t] /\ adopted[t] <= recovered[t]
  /\ status[t] \in {"absent", "starting"} => gone[t] = 0 /\ runners[t] <= adopted[t]
  /\ Present(t) => adopted[t] = recovered[t]

Scalers == \A t \in Targets : Sane(t)

(* Whoever may hold workers is a member, until a full stop.                  *)
Joined ==
  /\ Recovered \in DOMAIN members
  /\ \A t \in Targets :
       /\ status[t] \in {"starting", "serving", "closing"} => t \in DOMAIN members
       /\ t \notin DOMAIN members => runners[t] = 0 \/ status[t] = "left"
       /\ status[t] \in {"closing", "left"} =>
            \A u \in Targets : status[u] \notin {"starting", "serving"}
       /\ status[t] = "left" => Mutex

(* A reserve call belongs to a scaler that launches nothing meanwhile, and   *)
(* counts the recovered workers first.                                       *)
Counting ==
  ~Mutex => /\ reserving.key \in Targets /\ Present(reserving.key)
            /\ launch[reserving.key] = Idle
            /\ reserving.want > 0
            /\ DOMAIN reserving.held # {} => Recovered \in DOMAIN reserving.held

(* The workers a target has or may still launch, but for those nobody tracks *)
(* and those that wait to be adopted.                                        *)
Load(t) == Created(t) + (runners[t] - gone[t]) + Unlaunched(t)

Unadopted(t) == recovered[t] - adopted[t]

(* What reserve has not counted under the target itself.                     *)
Excess(t) ==
  IF t \in DOMAIN reserving.held
  THEN Larger(0, Load(t) + Unadopted(t) - reserving.held[t])
  ELSE Unadopted(t)

(* Stale as the counts are, what they miss of the targets was counted with   *)
(* the recovered workers: a worker is adopted, never made, behind the back   *)
(* of reserve.                                                               *)
Snapshot ==
  Recovered \in DOMAIN reserving.held =>
    Total([t \in Targets |-> Excess(t)]) <= reserving.held[Recovered]

Inv == TypeOK /\ Scalers /\ Joined /\ Counting /\ InFlightSettled /\ Snapshot

(* No target has more workers, or more launches ahead of it, than before.    *)
NoMore == \A t \in Targets : Alive(t)' + Unlaunched(t)' <= Alive(t) + Unlaunched(t)

-----------------------------------------------------------------------------
(* Counts and sums.                                                          *)

(* What a target holds, as numbers. *)
LEMMA CountsTyped ==
  ASSUME TypeOK, NEW t \in Targets
  PROVE  /\ runners[t] \in Nat /\ gone[t] \in Nat /\ recovered[t] \in Nat
         /\ adopted[t] \in Nat /\ leftover[t] \in Nat
         /\ launch[t] \in Launch
         /\ Created(t) \in Nat /\ Unlaunched(t) \in Int /\ Unsettled(t) \in Int
         /\ Load(t) \in Int /\ Unadopted(t) \in Int /\ Alive(t) \in Int
         /\ Alive(t) = leftover[t] + Created(t) + (runners[t] - gone[t]) + Unadopted(t)
         /\ Excess(t) \in Int
<1>1. /\ runners[t] \in Nat /\ gone[t] \in Nat /\ recovered[t] \in Nat
      /\ adopted[t] \in Nat /\ leftover[t] \in Nat /\ launch[t] \in Launch
  BY DEF TypeOK
<1>2. Created(t) \in Nat  BY DEF Created
<1>3. Unlaunched(t) \in Int /\ Unsettled(t) \in Int
  BY <1>1 DEF Unlaunched, Unsettled, Launch
<1>4. Unadopted(t) \in Int  BY <1>1 DEF Unadopted
<1>5. Load(t) \in Int  BY <1>1, <1>2, <1>3 DEF Load
<1>6. /\ Alive(t) \in Int
      /\ Alive(t) = leftover[t] + Created(t) + (runners[t] - gone[t]) + Unadopted(t)
  BY <1>1, <1>2 DEF Alive, Unadopted
<1>7. t \in DOMAIN reserving.held => reserving.held[t] \in Nat  BY DEF TypeOK
<1>8. Excess(t) \in Int  BY <1>4, <1>5, <1>7 DEF Excess, Larger
<1> QED BY <1>1, <1>2, <1>3, <1>4, <1>5, <1>6, <1>8

(* The same after a step. *)
LEMMA CountsTypedNext ==
  ASSUME TypeOK', NEW t \in Targets
  PROVE  /\ runners'[t] \in Nat /\ gone'[t] \in Nat /\ recovered'[t] \in Nat
         /\ adopted'[t] \in Nat /\ leftover'[t] \in Nat
         /\ launch'[t] \in Launch
         /\ Created(t)' \in Nat /\ Unlaunched(t)' \in Int /\ Unsettled(t)' \in Int
         /\ Load(t)' \in Int /\ Unadopted(t)' \in Int /\ Alive(t)' \in Int
         /\ Alive(t)' = leftover'[t] + Created(t)' + (runners'[t] - gone'[t]) + Unadopted(t)'
         /\ Excess(t)' \in Int
<1>1. /\ runners'[t] \in Nat /\ gone'[t] \in Nat /\ recovered'[t] \in Nat
      /\ adopted'[t] \in Nat /\ leftover'[t] \in Nat /\ launch'[t] \in Launch
  BY DEF TypeOK
<1>2. Created(t)' \in Nat  BY DEF Created
<1>3. Unlaunched(t)' \in Int /\ Unsettled(t)' \in Int
  BY <1>1 DEF Unlaunched, Unsettled, Launch
<1>4. Unadopted(t)' \in Int  BY <1>1 DEF Unadopted
<1>5. Load(t)' \in Int  BY <1>1, <1>2, <1>3 DEF Load
<1>6. /\ Alive(t)' \in Int
      /\ Alive(t)' = leftover'[t] + Created(t)' + (runners'[t] - gone'[t]) + Unadopted(t)'
  BY <1>1, <1>2 DEF Alive, Unadopted
<1>7. t \in DOMAIN reserving'.held => reserving'.held[t] \in Nat  BY DEF TypeOK
<1>8. Excess(t)' \in Int  BY <1>4, <1>5, <1>7 DEF Excess, Larger
<1> QED BY <1>1, <1>2, <1>3, <1>4, <1>5, <1>6, <1>8

(* While reserve counts, a snapshot stays good if no target gets more        *)
(* workers and none more unadopted ones.                                     *)
LEMMA SnapshotKept ==
  ASSUME TypeOK, TypeOK', Snapshot, UNCHANGED reserving,
         \A t \in Targets : /\ Load(t)' + Unadopted(t)' <= Load(t) + Unadopted(t)
                            /\ Unadopted(t)' <= Unadopted(t)
  PROVE  Snapshot'
<1> DEFINE before == [t \in Targets |-> Excess(t)]
           after == [t \in Targets |-> Excess(t)']
<1>1. ASSUME NEW t \in Targets PROVE Excess(t)' <= Excess(t)
  <2>1. /\ Load(t) \in Int /\ Unadopted(t) \in Int
        /\ Load(t)' \in Int /\ Unadopted(t)' \in Int
    BY CountsTyped, CountsTypedNext
  <2>2. t \in DOMAIN reserving.held => reserving.held[t] \in Nat  BY DEF TypeOK
  <2> QED BY <2>1, <2>2 DEF Excess, Larger
<1>2. before \in [Targets -> Int] /\ after \in [Targets -> Int]
  BY CountsTyped, CountsTypedNext
<1>3. \A t \in Targets : after[t] <= before[t]  BY <1>1
<1>4. IsFiniteSet(Targets)  BY TargetsAssumption
<1> HIDE DEF before, after
<1>5. Total(after) <= Total(before) /\ Total(after) \in Nat /\ Total(before) \in Nat
  BY <1>2, <1>3, <1>4, TotalMonotone, TotalFinite
<1>6. ASSUME Recovered \in DOMAIN reserving.held  PROVE Total(after) <= reserving.held[Recovered]
  <2>1. reserving.held[Recovered] \in Nat  BY <1>6 DEF TypeOK
  <2>2. Total(before) <= reserving.held[Recovered]  BY <1>6 DEF Snapshot, before
  <2> QED BY <1>5, <2>1, <2>2
<1>7. after = [t \in Targets |-> Excess(t)']  BY DEF after
<1> QED BY <1>6, <1>7 DEF Snapshot

-----------------------------------------------------------------------------
(* Steps of one target's workers.  They leave the controller alone.          *)

(* Nothing of target t changes. *)
Same(t) ==
  /\ runners'[t] = runners[t] /\ gone'[t] = gone[t] /\ recovered'[t] = recovered[t]
  /\ adopted'[t] = adopted[t] /\ leftover'[t] = leftover[t] /\ launch'[t] = launch[t]

(* Its counts are then the same. *)
LEMMA SameCounts ==
  ASSUME NEW t \in Targets, Same(t)
  PROVE  /\ Created(t)' = Created(t) /\ Unlaunched(t)' = Unlaunched(t)
         /\ Unsettled(t)' = Unsettled(t) /\ Load(t)' = Load(t)
         /\ Unadopted(t)' = Unadopted(t) /\ Alive(t)' = Alive(t)
<1>1. /\ Created(t)' = Created(t) /\ Unlaunched(t)' = Unlaunched(t)
      /\ Unsettled(t)' = Unsettled(t) /\ Unadopted(t)' = Unadopted(t)
  BY DEF Same, Created, Unlaunched, Unsettled, Unadopted
<1>2. Load(t)' = Load(t) /\ Alive(t)' = Alive(t)  BY <1>1 DEF Same, Load, Alive
<1> QED BY <1>1, <1>2

(* A step of one target that makes no worker and settles nothing, beside a   *)
(* reserve call that may be counting.                                        *)
LEMMA WorkerStep ==
  ASSUME Inv, TypeOK', UNCHANGED <<controller, status>>, NEW t \in Targets,
         \A u \in Targets \ {t} : Same(u),
         Sane(t)',
         runners'[t] = runners[t] \/ t \in DOMAIN members,
         launch'[t] = launch[t] \/ launch[t] # Idle,
         Unsettled(t)' = Unsettled(t),
         Unadopted(t)' <= Unadopted(t),
         Load(t)' + Unadopted(t)' <= Load(t) + Unadopted(t),
         Alive(t)' + Unlaunched(t)' <= Alive(t) + Unlaunched(t)
  PROVE  Inv' /\ NoMore
<1>1. /\ UNCHANGED <<members, reserving, status>>
      /\ TypeOK /\ Scalers /\ Joined /\ Counting /\ InFlightSettled /\ Snapshot
  BY DEF Inv, controller
<1>2. ASSUME NEW u \in Targets, u # t
      PROVE  /\ Same(u) /\ Sane(u)'
             /\ Unsettled(u)' = Unsettled(u) /\ Unadopted(u)' = Unadopted(u)
             /\ Load(u)' = Load(u) /\ Alive(u)' = Alive(u)
             /\ Unlaunched(u)' = Unlaunched(u)
  <2>1. Same(u)  BY <1>2
  <2>2. Sane(u)  BY <1>1 DEF Scalers
  <2>3. Sane(u)'  BY <1>1, <2>1, <2>2 DEF Sane, Same, Present
  <2> QED BY <2>1, <2>3, SameCounts
<1>3. Scalers'  BY <1>2 DEF Scalers
<1>4. Joined'
  <2>1. \A u \in Targets : u \notin DOMAIN members => runners'[u] = runners[u]
    BY <1>2 DEF Same
  <2> QED BY <1>1, <2>1 DEF Joined, Mutex
<1>5. Counting'
  <2>1. ASSUME ~Mutex PROVE launch'[reserving.key] = Idle
    BY <1>1, <1>2, <2>1 DEF Counting, Same
  <2> QED BY <1>1, <2>1 DEF Counting, Mutex, Present
<1>6. InFlightSettled'  BY <1>1, <1>2 DEF InFlightSettled
<1>7. ASSUME NEW u \in Targets
      PROVE  /\ Load(u)' + Unadopted(u)' <= Load(u) + Unadopted(u)
             /\ Unadopted(u)' <= Unadopted(u)
             /\ Alive(u)' + Unlaunched(u)' <= Alive(u) + Unlaunched(u)
  BY <1>1, <1>2, CountsTyped
<1>8. Snapshot'  BY <1>1, <1>7, SnapshotKept
<1>9. NoMore  BY <1>7 DEF NoMore
<1> QED BY <1>3, <1>4, <1>5, <1>6, <1>8, <1>9 DEF Inv

Moved(t, s) == [launch EXCEPT ![t].stage = s]

(* A launch that moves on keeps its place in the loop. *)
LEMMA Staged ==
  ASSUME TypeOK, NEW t \in Targets,
         NEW s \in {"starting", "created", "tracked", "failed", "settled"},
         launch' = Moved(t, s)
  PROVE  /\ launch' \in [Targets -> Launch]
         /\ launch'[t].remaining = launch[t].remaining /\ launch'[t].stage = s
         /\ launch'[t] # Idle
         /\ \A u \in Targets \ {t} : launch'[u] = launch[u]
<1>1. launch \in [Targets -> Launch] /\ launch[t] \in Launch  BY DEF TypeOK
<1>2. /\ [launch[t] EXCEPT !.stage = s] \in Launch
      /\ [launch[t] EXCEPT !.stage = s].remaining = launch[t].remaining
      /\ [launch[t] EXCEPT !.stage = s].stage = s
  BY <1>1 DEF Launch
<1>3. launch'[t] = [launch[t] EXCEPT !.stage = s]  BY <1>1 DEF Moved
<1>4. /\ launch' \in [Targets -> Launch]
      /\ \A u \in Targets \ {t} : launch'[u] = launch[u]
  BY <1>1, <1>2 DEF Moved
<1>5. launch'[t] # Idle  BY <1>2, <1>3 DEF Idle
<1> QED BY <1>2, <1>3, <1>4, <1>5

(* A recovered container passes from one count to the other. *)
LEMMA RecoverSafe ==
  ASSUME Inv, NEW t \in Targets, Recover(t)
  PROVE  Inv' /\ NoMore
<1>1. /\ TypeOK /\ Scalers /\ Joined /\ Counting /\ Sane(t)
      /\ runners[t] \in Nat /\ gone[t] \in Nat /\ recovered[t] \in Nat
      /\ adopted[t] \in Nat /\ leftover[t] \in Nat
      /\ launch[t] \in Launch /\ launch[t].remaining \in Nat
  BY CountsTyped DEF Inv, Scalers, Launch
<1>2. UNCHANGED <<controller, status, gone, recovered, launch, leftover>>
  BY DEF Recover
<1>3. /\ status[t] = "starting" /\ adopted[t] < recovered[t] /\ t \in DOMAIN members
      /\ adopted' = [adopted EXCEPT ![t] = adopted[t] + 1]
      /\ runners' = [runners EXCEPT ![t] = runners[t] + 1] \/ runners' = runners
  BY <1>1 DEF Recover, Joined, TypeOK
<1>4. TypeOK'  BY <1>1, <1>2, <1>3 DEF TypeOK, controller
<1>5. UNCHANGED <<controller, status>> /\ \A u \in Targets \ {t} : Same(u)
  BY <1>1, <1>2, <1>3 DEF Same, TypeOK
<1>6. /\ Created(t)' = Created(t) /\ Unlaunched(t)' = Unlaunched(t)
      /\ Unsettled(t)' = Unsettled(t)
  BY <1>2 DEF Created, Unlaunched, Unsettled
<1>7. Sane(t)'  BY <1>1, <1>2, <1>3 DEF Sane, Present, TypeOK
<1>8. /\ Created(t) \in Nat /\ Unlaunched(t) \in Int /\ Unadopted(t) = recovered[t] - adopted[t]
      /\ Unadopted(t)' = recovered'[t] - adopted'[t]
  BY CountsTyped, <1>1 DEF Unadopted
<1>9. /\ Unadopted(t)' <= Unadopted(t)
      /\ Load(t)' + Unadopted(t)' <= Load(t) + Unadopted(t)
      /\ Alive(t)' + Unlaunched(t)' <= Alive(t) + Unlaunched(t)
  BY <1>1, <1>2, <1>3, <1>6, <1>8 DEF Load, Alive, TypeOK, Sane, Present
<1> QED BY <1>1, <1>2, <1>3, <1>4, <1>5, <1>6, <1>7, <1>9, WorkerStep DEF TypeOK

(* What is forgotten has been adopted. *)
LEMMA ForgetRecoveredSafe ==
  ASSUME Inv, NEW t \in Targets, ForgetRecovered(t)
  PROVE  Inv' /\ NoMore
<1>1. /\ TypeOK /\ Scalers /\ Joined /\ Counting /\ Sane(t)
      /\ runners[t] \in Nat /\ gone[t] \in Nat /\ recovered[t] \in Nat
      /\ adopted[t] \in Nat /\ leftover[t] \in Nat
      /\ launch[t] \in Launch /\ launch[t].remaining \in Nat
  BY CountsTyped DEF Inv, Scalers, Launch
<1>2. UNCHANGED <<controller, status, runners, gone, launch, leftover>>
  BY DEF ForgetRecovered
<1>3. /\ status[t] = "serving"
      /\ recovered' = [recovered EXCEPT ![t] = 0] /\ adopted' = [adopted EXCEPT ![t] = 0]
  BY DEF ForgetRecovered
<1>4. TypeOK'  BY <1>1, <1>2, <1>3 DEF TypeOK, controller
<1>5. UNCHANGED <<controller, status>> /\ \A u \in Targets \ {t} : Same(u)
  BY <1>1, <1>2, <1>3 DEF Same, TypeOK
<1>6. /\ Created(t)' = Created(t) /\ Unlaunched(t)' = Unlaunched(t)
      /\ Unsettled(t)' = Unsettled(t)
  BY <1>2 DEF Created, Unlaunched, Unsettled
<1>7. Sane(t)'  BY <1>1, <1>2, <1>3 DEF Sane, Present, TypeOK
<1>8. /\ Created(t) \in Nat /\ Unlaunched(t) \in Int /\ Unadopted(t) = recovered[t] - adopted[t]
      /\ Unadopted(t)' = recovered'[t] - adopted'[t]
  BY CountsTyped, <1>1 DEF Unadopted
<1>9. /\ Unadopted(t)' <= Unadopted(t)
      /\ Load(t)' + Unadopted(t)' <= Load(t) + Unadopted(t)
      /\ Alive(t)' + Unlaunched(t)' <= Alive(t) + Unlaunched(t)
  BY <1>1, <1>2, <1>3, <1>6, <1>8 DEF Load, Alive, TypeOK, Sane, Present
<1> QED BY <1>1, <1>2, <1>3, <1>4, <1>5, <1>6, <1>7, <1>9, WorkerStep DEF TypeOK

(* A container that exits is counted until its record is removed. *)
LEMMA ContainerExitsSafe ==
  ASSUME Inv, NEW t \in Targets, ContainerExits(t)
  PROVE  Inv' /\ NoMore
<1>1. /\ TypeOK /\ Scalers /\ Joined /\ Counting /\ Sane(t)
      /\ runners[t] \in Nat /\ gone[t] \in Nat /\ recovered[t] \in Nat
      /\ adopted[t] \in Nat /\ leftover[t] \in Nat
      /\ launch[t] \in Launch /\ launch[t].remaining \in Nat
  BY CountsTyped DEF Inv, Scalers, Launch
<1>2. UNCHANGED <<controller, status, runners, recovered, adopted, launch, leftover>>
  BY DEF ContainerExits
<1>3. /\ status[t] \in {"serving", "closing"} /\ gone[t] < runners[t]
      /\ gone' = [gone EXCEPT ![t] = gone[t] + 1]
  BY DEF ContainerExits, TypeOK
<1>4. TypeOK'  BY <1>1, <1>2, <1>3 DEF TypeOK, controller
<1>5. UNCHANGED <<controller, status>> /\ \A u \in Targets \ {t} : Same(u)
  BY <1>1, <1>2, <1>3 DEF Same, TypeOK
<1>6. /\ Created(t)' = Created(t) /\ Unlaunched(t)' = Unlaunched(t)
      /\ Unsettled(t)' = Unsettled(t)
  BY <1>2 DEF Created, Unlaunched, Unsettled
<1>7. Sane(t)'  BY <1>1, <1>2, <1>3 DEF Sane, Present, TypeOK
<1>8. /\ Created(t) \in Nat /\ Unlaunched(t) \in Int /\ Unadopted(t) = recovered[t] - adopted[t]
      /\ Unadopted(t)' = recovered'[t] - adopted'[t]
  BY CountsTyped, <1>1 DEF Unadopted
<1>9. /\ Unadopted(t)' <= Unadopted(t)
      /\ Load(t)' + Unadopted(t)' <= Load(t) + Unadopted(t)
      /\ Alive(t)' + Unlaunched(t)' <= Alive(t) + Unlaunched(t)
  BY <1>1, <1>2, <1>3, <1>6, <1>8 DEF Load, Alive, TypeOK, Sane, Present
<1> QED BY <1>1, <1>2, <1>3, <1>4, <1>5, <1>6, <1>7, <1>9, WorkerStep DEF TypeOK

(* A container nobody tracks exits. *)
LEMMA LeftoverExitsSafe ==
  ASSUME Inv, NEW t \in Targets, LeftoverExits(t)
  PROVE  Inv' /\ NoMore
<1>1. /\ TypeOK /\ Scalers /\ Joined /\ Counting /\ Sane(t)
      /\ runners[t] \in Nat /\ gone[t] \in Nat /\ recovered[t] \in Nat
      /\ adopted[t] \in Nat /\ leftover[t] \in Nat
      /\ launch[t] \in Launch /\ launch[t].remaining \in Nat
  BY CountsTyped DEF Inv, Scalers, Launch
<1>2. UNCHANGED <<controller, status, runners, gone, recovered, adopted, launch>>
  BY DEF LeftoverExits
<1>3. leftover[t] > 0 /\ leftover' = [leftover EXCEPT ![t] = leftover[t] - 1]
  BY DEF LeftoverExits, TypeOK
<1>4. TypeOK'  BY <1>1, <1>2, <1>3 DEF TypeOK, controller
<1>5. UNCHANGED <<controller, status>> /\ \A u \in Targets \ {t} : Same(u)
  BY <1>1, <1>2, <1>3 DEF Same, TypeOK
<1>6. /\ Created(t)' = Created(t) /\ Unlaunched(t)' = Unlaunched(t)
      /\ Unsettled(t)' = Unsettled(t)
  BY <1>2 DEF Created, Unlaunched, Unsettled
<1>7. Sane(t)'  BY <1>1, <1>2, <1>3 DEF Sane, Present, TypeOK
<1>8. /\ Created(t) \in Nat /\ Unlaunched(t) \in Int /\ Unadopted(t) = recovered[t] - adopted[t]
      /\ Unadopted(t)' = recovered'[t] - adopted'[t]
  BY CountsTyped, <1>1 DEF Unadopted
<1>9. /\ Unadopted(t)' <= Unadopted(t)
      /\ Load(t)' + Unadopted(t)' <= Load(t) + Unadopted(t)
      /\ Alive(t)' + Unlaunched(t)' <= Alive(t) + Unlaunched(t)
  BY <1>1, <1>2, <1>3, <1>6, <1>8 DEF Load, Alive, TypeOK, Sane, Present
<1> QED BY <1>1, <1>2, <1>3, <1>4, <1>5, <1>6, <1>7, <1>9, WorkerStep DEF TypeOK

(* The record of a worker that is gone is removed. *)
LEMMA RemoveRecordSafe ==
  ASSUME Inv, NEW t \in Targets, RemoveRecord(t)
  PROVE  Inv' /\ NoMore
<1>1. /\ TypeOK /\ Scalers /\ Joined /\ Counting /\ Sane(t)
      /\ runners[t] \in Nat /\ gone[t] \in Nat /\ recovered[t] \in Nat
      /\ adopted[t] \in Nat /\ leftover[t] \in Nat
      /\ launch[t] \in Launch /\ launch[t].remaining \in Nat
  BY CountsTyped DEF Inv, Scalers, Launch
<1>2. UNCHANGED <<controller, status, recovered, adopted, launch, leftover>>
  BY DEF RemoveRecord
<1>3. /\ status[t] \in {"serving", "closing"} /\ gone[t] > 0 /\ t \in DOMAIN members
      /\ runners' = [runners EXCEPT ![t] = runners[t] - 1]
      /\ gone' = [gone EXCEPT ![t] = gone[t] - 1]
  BY <1>1 DEF RemoveRecord, TypeOK, Joined
<1>4. TypeOK'  BY <1>1, <1>2, <1>3 DEF TypeOK, controller, Sane
<1>5. UNCHANGED <<controller, status>> /\ \A u \in Targets \ {t} : Same(u)
  BY <1>1, <1>2, <1>3 DEF Same, TypeOK
<1>6. /\ Created(t)' = Created(t) /\ Unlaunched(t)' = Unlaunched(t)
      /\ Unsettled(t)' = Unsettled(t)
  BY <1>2 DEF Created, Unlaunched, Unsettled
<1>7. Sane(t)'  BY <1>1, <1>2, <1>3 DEF Sane, Present, TypeOK
<1>8. /\ Created(t) \in Nat /\ Unlaunched(t) \in Int /\ Unadopted(t) = recovered[t] - adopted[t]
      /\ Unadopted(t)' = recovered'[t] - adopted'[t]
  BY CountsTyped, <1>1 DEF Unadopted
<1>9. /\ Unadopted(t)' <= Unadopted(t)
      /\ Load(t)' + Unadopted(t)' <= Load(t) + Unadopted(t)
      /\ Alive(t)' + Unlaunched(t)' <= Alive(t) + Unlaunched(t)
  BY <1>1, <1>2, <1>3, <1>6, <1>8 DEF Load, Alive, TypeOK, Sane, Present
<1> QED BY <1>1, <1>2, <1>3, <1>4, <1>5, <1>6, <1>7, <1>9, WorkerStep DEF TypeOK

(* A launch that was admitted becomes a container. *)
LEMMA StartContainerSafe ==
  ASSUME Inv, NEW t \in Targets, StartContainer(t)
  PROVE  Inv' /\ NoMore
<1>1. /\ TypeOK /\ Scalers /\ Joined /\ Counting /\ Sane(t)
      /\ runners[t] \in Nat /\ gone[t] \in Nat /\ recovered[t] \in Nat
      /\ adopted[t] \in Nat /\ leftover[t] \in Nat
      /\ launch[t] \in Launch /\ launch[t].remaining \in Nat
  BY CountsTyped DEF Inv, Scalers, Launch
<1>2. UNCHANGED <<controller, status, runners, gone, recovered, adopted, leftover>>
  BY DEF StartContainer
<1>a. launch' = Moved(t, "created")  BY DEF StartContainer, Moved
<1>3. /\ launch[t].stage = "starting" /\ launch[t] # Idle
      /\ launch' \in [Targets -> Launch] /\ launch'[t] # Idle
      /\ launch'[t].remaining = launch[t].remaining /\ launch'[t].stage = "created"
      /\ \A u \in Targets \ {t} : launch'[u] = launch[u]
  BY <1>1, <1>a, Staged DEF StartContainer, Idle
<1>4. TypeOK'  BY <1>1, <1>2, <1>3 DEF TypeOK, controller, Launch
<1>5. UNCHANGED <<controller, status>> /\ \A u \in Targets \ {t} : Same(u)
  BY <1>1, <1>2, <1>3 DEF Same, TypeOK
<1>6. /\ Created(t)' = 1 /\ Unlaunched(t)' = launch[t].remaining - 1
      /\ Created(t) = 0 /\ Unlaunched(t) = launch[t].remaining
      /\ Unsettled(t)' = Unsettled(t)
  BY <1>1, <1>2, <1>3 DEF Created, Unlaunched, Unsettled, TypeOK, Launch
<1>7. Sane(t)'  BY <1>1, <1>2, <1>3 DEF Sane, Present, TypeOK, Launch, Idle
<1>8. /\ Created(t) \in Nat /\ Unlaunched(t) \in Int /\ Unadopted(t) = recovered[t] - adopted[t]
      /\ Unadopted(t)' = recovered'[t] - adopted'[t]
  BY CountsTyped, <1>1 DEF Unadopted
<1>9. /\ Unadopted(t)' <= Unadopted(t)
      /\ Load(t)' + Unadopted(t)' <= Load(t) + Unadopted(t)
      /\ Alive(t)' + Unlaunched(t)' <= Alive(t) + Unlaunched(t)
  BY <1>1, <1>2, <1>3, <1>6, <1>8 DEF Load, Alive, TypeOK, Sane, Present
<1> QED BY <1>1, <1>2, <1>3, <1>4, <1>5, <1>6, <1>7, <1>9, WorkerStep DEF TypeOK

(* A worker that is tracked is no longer a launch, but still in flight. *)
LEMMA TrackSafe ==
  ASSUME Inv, NEW t \in Targets, Track(t)
  PROVE  Inv' /\ NoMore
<1>1. /\ TypeOK /\ Scalers /\ Joined /\ Counting /\ Sane(t)
      /\ runners[t] \in Nat /\ gone[t] \in Nat /\ recovered[t] \in Nat
      /\ adopted[t] \in Nat /\ leftover[t] \in Nat
      /\ launch[t] \in Launch /\ launch[t].remaining \in Nat
  BY CountsTyped DEF Inv, Scalers, Launch
<1>2. UNCHANGED <<controller, status, gone, recovered, adopted, leftover>>
  BY DEF Track
<1>a. launch' = Moved(t, "tracked")  BY DEF Track, Moved
<1>b. launch[t].stage = "created" /\ launch[t] # Idle  BY DEF Track, Idle
<1>c. /\ runners' = [runners EXCEPT ![t] = runners[t] + 1]
      /\ t \in DOMAIN members
  BY <1>1, <1>b DEF Track, Sane, Present, Joined
<1>3. /\ launch[t].stage = "created" /\ launch[t] # Idle
      /\ launch' \in [Targets -> Launch] /\ launch'[t] # Idle
      /\ launch'[t].remaining = launch[t].remaining /\ launch'[t].stage = "tracked"
      /\ \A u \in Targets \ {t} : launch'[u] = launch[u]
      /\ runners' = [runners EXCEPT ![t] = runners[t] + 1] /\ t \in DOMAIN members
  BY <1>1, <1>a, <1>b, <1>c, Staged
<1>4. TypeOK'  BY <1>1, <1>2, <1>3 DEF TypeOK, controller, Launch
<1>5. UNCHANGED <<controller, status>> /\ \A u \in Targets \ {t} : Same(u)
  BY <1>1, <1>2, <1>3 DEF Same, TypeOK
<1>6. /\ Created(t)' = 0 /\ Unlaunched(t)' = launch[t].remaining - 1
      /\ Created(t) = 1 /\ Unlaunched(t) = launch[t].remaining - 1
      /\ Unsettled(t)' = Unsettled(t)
  BY <1>1, <1>2, <1>3 DEF Created, Unlaunched, Unsettled, TypeOK, Launch
<1>7. Sane(t)'  BY <1>1, <1>2, <1>3 DEF Sane, Present, TypeOK, Launch, Idle
<1>8. /\ Created(t) \in Nat /\ Unlaunched(t) \in Int /\ Unadopted(t) = recovered[t] - adopted[t]
      /\ Unadopted(t)' = recovered'[t] - adopted'[t]
  BY CountsTyped, <1>1 DEF Unadopted
<1>9. /\ Unadopted(t)' <= Unadopted(t)
      /\ Load(t)' + Unadopted(t)' <= Load(t) + Unadopted(t)
      /\ Alive(t)' + Unlaunched(t)' <= Alive(t) + Unlaunched(t)
  BY <1>1, <1>2, <1>3, <1>6, <1>8 DEF Load, Alive, TypeOK, Sane, Present
<1> QED BY <1>1, <1>2, <1>3, <1>4, <1>5, <1>6, <1>7, <1>9, WorkerStep DEF TypeOK

(* A launch that fails leaves at most the container it had. *)
LEMMA FailLaunchSafe ==
  ASSUME Inv, NEW t \in Targets, FailLaunch(t)
  PROVE  Inv' /\ NoMore
<1>1. /\ TypeOK /\ Scalers /\ Joined /\ Counting /\ Sane(t)
      /\ runners[t] \in Nat /\ gone[t] \in Nat /\ recovered[t] \in Nat
      /\ adopted[t] \in Nat /\ leftover[t] \in Nat
      /\ launch[t] \in Launch /\ launch[t].remaining \in Nat
  BY CountsTyped DEF Inv, Scalers, Launch
<1>2. UNCHANGED <<controller, status, runners, gone, recovered, adopted>>
  BY DEF FailLaunch
<1>a. launch' = Moved(t, "failed")  BY DEF FailLaunch, Moved
<1>b. launch[t].stage \in {"starting", "created"} /\ launch[t] # Idle  BY DEF FailLaunch, Idle
<1>3. /\ launch' \in [Targets -> Launch] /\ launch'[t] # Idle
      /\ launch'[t].remaining = launch[t].remaining /\ launch'[t].stage = "failed"
      /\ \A u \in Targets \ {t} : launch'[u] = launch[u]
  BY <1>1, <1>a, Staged
<1>c. /\ leftover' \in [Targets -> Nat]
      /\ \A u \in Targets \ {t} : leftover'[u] = leftover[u]
      /\ \/ leftover'[t] = leftover[t]
         \/ launch[t].stage = "created" /\ leftover'[t] = leftover[t] + 1
  BY <1>1 DEF FailLaunch, TypeOK
<1>4. TypeOK'  BY <1>1, <1>2, <1>3, <1>c DEF TypeOK, controller
<1>5. \A u \in Targets \ {t} : Same(u)
  BY <1>1, <1>2, <1>3, <1>c DEF Same
<1>6. /\ Created(t)' = 0 /\ Unlaunched(t)' = 0 /\ Unsettled(t)' = Unsettled(t)
      /\ Created(t) = (IF launch[t].stage = "created" THEN 1 ELSE 0)
      /\ Unlaunched(t) >= 0
  <2>1. launch[t].remaining # 0  BY <1>1, <1>b DEF Sane
  <2> QED BY <1>1, <1>3, <1>b, <2>1 DEF Created, Unlaunched, Unsettled
<1>7. Sane(t)'
  <2>1. launch'[t].remaining # 0  BY <1>1, <1>b, <1>3 DEF Sane
  <2> QED BY <1>1, <1>2, <1>3, <1>b, <2>1 DEF Sane, Present
<1>8. Unlaunched(t) \in Int /\ Unadopted(t) \in Int /\ Unadopted(t)' = Unadopted(t)
  BY CountsTyped, <1>1, <1>2 DEF Unadopted
<1>9. /\ Load(t)' + Unadopted(t)' <= Load(t) + Unadopted(t)
      /\ Alive(t)' + Unlaunched(t)' <= Alive(t) + Unlaunched(t)
  <2>1. leftover'[t] <= leftover[t] + Created(t) /\ leftover'[t] \in Nat /\ Created(t) \in Nat
    BY <1>1, <1>c, <1>6
  <2> QED BY <1>1, <1>2, <1>6, <1>8, <2>1 DEF Load, Alive
<1> QED BY <1>1, <1>2, <1>3, <1>4, <1>5, <1>6, <1>7, <1>8, <1>9, <1>b, WorkerStep

-----------------------------------------------------------------------------
(* Steps of the manager that only change what a target's controller does.    *)

(* Such a step makes no worker. *)
LEMMA StatusStep ==
  ASSUME Inv, UNCHANGED <<controller, runners, gone, recovered, adopted, launch, leftover>>,
         status' \in [Targets -> {"absent", "starting", "serving", "closing", "left"}],
         Scalers', Joined', Counting'
  PROVE  Inv' /\ NoMore
<1>1. TypeOK /\ InFlightSettled /\ Snapshot /\ UNCHANGED <<members, reserving>>
  BY DEF Inv, controller
<1>2. TypeOK'  BY <1>1 DEF TypeOK, controller
<1>3. ASSUME NEW t \in Targets
      PROVE  /\ Unsettled(t)' = Unsettled(t) /\ Load(t)' = Load(t)
             /\ Unadopted(t)' = Unadopted(t) /\ Alive(t)' = Alive(t)
             /\ Unlaunched(t)' = Unlaunched(t)
  <2>1. Same(t)  BY DEF Same
  <2> QED BY <2>1, SameCounts
<1>4. InFlightSettled'  BY <1>1, <1>3 DEF InFlightSettled, Joined
<1>5. ASSUME NEW t \in Targets
      PROVE  /\ Load(t)' + Unadopted(t)' <= Load(t) + Unadopted(t)
             /\ Unadopted(t)' <= Unadopted(t)
             /\ Alive(t)' + Unlaunched(t)' <= Alive(t) + Unlaunched(t)
  BY <1>1, <1>3, CountsTyped
<1>6. Snapshot'  BY <1>1, <1>2, <1>5, SnapshotKept
<1> QED BY <1>2, <1>4, <1>5, <1>6 DEF Inv, NoMore

(* A start that fails leaves the scaler a member with what it adopted. *)
LEMMA StartFailsSafe ==
  ASSUME Inv, NEW t \in Targets, StartFails(t)
  PROVE  Inv' /\ NoMore
<1>1. /\ TypeOK /\ Scalers /\ Joined /\ Counting
      /\ UNCHANGED <<members, reserving, runners, gone, recovered, adopted, launch, leftover>>
      /\ UNCHANGED controller
  BY DEF Inv, StartFails, controller
<1>2. /\ status[t] = "starting" /\ status'[t] = "absent"
      /\ status' \in [Targets -> {"absent", "starting", "serving", "closing", "left"}]
      /\ \A u \in Targets \ {t} : status'[u] = status[u]
  BY <1>1 DEF StartFails, TypeOK
<1>3. Scalers'  BY <1>1, <1>2 DEF Scalers, Sane, Present
<1>4. Joined'  BY <1>1, <1>2 DEF Joined, Mutex
<1>5. Counting'  BY <1>1, <1>2 DEF Counting, Mutex, Present
<1> QED BY <1>1, <1>2, <1>3, <1>4, <1>5, StatusStep

(* A controller serves when everything recovered for it is adopted. *)
LEMMA RunControllerSafe ==
  ASSUME Inv, NEW t \in Targets, RunController(t)
  PROVE  Inv' /\ NoMore
<1>1. /\ TypeOK /\ Scalers /\ Joined /\ Counting
      /\ UNCHANGED <<members, reserving, runners, gone, recovered, adopted, launch, leftover>>
      /\ UNCHANGED controller
  BY DEF Inv, RunController, controller
<1>2. /\ status[t] = "starting" /\ status'[t] = "serving" /\ adopted[t] = recovered[t]
      /\ status' \in [Targets -> {"absent", "starting", "serving", "closing", "left"}]
      /\ \A u \in Targets \ {t} : status'[u] = status[u]
  BY <1>1 DEF RunController, TypeOK
<1>3. Scalers'  BY <1>1, <1>2 DEF Scalers, Sane, Present
<1>4. Joined'  BY <1>1, <1>2 DEF Joined, Mutex
<1>5. Counting'  BY <1>1, <1>2 DEF Counting, Mutex, Present
<1> QED BY <1>1, <1>2, <1>3, <1>4, <1>5, StatusStep

(* A full stop begins when no controller is starting. *)
LEMMA FullStopSafe ==
  ASSUME Inv, FullStop
  PROVE  Inv' /\ NoMore
<1>1. /\ TypeOK /\ Scalers /\ Joined /\ Counting
      /\ UNCHANGED <<members, reserving, runners, gone, recovered, adopted, launch, leftover>>
      /\ UNCHANGED controller
  BY DEF Inv, FullStop, controller
<1>2. /\ \A t \in Targets : status[t] # "starting"
      /\ \A t \in Targets : status'[t] = IF status[t] = "serving" THEN "closing" ELSE status[t]
  BY DEF FullStop, ManagerFree
<1>3. status' \in [Targets -> {"absent", "starting", "serving", "closing", "left"}]
  BY <1>1 DEF FullStop, TypeOK
<1>4. Scalers'
  <2>1. \A t \in Targets : /\ Present(t)' = Present(t)
                           /\ status'[t] \in {"absent", "starting"} =>
                                status[t] \in {"absent", "starting"}
    BY <1>2 DEF Present
  <2> QED BY <1>1, <2>1 DEF Scalers, Sane
<1>5. Joined'  BY <1>1, <1>2 DEF Joined, Mutex
<1>6. Counting'  BY <1>1, <1>2 DEF Counting, Mutex, Present
<1> QED BY <1>1, <1>3, <1>4, <1>5, <1>6, StatusStep

-----------------------------------------------------------------------------
(* Settlements.                                                              *)

(* settle changes the in-flight count of one member. *)
LEMMA SettleMember ==
  ASSUME TypeOK, NEW t \in DOMAIN members, NEW n \in Nat, Settle(t, n)
  PROVE  /\ DOMAIN members' = DOMAIN members
         /\ members' \in [DOMAIN members -> Member]
         /\ members'[t].inFlight = Larger(members[t].inFlight - n, 0)
         /\ \A k \in DOMAIN members \ {t} : members'[k] = members[k]
<1> DEFINE left == Larger(members[t].inFlight - n, 0)
           settled == [members[t] EXCEPT !.inFlight = left]
<1>1. members \in [DOMAIN members -> Member] /\ members[t] \in Member
  BY DEF TypeOK
<1>2. left \in Nat  BY <1>1 DEF Larger, Member
<1>3. settled \in Member /\ settled.inFlight = left  BY <1>1, <1>2 DEF Member
<1>4. members' = [members EXCEPT ![t] = settled]  BY <1>1 DEF Settle
<1> HIDE DEF left, settled
<1>5. /\ DOMAIN members' = DOMAIN members
      /\ members' \in [DOMAIN members -> Member]
      /\ members'[t] = settled
      /\ \A k \in DOMAIN members \ {t} : members'[k] = members[k]
  BY <1>1, <1>3, <1>4
<1> QED BY <1>3, <1>5 DEF left

(* A settlement takes as much off the in-flight count as off the loop. *)
LEMMA SettleStep ==
  ASSUME Inv, Mutex, NEW t \in Targets, NEW n \in Nat, Settle(t, n), launch[t] # Idle,
         UNCHANGED <<rotation, reserving, status, runners, gone, recovered, adopted, leftover>>,
         launch' \in [Targets -> Launch],
         \A u \in Targets \ {t} : launch'[u] = launch[u],
         launch'[t].remaining = 0 <=> launch'[t] = Idle,
         n <= Unsettled(t), Unsettled(t)' = Unsettled(t) - n,
         Created(t)' + Unlaunched(t)' <= Created(t) + Unlaunched(t)
  PROVE  Inv' /\ NoMore
<1>1. TypeOK /\ Scalers /\ Joined /\ Counting /\ InFlightSettled  BY DEF Inv
<1>2. t \in DOMAIN members /\ Present(t)  BY <1>1 DEF Scalers, Sane, Joined, Present
<1>3. /\ DOMAIN members' = DOMAIN members
      /\ members' \in [DOMAIN members -> Member]
      /\ members'[t].inFlight = Larger(members[t].inFlight - n, 0)
      /\ \A k \in DOMAIN members \ {t} : members'[k] = members[k]
  BY <1>1, <1>2, SettleMember
<1>4. TypeOK'  BY <1>1, <1>3 DEF TypeOK
<1>5. ASSUME NEW u \in Targets, u # t
      PROVE  /\ Unsettled(u)' = Unsettled(u) /\ Alive(u)' = Alive(u)
             /\ Unlaunched(u)' = Unlaunched(u)
  <2>1. Same(u)  BY <1>5 DEF Same
  <2> QED BY <2>1, SameCounts
<1>6. Scalers'
  <2> SUFFICES ASSUME NEW u \in Targets PROVE Sane(u)'  BY DEF Scalers
  <2>1. Sane(u)  BY <1>1 DEF Scalers
  <2>2. CASE u = t  BY <1>2, <2>1, <2>2 DEF Sane, Present
  <2>3. CASE u # t  BY <2>1, <2>3 DEF Sane, Present
  <2> QED BY <2>2, <2>3
<1>7. Joined'  BY <1>1, <1>3 DEF Joined, Mutex
<1>8. Counting'  BY DEF Counting, Mutex
<1>9. InFlightSettled'
  <2>1. Unsettled(t) \in Int  BY <1>1, CountsTyped
  <2>2. members'[t].inFlight = IF Ceiling > 0 THEN Unsettled(t)' ELSE 0
    BY <1>1, <1>2, <1>3, <2>1 DEF InFlightSettled, Larger
  <2> QED BY <1>1, <1>3, <1>5, <2>2 DEF InFlightSettled
<1>10. Snapshot'  BY DEF Mutex, Unlocked, Snapshot, NoCounts
<1>11. Alive(t)' + Unlaunched(t)' <= Alive(t) + Unlaunched(t)
  <2>1. /\ Created(t) \in Nat /\ Unlaunched(t) \in Int /\ Created(t)' \in Nat
        /\ Unlaunched(t)' \in Int
    BY <1>1, <1>4, CountsTyped, CountsTypedNext
  <2>2. /\ runners[t] \in Nat /\ gone[t] \in Nat /\ recovered[t] \in Nat
        /\ adopted[t] \in Nat /\ leftover[t] \in Nat
    BY <1>1, CountsTyped
  <2> QED BY <2>1, <2>2 DEF Alive
<1>12. NoMore
  <2> SUFFICES ASSUME NEW u \in Targets
               PROVE  Alive(u)' + Unlaunched(u)' <= Alive(u) + Unlaunched(u)
    BY DEF NoMore
  <2>1. Alive(u) \in Int /\ Unlaunched(u) \in Int  BY <1>1, CountsTyped
  <2> QED BY <1>5, <1>11, <2>1
<1> QED BY <1>4, <1>6, <1>7, <1>8, <1>9, <1>10, <1>12 DEF Inv

(* The launch that succeeded is settled, and the loop goes on. *)
LEMMA SettleLaunchSafe ==
  ASSUME Inv, NEW t \in Targets, SettleLaunch(t)
  PROVE  Inv' /\ NoMore
<1> DEFINE next == IF launch[t].remaining - 1 = 0 THEN Idle
                   ELSE [remaining |-> launch[t].remaining - 1, stage |-> "starting"]
<1>1. /\ launch \in [Targets -> Launch] /\ launch[t] \in Launch
      /\ launch[t].stage = "tracked" /\ launch[t] # Idle /\ Sane(t)
  BY DEF Inv, TypeOK, Scalers, SettleLaunch, Idle
<1>2. launch[t].remaining \in Nat /\ launch[t].remaining # 0  BY <1>1 DEF Launch, Sane
<1>3. next \in Launch /\ next.remaining = launch[t].remaining - 1
  BY <1>2 DEF Launch, Idle
<1>4. next.remaining = 0 <=> next = Idle  BY <1>2 DEF Idle
<1>5. next.stage = IF next.remaining = 0 THEN "idle" ELSE "starting"
  BY <1>2 DEF Idle
<1>6. launch' = [launch EXCEPT ![t] = next]  BY DEF SettleLaunch, Relaunch
<1> HIDE DEF next
<1>7. /\ launch' \in [Targets -> Launch] /\ launch'[t] = next
      /\ \A u \in Targets \ {t} : launch'[u] = launch[u]
  BY <1>1, <1>3, <1>6
<1>8. /\ 1 <= Unsettled(t) /\ Unsettled(t)' = Unsettled(t) - 1
      /\ Created(t)' + Unlaunched(t)' <= Created(t) + Unlaunched(t)
  BY <1>1, <1>2, <1>3, <1>5, <1>7 DEF Unsettled, Created, Unlaunched
<1>9. /\ Mutex /\ Settle(t, 1)
      /\ UNCHANGED <<rotation, reserving, status, runners, gone, recovered, adopted, leftover>>
  BY DEF SettleLaunch
<1> QED BY <1>1, <1>4, <1>7, <1>8, <1>9, SettleStep

(* The first settlement of a failed launch. *)
LEMMA SettleFailedSafe ==
  ASSUME Inv, NEW t \in Targets, SettleFailed(t)
  PROVE  Inv' /\ NoMore
<1>1. /\ TypeOK /\ launch[t] \in Launch
      /\ launch[t].stage = "failed" /\ launch[t] # Idle /\ Sane(t)
  BY DEF Inv, TypeOK, Scalers, SettleFailed, Idle
<1>2. launch[t].remaining \in Nat /\ launch[t].remaining # 0  BY <1>1 DEF Launch, Sane
<1>3. launch' = Moved(t, "settled")  BY DEF SettleFailed, Moved
<1>4. /\ launch' \in [Targets -> Launch]
      /\ launch'[t].remaining = launch[t].remaining /\ launch'[t].stage = "settled"
      /\ launch'[t] # Idle
      /\ \A u \in Targets \ {t} : launch'[u] = launch[u]
  BY <1>1, <1>3, Staged
<1>5. /\ 1 <= Unsettled(t) /\ Unsettled(t)' = Unsettled(t) - 1
      /\ Created(t)' + Unlaunched(t)' <= Created(t) + Unlaunched(t)
  BY <1>1, <1>2, <1>4 DEF Unsettled, Created, Unlaunched
<1>6. /\ Mutex /\ Settle(t, 1)
      /\ UNCHANGED <<rotation, reserving, status, runners, gone, recovered, adopted, leftover>>
  BY DEF SettleFailed
<1> QED BY <1>1, <1>2, <1>4, <1>5, <1>6, SettleStep

(* The second returns every launch that was not attempted. *)
LEMMA SettleRestSafe ==
  ASSUME Inv, NEW t \in Targets, SettleRest(t)
  PROVE  Inv' /\ NoMore
<1>1. /\ launch \in [Targets -> Launch] /\ launch[t] \in Launch
      /\ launch[t].stage = "settled" /\ launch[t] # Idle /\ Sane(t)
  BY DEF Inv, TypeOK, Scalers, SettleRest, Idle
<1>2. launch[t].remaining \in Nat /\ launch[t].remaining # 0  BY <1>1 DEF Launch, Sane
<1>3. Idle \in Launch /\ Idle.remaining = 0 /\ Idle.stage = "idle"  BY DEF Idle, Launch
<1>4. /\ launch' \in [Targets -> Launch] /\ launch'[t] = Idle
      /\ \A u \in Targets \ {t} : launch'[u] = launch[u]
  BY <1>1, <1>3 DEF SettleRest
<1>5. /\ launch[t].remaining - 1 \in Nat
      /\ launch[t].remaining - 1 <= Unsettled(t)
      /\ Unsettled(t)' = Unsettled(t) - (launch[t].remaining - 1)
      /\ Created(t)' + Unlaunched(t)' <= Created(t) + Unlaunched(t)
  BY <1>1, <1>2, <1>3, <1>4 DEF Unsettled, Created, Unlaunched
<1>6. /\ Mutex /\ Settle(t, launch[t].remaining - 1)
      /\ UNCHANGED <<rotation, reserving, status, runners, gone, recovered, adopted, leftover>>
  BY DEF SettleRest
<1> QED BY <1>1, <1>3, <1>4, <1>5, <1>6, SettleStep

-----------------------------------------------------------------------------
(* Joining, leaving and asking, while no reserve call runs.                  *)

(* Steps that leave every launch alone and start no snapshot. *)
LEMMA MemberStep ==
  ASSUME Inv, TypeOK', UNCHANGED launch, reserving'.held = NoCounts,
         Scalers', Joined', Counting',
         \A t \in Targets : t \in DOMAIN members' =>
           \/ t \in DOMAIN members /\ members'[t].inFlight = members[t].inFlight
           \/ launch[t] = Idle /\ members'[t].inFlight = 0
  PROVE  Inv'
<1>1. InFlightSettled /\ TypeOK  BY DEF Inv
<1>2. \A t \in Targets : Unsettled(t)' = Unsettled(t)  BY DEF Unsettled
<1>3. \A t \in Targets : launch[t] = Idle => Unsettled(t) = 0  BY DEF Unsettled, Idle
<1>4. InFlightSettled'  BY <1>1, <1>2, <1>3 DEF InFlightSettled, Joined
<1>5. Snapshot'  BY DEF Snapshot, NoCounts
<1> QED BY <1>4, <1>5 DEF Inv

(* A member whose demand is set keeps its place and its admissions. *)
LEMMA DemandSet ==
  ASSUME TypeOK, NEW t \in DOMAIN members, NEW want \in Nat,
         members' = [members EXCEPT ![t].demand = want]
  PROVE  /\ DOMAIN members' = DOMAIN members
         /\ members' \in [DOMAIN members -> Member]
         /\ \A k \in DOMAIN members : members'[k].inFlight = members[k].inFlight
<1> DEFINE asked == [members[t] EXCEPT !.demand = want]
<1>1. members \in [DOMAIN members -> Member] /\ members[t] \in Member
  BY DEF TypeOK
<1>2. asked \in Member /\ asked.inFlight = members[t].inFlight  BY <1>1 DEF Member
<1>3. members' = [members EXCEPT ![t] = asked]  OBVIOUS
<1> HIDE DEF asked
<1> QED BY <1>1, <1>2, <1>3

(* A new member has no admissions; what a failed start had adopted waits    *)
(* to be adopted again.                                                     *)
LEMMA StartControllerSafe ==
  ASSUME Inv, NEW t \in Targets, StartController(t)
  PROVE  Inv' /\ NoMore
<1>1. /\ TypeOK /\ Scalers /\ Joined /\ Counting /\ Mutex /\ Sane(t)
      /\ status[t] = "absent" /\ \A u \in Targets : status[u] \notin {"closing", "left"}
      /\ UNCHANGED <<rotation, reserving, gone, recovered, launch, leftover>>
  BY DEF Inv, StartController, Scalers
<1>2. /\ gone[t] = 0 /\ runners[t] \in Nat /\ adopted[t] \in Nat /\ recovered[t] \in Nat
      /\ leftover[t] \in Nat
      /\ runners[t] <= adopted[t] /\ adopted[t] <= recovered[t] /\ launch[t] = Idle
  BY <1>1, CountsTyped DEF Sane, Present
<1>3. /\ status' \in [Targets -> {"absent", "starting", "serving", "closing", "left"}]
      /\ status'[t] = "starting" /\ \A u \in Targets \ {t} : status'[u] = status[u]
  BY <1>1 DEF StartController, TypeOK
<1>4. /\ adopted' \in [Targets -> Nat] /\ adopted'[t] = adopted[t] - runners[t]
      /\ runners' \in [Targets -> Nat] /\ runners'[t] = 0
      /\ \A u \in Targets \ {t} : adopted'[u] = adopted[u] /\ runners'[u] = runners[u]
  BY <1>1, <1>2 DEF StartController, TypeOK
<1>5. /\ DOMAIN members' = DOMAIN members \union {t}
      /\ members' \in [DOMAIN members \union {t} -> Member]
      /\ \A k \in DOMAIN members : members'[k] = members[k]
      /\ t \notin DOMAIN members => members'[t].inFlight = 0
  <2>1. members \in [DOMAIN members -> Member]  BY <1>1 DEF TypeOK
  <2>2. NewMember \in Member /\ NewMember.inFlight = 0  BY DEF NewMember, Member
  <2>3. CASE t \in DOMAIN members
    <3>1. members' = members  BY <2>3 DEF StartController, Join
    <3> QED BY <2>1, <2>3, <3>1
  <2>4. CASE t \notin DOMAIN members
    <3>1. members' = [k \in DOMAIN members \union {t} |->
                        IF k = t THEN NewMember ELSE members[k]]
      BY <2>4 DEF StartController, Join
    <3> QED BY <2>1, <2>2, <2>4, <3>1
  <2> QED BY <2>3, <2>4
<1>6. TypeOK'
  <2>1. DOMAIN members' \subseteq Targets \union {Recovered}  BY <1>1, <1>5 DEF TypeOK
  <2> QED BY <1>1, <1>3, <1>4, <1>5, <2>1 DEF TypeOK
<1>7. Scalers'
  <2> SUFFICES ASSUME NEW u \in Targets PROVE Sane(u)'  BY DEF Scalers
  <2>1. CASE u = t  BY SMTT(30), <1>1, <1>2, <1>3, <1>4, <2>1 DEF Sane, Present
  <2>2. CASE u # t  BY <1>1, <1>3, <1>4, <2>2 DEF Scalers, Sane, Present
  <2> QED BY <2>1, <2>2
<1>8. Joined'
  <2>1. \A u \in Targets : status'[u] \notin {"closing", "left"}  BY <1>1, <1>3
  <2> QED BY <1>1, <1>3, <1>4, <1>5, <2>1 DEF Joined
<1>9. Counting'  BY <1>1 DEF Counting, Mutex
<1>10. reserving'.held = NoCounts  BY <1>1 DEF Mutex, Unlocked
<1>11. NoMore
  <2> SUFFICES ASSUME NEW u \in Targets
               PROVE  Alive(u)' + Unlaunched(u)' <= Alive(u) + Unlaunched(u)
    BY DEF NoMore
  <2>1. /\ Alive(u) \in Int /\ Unlaunched(u) \in Int /\ Created(u) \in Nat
        /\ Unlaunched(u)' = Unlaunched(u) /\ Created(u)' = Created(u)
    BY <1>1, CountsTyped DEF Unlaunched, Created
  <2>2. CASE u = t  BY <1>1, <1>2, <1>4, <2>1, <2>2 DEF Alive
  <2>3. CASE u # t
    <3>1. Same(u)  BY <1>1, <1>4, <2>3 DEF Same
    <3> QED BY <2>1, <3>1, SameCounts
  <2> QED BY <2>2, <2>3
<1> QED BY <1>1, <1>2, <1>5, <1>6, <1>7, <1>8, <1>9, <1>10, <1>11, MemberStep

(* Steps that leave the workers alone make none. *)
LEMMA WorkersKept ==
  ASSUME TypeOK, UNCHANGED <<runners, gone, recovered, adopted, launch, leftover>>
  PROVE  NoMore
<1> SUFFICES ASSUME NEW t \in Targets
             PROVE  Alive(t)' + Unlaunched(t)' <= Alive(t) + Unlaunched(t)
  BY DEF NoMore
<1>1. Same(t)  BY DEF Same
<1>2. Alive(t) \in Int /\ Unlaunched(t) \in Int  BY CountsTyped
<1> QED BY <1>1, <1>2, SameCounts

(* A retired target stays a member without workers and admissions. *)
LEMMA RetireSafe ==
  ASSUME Inv, NEW t \in Targets, Retire(t)
  PROVE  Inv' /\ NoMore
<1>1. /\ TypeOK /\ Scalers /\ Joined /\ Counting /\ Mutex /\ Sane(t)
      /\ status[t] = "serving" /\ launch[t] = Idle /\ runners[t] = 0 /\ recovered[t] = 0
      /\ UNCHANGED <<rotation, reserving, runners, gone, recovered, adopted, launch, leftover>>
  BY DEF Inv, Retire, Scalers, GateFree, ManagerFree
<1>2. gone[t] = 0 /\ adopted[t] = 0  BY <1>1, CountsTyped DEF Sane
<1>3. /\ status' \in [Targets -> {"absent", "starting", "serving", "closing", "left"}]
      /\ status'[t] = "absent" /\ \A u \in Targets \ {t} : status'[u] = status[u]
  BY <1>1 DEF Retire, TypeOK
<1>4. members' = [members EXCEPT ![t].demand = 0] /\ t \in DOMAIN members
  BY <1>1 DEF Retire, Joined
<1>5. /\ DOMAIN members' = DOMAIN members
      /\ members' \in [DOMAIN members -> Member]
      /\ \A k \in DOMAIN members : members'[k].inFlight = members[k].inFlight
  BY <1>1, <1>4, DemandSet
<1>6. TypeOK'  BY <1>1, <1>3, <1>5 DEF TypeOK
<1>7. Scalers'
  <2> SUFFICES ASSUME NEW u \in Targets PROVE Sane(u)'  BY DEF Scalers
  <2>1. CASE u = t  BY <1>1, <1>2, <1>3, <2>1 DEF Sane, Present
  <2>2. CASE u # t  BY <1>1, <1>3, <2>2 DEF Scalers, Sane, Present
  <2> QED BY <2>1, <2>2
<1>8. Joined'  BY <1>1, <1>3, <1>5 DEF Joined, Mutex
<1>9. Counting'  BY <1>1 DEF Counting, Mutex
<1>10. reserving'.held = NoCounts  BY <1>1 DEF Mutex, Unlocked
<1>11. NoMore  BY <1>1, WorkersKept
<1> QED BY <1>1, <1>5, <1>6, <1>7, <1>8, <1>9, <1>10, <1>11, MemberStep

(* A target leaves in a full stop, after which no reserve call begins. *)
LEMMA LeaveSafe ==
  ASSUME Inv, NEW t \in Targets, Leave(t)
  PROVE  Inv' /\ NoMore
<1>1. /\ TypeOK /\ Scalers /\ Joined /\ Counting /\ Mutex /\ Sane(t)
      /\ status[t] = "closing" /\ launch[t] = Idle
      /\ UNCHANGED <<reserving, runners, gone, recovered, adopted, launch, leftover>>
  BY DEF Inv, Leave, Scalers, GateFree
<1>2. /\ status' \in [Targets -> {"absent", "starting", "serving", "closing", "left"}]
      /\ status'[t] = "left" /\ \A u \in Targets \ {t} : status'[u] = status[u]
  BY <1>1 DEF Leave, TypeOK
<1>3. /\ DOMAIN members' = DOMAIN members \ {t}
      /\ members' \in [DOMAIN members \ {t} -> Member]
      /\ \A k \in DOMAIN members \ {t} : members'[k] = members[k]
  BY <1>1 DEF Leave, Restrict, TypeOK
<1>4. rotation' \in Nat  BY <1>1 DEF Leave, TypeOK
<1>5. reserving.held = NoCounts /\ DOMAIN NoCounts = {}
  BY <1>1 DEF Mutex, Unlocked, NoCounts
<1>6. TypeOK'  BY <1>1, <1>2, <1>3, <1>4, <1>5 DEF TypeOK
<1>7. Scalers'
  <2> SUFFICES ASSUME NEW u \in Targets PROVE Sane(u)'  BY DEF Scalers
  <2>1. CASE u = t  BY <1>1, <1>2, <2>1 DEF Sane, Present
  <2>2. CASE u # t  BY <1>1, <1>2, <2>2 DEF Scalers, Sane, Present
  <2> QED BY <2>1, <2>2
<1>8. Joined'
  <2>1. Recovered # t  BY TargetsAssumption DEF Recovered
  <2>2. \A u \in Targets : status'[u] \notin {"starting", "serving"}
    BY <1>1, <1>2 DEF Joined
  <2> QED BY <1>1, <1>2, <1>3, <2>1, <2>2 DEF Joined, Mutex
<1>9. Counting'  BY <1>1 DEF Counting, Mutex
<1>10. NoMore  BY <1>1, WorkersKept
<1> QED BY <1>1, <1>3, <1>5, <1>6, <1>7, <1>8, <1>9, <1>10, MemberStep

(* A scaler that asks launches nothing until it is answered. *)
LEMMA ReconcileSafe ==
  ASSUME Inv, NEW t \in Targets, NEW want \in Wants, Reconcile(t, want)
  PROVE  Inv' /\ NoMore
<1>1. /\ TypeOK /\ Scalers /\ Joined /\ Counting /\ Mutex
      /\ status[t] = "serving" /\ launch[t] = Idle /\ want \in Nat
      /\ UNCHANGED <<rotation, status, runners, gone, recovered, adopted, launch, leftover>>
  BY WantsAssumption DEF Inv, Reconcile, GateFree
<1>2. members' = [members EXCEPT ![t].demand = want] /\ t \in DOMAIN members
  BY <1>1 DEF Reconcile, Joined
<1>3. /\ DOMAIN members' = DOMAIN members
      /\ members' \in [DOMAIN members -> Member]
      /\ \A k \in DOMAIN members : members'[k].inFlight = members[k].inFlight
  BY <1>1, <1>2, DemandSet
<1>4. /\ reserving' = Unlocked \/ (want > 0 /\ reserving'.key = t /\ reserving'.want = want)
      /\ reserving' \in [key : Targets \union {Recovered}, want : Nat, held : {NoCounts}]
      /\ reserving'.held = NoCounts
  BY <1>1 DEF Reconcile, Unlocked
<1>5. DOMAIN NoCounts = {} /\ NoCounts \in [{} -> Nat]  BY DEF NoCounts
<1>6. TypeOK'  BY <1>1, <1>3, <1>4, <1>5 DEF TypeOK
<1>7. Scalers'  BY <1>1 DEF Scalers, Sane, Present
<1>8. Joined'
  <2>1. \A u \in Targets : status[u] # "left"  BY <1>1 DEF Joined
  <2> QED BY <1>1, <1>3, <2>1 DEF Joined
<1>9. Counting'  BY <1>1, <1>4, <1>5 DEF Counting, Mutex, Present
<1>10. NoMore  BY <1>1, WorkersKept
<1> QED BY <1>1, <1>3, <1>4, <1>6, <1>7, <1>8, <1>9, <1>10, MemberStep

-----------------------------------------------------------------------------
(* Restart.                                                                  *)

(* A scaler in its loop has admissions left; a target never runs a negative  *)
(* number of workers.                                                        *)
LEMMA NothingNegative ==
  ASSUME Inv, NEW t \in Targets
  PROVE  /\ Unadopted(t) \in Nat /\ Unlaunched(t) \in Nat /\ Alive(t) \in Nat
         /\ Created(t) + Unlaunched(t) <= Unsettled(t)
<1>1. TypeOK /\ Sane(t)  BY DEF Inv, Scalers
<1>2. /\ runners[t] \in Nat /\ gone[t] \in Nat /\ recovered[t] \in Nat
      /\ adopted[t] \in Nat /\ leftover[t] \in Nat
      /\ launch[t] \in Launch /\ Created(t) \in Nat
      /\ Alive(t) = leftover[t] + Created(t) + (runners[t] - gone[t]) + Unadopted(t)
  BY <1>1, CountsTyped
<1>3. Unadopted(t) \in Nat  BY <1>1, <1>2 DEF Unadopted, Sane
<1>4. Alive(t) \in Nat  BY <1>1, <1>2, <1>3 DEF Sane
<1>5. launch[t].remaining \in Nat /\ (launch[t].stage # "idle" => launch[t].remaining # 0)
  BY <1>1, <1>2 DEF Sane, Launch, Idle
<1>6. Unlaunched(t) \in Nat /\ Created(t) + Unlaunched(t) <= Unsettled(t)
  <2>1. CASE launch[t].stage = "starting"
    BY <1>5, <2>1 DEF Unlaunched, Unsettled, Created
  <2>2. CASE launch[t].stage \in {"created", "tracked"}
    BY <1>5, <2>2 DEF Unlaunched, Unsettled, Created
  <2>3. CASE launch[t].stage \in {"idle", "failed", "settled"}
    <3>1. Unlaunched(t) = 0 /\ Created(t) = 0  BY <2>3 DEF Unlaunched, Created
    <3>2. Unsettled(t) >= 0  BY <1>5, <2>3 DEF Unsettled
    <3> QED BY <3>1, <3>2
  <2> QED BY <1>2, <2>1, <2>2, <2>3 DEF Launch
<1> QED BY <1>3, <1>4, <1>6

(* A new process finds every container that runs. *)
LEMMA RestartSafe ==
  ASSUME Inv, Restart
  PROVE  Inv' /\ NoMore
<1>1. TypeOK /\ \A t \in Targets : Alive(t) \in Nat  BY NothingNegative DEF Inv
<1>2. /\ recovered' = [t \in Targets |-> Alive(t)]
      /\ members' = [k \in {Recovered} |-> NewMember]
      /\ rotation' = 0 /\ reserving' = Unlocked
      /\ status' = [t \in Targets |-> "absent"]
      /\ runners' = [t \in Targets |-> 0] /\ gone' = [t \in Targets |-> 0]
      /\ adopted' = [t \in Targets |-> 0] /\ launch' = [t \in Targets |-> Idle]
      /\ leftover' = [t \in Targets |-> 0]
  BY DEF Restart
<1>3. Idle \in Launch /\ NewMember \in Member /\ NewMember.inFlight = 0
  BY DEF Idle, Launch, NewMember, Member
<1>4. /\ Unlocked.held = NoCounts /\ DOMAIN NoCounts = {} /\ NoCounts \in [{} -> Nat]
      /\ Unlocked \in [key : Targets \union {Recovered}, want : Nat, held : {NoCounts}]
  BY DEF Unlocked, NoCounts
<1>5. TypeOK'
  <2>1. recovered' \in [Targets -> Nat]  BY <1>1, <1>2
  <2>2. members' \in [{Recovered} -> Member] /\ DOMAIN members' = {Recovered}  BY <1>2, <1>3
  <2>3. /\ runners' \in [Targets -> Nat] /\ gone' \in [Targets -> Nat]
        /\ adopted' \in [Targets -> Nat] /\ leftover' \in [Targets -> Nat]
        /\ launch' \in [Targets -> Launch]
        /\ status' \in [Targets -> {"absent", "starting", "serving", "closing", "left"}]
    BY <1>2, <1>3
  <2> QED BY <1>2, <1>4, <2>1, <2>2, <2>3 DEF TypeOK
<1>6. Scalers'  BY <1>1, <1>2 DEF Scalers, Sane, Present, Idle
<1>7. Joined'  BY <1>2 DEF Joined
<1>8. Counting'  BY <1>2 DEF Counting, Mutex
<1>9. Recovered \notin Targets  BY TargetsAssumption DEF Recovered
<1>10. InFlightSettled'  BY <1>2, <1>9 DEF InFlightSettled
<1>11. Snapshot'  BY <1>2, <1>4 DEF Snapshot
<1>12. NoMore
  <2> SUFFICES ASSUME NEW t \in Targets
               PROVE  Alive(t)' + Unlaunched(t)' <= Alive(t) + Unlaunched(t)
    BY DEF NoMore
  <2>1. Unlaunched(t) \in Nat /\ Alive(t) \in Nat  BY NothingNegative
  <2>2. Unlaunched(t)' = 0 /\ Created(t)' = 0  BY <1>2 DEF Unlaunched, Created, Idle
  <2>3. Alive(t)' = Alive(t)
    <3>1. /\ recovered'[t] = Alive(t) /\ runners'[t] = 0 /\ gone'[t] = 0
          /\ adopted'[t] = 0 /\ leftover'[t] = 0
      BY <1>2
    <3>2. Alive(t)' = leftover'[t] + Created(t)' + (runners'[t] - gone'[t])
                        + (recovered'[t] - adopted'[t])
      BY DEF Alive
    <3> QED BY <2>1, <2>2, <3>1, <3>2
  <2> QED BY <2>1, <2>2, <2>3
<1> QED BY <1>5, <1>6, <1>7, <1>8, <1>10, <1>11, <1>12 DEF Inv

-----------------------------------------------------------------------------
(* The counting loop of reserve.                                             *)

(* There are finitely many members, and at least one. *)
LEMMA MembersFinite ==
  ASSUME TypeOK, Recovered \in DOMAIN members
  PROVE  IsFiniteSet(DOMAIN members) /\ Count \in Nat \ {0}
<1>1. IsFiniteSet(Targets) /\ IsFiniteSet({Recovered})  BY TargetsAssumption, FS_Singleton
<1>2. IsFiniteSet(Targets \union {Recovered})  BY <1>1, FS_Union
<1>3. IsFiniteSet(DOMAIN members)  BY <1>2, FS_Subset DEF TypeOK
<1>4. Cardinality(DOMAIN members) \in Nat  BY <1>3, FS_CardinalityType
<1>5. Cardinality(DOMAIN members) # 0  BY <1>3, FS_EmptySet
<1> QED BY <1>3, <1>4, <1>5 DEF Count

(* A member's count is a number, and a target's covers all it may launch. *)
LEMMA HeldCovers ==
  ASSUME Inv, NEW k \in DOMAIN members
  PROVE  /\ HeldCount(k) \in Nat
         /\ k = Recovered => HeldCount(k) >= Total(recovered)
         /\ k \in Targets /\ Ceiling > 0 => HeldCount(k) >= Load(k)
<1>1. TypeOK /\ InFlightSettled /\ members[k].inFlight \in Nat
  BY DEF Inv, TypeOK, Member
<1>2. k \in Targets \/ k = Recovered  BY <1>1 DEF TypeOK
<1>3. Recovered \notin Targets  BY TargetsAssumption DEF Recovered
<1>4. Total(recovered) \in Nat
  <2>1. recovered \in [Targets -> Int] /\ IsFiniteSet(Targets)
    BY <1>1, TargetsAssumption DEF TypeOK
  <2> QED BY <2>1, TotalFinite
<1>5. CASE k = Recovered  BY <1>1, <1>3, <1>4, <1>5 DEF HeldCount, Live
<1>6. CASE k \in Targets
  <2>1. /\ runners[k] \in Nat /\ gone[k] \in Nat /\ Created(k) \in Nat
        /\ Unlaunched(k) \in Nat /\ Unsettled(k) \in Int
        /\ Created(k) + Unlaunched(k) <= Unsettled(k)
    BY <1>1, <1>6, CountsTyped, NothingNegative
  <2>2. HeldCount(k) = members[k].inFlight + runners[k]  BY <1>3, <1>6 DEF HeldCount, Live
  <2>3. Ceiling > 0 => members[k].inFlight = Unsettled(k)  BY <1>1, <1>6 DEF InFlightSettled
  <2> QED BY <1>1, <1>3, <1>6, <2>1, <2>2, <2>3 DEF Load
<1> QED BY <1>2, <1>5, <1>6

(* The counts read so far and one more, the recovered workers first. *)
LEMMA CountMemberSafe ==
  ASSUME Inv, CountMember
  PROVE  Inv' /\ NoMore
<1>1. /\ TypeOK /\ Scalers /\ Joined /\ Counting /\ InFlightSettled /\ Snapshot
      /\ ~Mutex /\ Ceiling > 0
      /\ UNCHANGED <<members, rotation, status, runners, gone, recovered, adopted, launch,
                     leftover>>
  BY DEF Inv, CountMember
<1>2. PICK k \in DOMAIN members \ DOMAIN reserving.held :
        /\ \A j \in DOMAIN members : j < k => j \in DOMAIN reserving.held
        /\ reserving' = [reserving EXCEPT !.held =
             [j \in DOMAIN reserving.held \union {k} |->
                IF j = k THEN HeldCount(k) ELSE reserving.held[j]]]
  BY DEF CountMember
<1> DEFINE counts == [j \in DOMAIN reserving.held \union {k} |->
                        IF j = k THEN HeldCount(k) ELSE reserving.held[j]]
<1>3. /\ HeldCount(k) \in Nat
      /\ k = Recovered => HeldCount(k) >= Total(recovered)
      /\ k \in Targets => HeldCount(k) >= Load(k)
  BY <1>1, HeldCovers
<1>4. /\ counts \in [DOMAIN reserving.held \union {k} -> Nat]
      /\ DOMAIN counts = DOMAIN reserving.held \union {k}
      /\ counts[k] = HeldCount(k)
      /\ \A j \in DOMAIN reserving.held : counts[j] = reserving.held[j]
  BY <1>1, <1>3 DEF TypeOK
<1>5. reserving' = [reserving EXCEPT !.held = counts]  BY <1>2
<1> HIDE DEF counts
<1>6. /\ reserving'.held = counts /\ reserving'.key = reserving.key
      /\ reserving'.want = reserving.want
      /\ reserving' \in [key : Targets \union {Recovered}, want : Nat, held : {counts}]
  BY <1>1, <1>5 DEF TypeOK
<1>7. TypeOK'
  <2>1. DOMAIN counts \subseteq DOMAIN members  BY <1>1, <1>4 DEF TypeOK
  <2> QED BY <1>1, <1>4, <1>6, <2>1 DEF TypeOK
<1>8. Scalers'  BY <1>1 DEF Scalers, Sane, Present
<1>9. Joined'
  <2>1. \A t \in Targets : status[t] # "left"  BY <1>1 DEF Joined
  <2> QED BY <1>1, <2>1 DEF Joined
<1>10. Recovered \in DOMAIN counts
  <2>1. CASE k = Recovered  BY <1>4, <2>1
  <2>2. CASE k # Recovered
    <3>1. k \in Targets  BY <1>1, <2>2 DEF TypeOK
    <3>2. Recovered < k  BY <3>1, TargetsAssumption DEF Recovered
    <3> QED BY <1>1, <1>2, <1>4, <3>2 DEF Joined
  <2> QED BY <2>1, <2>2
<1>11. Counting'  BY <1>1, <1>6, <1>10 DEF Counting, Present
<1>12. InFlightSettled'
  <2>1. \A t \in Targets : Unsettled(t)' = Unsettled(t)  BY <1>1 DEF Unsettled
  <2> QED BY <1>1, <2>1 DEF InFlightSettled
<1>13. ASSUME NEW t \in Targets
       PROVE  Load(t)' = Load(t) /\ Unadopted(t)' = Unadopted(t)
  <2>1. Same(t)  BY <1>1 DEF Same
  <2> QED BY <2>1, SameCounts
<1>14. Snapshot'
  <2> DEFINE after == [t \in Targets |-> Excess(t)']
  <2>1. after \in [Targets -> Int] /\ IsFiniteSet(Targets)
    BY <1>7, CountsTypedNext, TargetsAssumption
  <2>2. after = [t \in Targets |-> Excess(t)']  OBVIOUS
  <2>3. CASE k = Recovered
    <3>1. DOMAIN reserving.held = {}  BY <1>1, <1>2, <2>3 DEF Counting
    <3>2. \A t \in Targets : t \notin DOMAIN counts
      BY <1>4, <2>3, <3>1, TargetsAssumption DEF Recovered
    <3>3. ASSUME NEW t \in Targets PROVE after[t] <= recovered[t]
      <4>1. after[t] = Unadopted(t)  BY <1>6, <1>13, <3>2 DEF Excess
      <4>2. recovered[t] \in Nat /\ adopted[t] \in Nat  BY <1>1, CountsTyped
      <4> QED BY <4>1, <4>2 DEF Unadopted
    <3>4. recovered \in [Targets -> Int]  BY <1>1 DEF TypeOK
    <3> HIDE DEF after
    <3>5. Total(after) <= Total(recovered) /\ Total(after) \in Nat /\ Total(recovered) \in Nat
      BY <2>1, <3>3, <3>4, TotalMonotone, TotalFinite
    <3>6. Total(after) <= counts[Recovered]  BY <1>3, <1>4, <2>3, <3>5
    <3> QED BY <1>6, <2>2, <3>6 DEF Snapshot
  <2>4. CASE k \in Targets
    <3> DEFINE before == [t \in Targets |-> Excess(t)]
    <3>1. before \in [Targets -> Int]  BY <1>1, CountsTyped
    <3>2. ASSUME NEW t \in Targets PROVE Excess(t)' <= Excess(t)
      <4>1. CASE t = k
        <5>1. Excess(t) = Unadopted(t)  BY <1>2, <4>1 DEF Excess
        <5>2. Excess(t)' = Larger(0, Load(t) + Unadopted(t) - HeldCount(t))
          BY <1>4, <1>6, <1>13, <4>1 DEF Excess
        <5>3. Unadopted(t) \in Nat /\ Load(t) \in Int
          BY <1>1, NothingNegative, CountsTyped
        <5> QED BY <1>3, <4>1, <5>1, <5>2, <5>3 DEF Larger
      <4>2. CASE t # k
        <5>1. Excess(t)' = Excess(t)  BY <1>4, <1>6, <1>13, <4>2 DEF Excess
        <5>2. Excess(t) \in Int  BY <1>1, CountsTyped
        <5> QED BY <5>1, <5>2
      <4> QED BY <4>1, <4>2
    <3>3. \A t \in Targets : after[t] <= before[t]  BY <3>2
    <3>4. Recovered \in DOMAIN reserving.held /\ counts[Recovered] = reserving.held[Recovered]
      BY <1>4, <1>10, <2>4, TargetsAssumption DEF Recovered
    <3>5. Total(before) <= reserving.held[Recovered]  BY <1>1, <3>4 DEF Snapshot
    <3> HIDE DEF before, after
    <3>6. Total(after) <= Total(before) /\ Total(after) \in Nat /\ Total(before) \in Nat
      BY <2>1, <3>1, <3>3, TotalMonotone, TotalFinite
    <3>7. reserving.held[Recovered] \in Nat  BY <1>1, <3>4 DEF TypeOK
    <3>8. Total(after) <= counts[Recovered]  BY <3>4, <3>5, <3>6, <3>7
    <3> QED BY <1>6, <2>2, <3>8 DEF Snapshot
  <2> QED BY <1>1, <2>3, <2>4 DEF TypeOK
<1>15. NoMore  BY <1>1, WorkersKept
<1> QED BY <1>7, <1>8, <1>9, <1>11, <1>12, <1>14, <1>15 DEF Inv

-----------------------------------------------------------------------------
(* What reserve admits.                                                      *)

(* It admits no more than is asked for and, under a ceiling, no more than    *)
(* the counts leave free.                                                    *)
LEMMA AdmittedFits ==
  ASSUME TypeOK, Recovered \in DOMAIN members, NEW key \in DOMAIN members,
         NEW want \in Nat, NEW held \in [DOMAIN members -> Nat], Ceiling > 0
  PROVE  /\ Admitted(key, want, held) \in Nat /\ Admitted(key, want, held) <= want
         /\ Admitted(key, want, held) > 0 =>
              Total(held) + Admitted(key, want, held) <= Ceiling
<1>1. IsFiniteSet(DOMAIN members) /\ Count \in Nat \ {0}  BY MembersFinite
<1>2. Total(held) \in Nat
  <2>1. held \in [DOMAIN members -> Int]  OBVIOUS
  <2> QED BY <1>1, <2>1, TotalFinite
<1>3. ASSUME NEW k \in DOMAIN members PROVE Share(k) \in Int
  <2>1. Ceiling \div Count \in Int  BY <1>1, CeilingAssumption
  <2> QED BY <2>1 DEF Share
<1>4. ProtectedFrom(key, held) \in Nat
  <2> DEFINE f == [k \in DOMAIN members \ {key} |-> Smaller(members[k].demand - held[k], Share(k))]
  <2>1. ASSUME NEW k \in DOMAIN members \ {key}
        PROVE  Smaller(members[k].demand - held[k], Share(k)) \in Int
    BY <1>3 DEF Smaller, TypeOK, Member
  <2>2. f \in [DOMAIN members \ {key} -> Int]  BY <2>1
  <2>3. IsFiniteSet(DOMAIN members \ {key})  BY <1>1, FS_Subset
  <2> HIDE DEF f
  <2>4. Total(f) \in Nat  BY <2>2, <2>3, TotalFinite
  <2> QED BY <2>4 DEF ProtectedFrom, f
<1> DEFINE free == Ceiling - Total(held)
           guaranteed == Larger(0, Smaller(want, Smaller(Share(key) - held[key], free)))
           surplus == Larger(0, free - guaranteed - ProtectedFrom(key, held))
<1>5. free \in Int /\ free = Ceiling - Total(held)  BY <1>2, CeilingAssumption
<1>6. Admitted(key, want, held) =
        IF free <= 0 THEN 0 ELSE guaranteed + Smaller(want - guaranteed, surplus)
  BY CeilingAssumption DEF Admitted
<1>7. CASE free <= 0  BY <1>6, <1>7
<1>8. CASE free > 0
  <2>1. Share(key) - held[key] \in Int  BY <1>3
  <2> HIDE DEF free
  <2>2. guaranteed \in Nat /\ guaranteed <= want /\ guaranteed <= free
    BY <1>5, <1>8, <2>1 DEF Larger, Smaller
  <2> HIDE DEF guaranteed
  <2>3. surplus \in Nat /\ surplus <= free - guaranteed
    BY <1>4, <1>5, <2>2 DEF Larger
  <2> HIDE DEF surplus
  <2>4. Admitted(key, want, held) = guaranteed + Smaller(want - guaranteed, surplus)
    BY <1>5, <1>6, <1>8
  <2>5. /\ Admitted(key, want, held) \in Nat /\ Admitted(key, want, held) <= want
        /\ Admitted(key, want, held) <= free
    BY <1>5, <2>2, <2>3, <2>4 DEF Smaller
  <2> QED BY <1>2, <1>5, <2>5, CeilingAssumption
<1> QED BY <1>5, <1>7, <1>8

(* When reserve has counted everybody its counts cover every worker there is *)
(* and every launch still to come, unless a container nobody tracks is left. *)
LEMMA CountsCover ==
  ASSUME Inv, ~Mutex, Total(leftover) = 0, DOMAIN reserving.held = DOMAIN members
  PROVE  Workers <= Total(reserving.held) /\ Workers \in Nat
<1> DEFINE held == reserving.held
           all == [t \in Targets |-> Alive(t) + Unlaunched(t)]
           own == [t \in Targets |-> IF t \in DOMAIN members THEN held[t] ELSE 0]
           rest == [t \in Targets |-> Excess(t)]
           R == Targets \intersect DOMAIN members
<1>1. /\ TypeOK /\ Scalers /\ Joined /\ Snapshot /\ IsFiniteSet(Targets)
      /\ IsFiniteSet(DOMAIN members) /\ Recovered \in DOMAIN members
      /\ held \in [DOMAIN members -> Nat]
  BY TargetsAssumption, MembersFinite DEF Inv, Joined, TypeOK
<1>2. /\ all \in [Targets -> Int] /\ own \in [Targets -> Nat] /\ rest \in [Targets -> Int]
      /\ own \in [Targets -> Int]
  <2>1. all \in [Targets -> Int] /\ rest \in [Targets -> Int]  BY <1>1, CountsTyped
  <2>2. own \in [Targets -> Nat] /\ own \in [Targets -> Int]  BY <1>1
  <2> QED BY <2>1, <2>2
<1>3. ASSUME NEW t \in Targets PROVE all[t] <= own[t] + rest[t]
  <2>1. leftover[t] = 0
    <3>1. leftover \in [Targets -> Nat]  BY <1>1 DEF TypeOK
    <3>2. leftover[t] <= Total(leftover)  BY <1>1, <3>1, TotalBoundsEach
    <3> QED BY <3>1, <3>2
  <2>2. /\ Created(t) \in Nat /\ Unlaunched(t) \in Int /\ Load(t) \in Int
        /\ Unadopted(t) \in Int /\ runners[t] \in Nat /\ gone[t] \in Nat
        /\ Alive(t) = leftover[t] + Created(t) + (runners[t] - gone[t]) + Unadopted(t)
    BY <1>1, CountsTyped
  <2>3. all[t] = Load(t) + Unadopted(t)  BY <2>1, <2>2 DEF Load
  <2>4. CASE t \in DOMAIN members
    <3>1. rest[t] = Larger(0, Load(t) + Unadopted(t) - held[t])  BY <2>4 DEF Excess
    <3>2. own[t] = held[t] /\ held[t] \in Nat  BY <1>1, <2>4
    <3> QED BY <2>2, <2>3, <3>1, <3>2 DEF Larger
  <2>5. CASE t \notin DOMAIN members
    <3>1. runners[t] = 0 /\ ~Present(t)  BY <1>1, <2>5 DEF Joined, Present
    <3>2. launch[t] = Idle /\ gone[t] = 0  BY <1>1, <2>2, <3>1 DEF Scalers, Sane
    <3>3. Load(t) = 0  BY <3>1, <3>2 DEF Load, Created, Unlaunched, Idle
    <3>4. rest[t] = Unadopted(t) /\ own[t] = 0  BY <2>5 DEF Excess
    <3> QED BY <2>2, <2>3, <3>3, <3>4
  <2> QED BY <2>4, <2>5
<1>4. /\ \A t \in Targets \ R : own[t] <= 0
      /\ [t \in R |-> own[t]] = [t \in R |-> held[t]]
  OBVIOUS
<1>5. R \in SUBSET Targets /\ R \in SUBSET (DOMAIN members \ {Recovered})
  BY TargetsAssumption DEF Recovered
<1>6. Recovered \in DOMAIN held => Total(rest) <= held[Recovered]  BY <1>1 DEF Snapshot
<1>7. Workers = Total(all)  BY DEF Workers
<1> HIDE DEF held, all, own, rest, R
<1>8. Total(all) <= Total(own) + Total(rest)  BY <1>1, <1>2, <1>3, TotalSplit
<1>9. Total(own) <= Total([t \in R |-> held[t]])  BY <1>1, <1>2, <1>4, <1>5, TotalOfPositive
<1>10. Total([t \in R |-> held[t]]) + held[Recovered] <= Total(held)
  BY <1>1, <1>5, TotalApart
<1>11. Total(rest) <= held[Recovered]  BY <1>1, <1>6 DEF held
<1>12. /\ Total(all) \in Nat /\ Total(own) \in Nat /\ Total(rest) \in Nat
       /\ held[Recovered] \in Nat
  BY <1>1, <1>2, TotalFinite
<1>13. Total(held) \in Nat
  <2>1. held \in [DOMAIN members -> Int]  BY <1>1
  <2> QED BY <1>1, <2>1, TotalFinite
<1>14. Total([t \in R |-> held[t]]) \in Nat
  <2>1. IsFiniteSet(R)  BY <1>1, <1>5, FS_Subset
  <2>2. [t \in R |-> held[t]] \in [R -> Int]  BY <1>1, <1>5
  <2> QED BY <2>1, <2>2, TotalFinite
<1>15. Total(all) <= Total(held)  BY <1>8, <1>9, <1>10, <1>11, <1>12, <1>13, <1>14
<1> QED BY <1>7, <1>12, <1>15 DEF held

(* What Grant does, with the number it admits. *)
LEMMA GrantStep ==
  ASSUME Inv, Grant
  PROVE  \E t \in Targets, granted \in Nat :
           /\ granted = Admitted(t, reserving.want, reserving.held)
           /\ t \in DOMAIN members /\ t = reserving.key /\ Present(t) /\ launch[t] = Idle
           /\ Ceiling > 0 => granted <= reserving.want
           /\ Ceiling > 0 /\ granted > 0 => Total(reserving.held) + granted <= Ceiling
<1>1. TypeOK /\ Joined /\ Counting /\ ~Mutex  BY DEF Inv, Grant
<1> DEFINE t == reserving.key
           granted == Admitted(t, reserving.want, reserving.held)
<1>2. t \in Targets /\ Present(t) /\ launch[t] = Idle /\ reserving.want \in Nat
  BY <1>1 DEF Counting, TypeOK
<1>3. t \in DOMAIN members /\ Recovered \in DOMAIN members  BY <1>1, <1>2 DEF Joined, Present
<1>4. CASE Ceiling = 0
  <2>1. granted = reserving.want  BY <1>4 DEF Admitted
  <2> QED BY <1>2, <1>3, <1>4, <2>1
<1>5. CASE Ceiling > 0
  <2>1. reserving.held \in [DOMAIN members -> Nat]  BY <1>1, <1>5 DEF Grant, TypeOK
  <2>2. /\ granted \in Nat /\ granted <= reserving.want
        /\ granted > 0 => Total(reserving.held) + granted <= Ceiling
    BY <1>1, <1>2, <1>3, <1>5, <2>1, AdmittedFits
  <2> QED BY <1>2, <1>3, <2>2
<1> QED BY <1>4, <1>5, CeilingAssumption

(* The launches reserve admits are in flight, all of them and no more. *)
LEMMA GrantSafe ==
  ASSUME Inv, Grant
  PROVE  Inv'
<1>1. /\ TypeOK /\ Scalers /\ Joined /\ Counting /\ InFlightSettled /\ ~Mutex
      /\ UNCHANGED <<status, runners, gone, recovered, adopted, leftover>>
      /\ reserving' = Unlocked
  BY DEF Inv, Grant
<1>2. PICK t \in Targets, granted \in Nat :
        /\ granted = Admitted(t, reserving.want, reserving.held)
        /\ t \in DOMAIN members /\ t = reserving.key /\ Present(t) /\ launch[t] = Idle
        /\ Ceiling > 0 => granted <= reserving.want
  BY GrantStep
<1> DEFINE given == [demand   |-> reserving.want - granted,
                     inFlight |-> members[t].inFlight + granted]
           next == IF granted = 0 THEN Idle ELSE [remaining |-> granted, stage |-> "starting"]
<1>3. /\ members' = IF Ceiling = 0 THEN members ELSE [members EXCEPT ![t] = given]
      /\ launch' = [launch EXCEPT ![t] = next]
      /\ rotation' = Rotated(granted)
  BY <1>2 DEF Grant
<1>4. /\ members \in [DOMAIN members -> Member] /\ members[t] \in Member
      /\ reserving.want \in Nat /\ members[t].inFlight \in Nat
  BY <1>1, <1>2 DEF TypeOK, Member
<1>5. Ceiling > 0 => given \in Member /\ given.inFlight = members[t].inFlight + granted
  BY <1>2, <1>4 DEF Member
<1>6. /\ next \in Launch /\ next.remaining = granted
      /\ next.remaining = 0 <=> next = Idle
      /\ next.stage # "settled"
  BY <1>2 DEF Launch, Idle
<1> HIDE DEF given, next
<1>7. /\ launch' \in [Targets -> Launch] /\ launch'[t] = next
      /\ \A u \in Targets \ {t} : launch'[u] = launch[u]
  BY <1>1, <1>3, <1>6 DEF TypeOK
<1>8. /\ DOMAIN members' = DOMAIN members /\ members' \in [DOMAIN members -> Member]
      /\ members'[t].inFlight = members[t].inFlight + (IF Ceiling > 0 THEN granted ELSE 0)
      /\ \A k \in DOMAIN members \ {t} : members'[k] = members[k]
  <2>1. CASE Ceiling = 0  BY <1>3, <1>4, <2>1
  <2>2. CASE Ceiling > 0  BY <1>2, <1>3, <1>4, <1>5, <2>2
  <2> QED BY <2>1, <2>2, CeilingAssumption
<1>9. rotation' \in Nat
  <2>1. Count \in Nat \ {0}  BY <1>1, MembersFinite DEF Joined
  <2>2. rotation \in Nat  BY <1>1 DEF TypeOK
  <2>3. (rotation + 1) % Count \in Nat  BY <2>1, <2>2
  <2> QED BY <1>3, <2>2, <2>3 DEF Rotated
<1>10. /\ Unlocked.held = NoCounts /\ DOMAIN NoCounts = {} /\ NoCounts \in [{} -> Nat]
       /\ Unlocked \in [key : Targets \union {Recovered}, want : Nat, held : {NoCounts}]
  BY DEF Unlocked, NoCounts
<1>11. TypeOK'  BY <1>1, <1>7, <1>8, <1>9, <1>10 DEF TypeOK
<1>12. Scalers'
  <2> SUFFICES ASSUME NEW u \in Targets PROVE Sane(u)'  BY DEF Scalers
  <2>1. CASE u = t  BY <1>1, <1>2, <1>6, <1>7, <2>1 DEF Scalers, Sane, Present
  <2>2. CASE u # t  BY <1>1, <1>7, <2>2 DEF Scalers, Sane, Present
  <2> QED BY <2>1, <2>2
<1>13. Joined'
  <2>1. \A u \in Targets : status[u] # "left"  BY <1>1 DEF Joined
  <2> QED BY <1>1, <1>8, <2>1 DEF Joined
<1>14. Counting'  BY <1>1 DEF Counting, Mutex
<1>15. InFlightSettled'
  <2>1. Unsettled(t) = 0 /\ Unsettled(t)' = granted
    BY <1>2, <1>6, <1>7 DEF Unsettled, Idle
  <2>2. members'[t].inFlight = IF Ceiling > 0 THEN Unsettled(t)' ELSE 0
    BY SMTT(30), <1>1, <1>2, <1>8, <2>1 DEF InFlightSettled
  <2>3. \A u \in Targets \ {t} : Unsettled(u)' = Unsettled(u)  BY <1>7 DEF Unsettled
  <2> QED BY <1>1, <1>8, <2>2, <2>3 DEF InFlightSettled
<1>16. Snapshot'  BY <1>1, <1>10 DEF Snapshot
<1> QED BY <1>11, <1>12, <1>13, <1>14, <1>15, <1>16 DEF Inv

(* Workers are a sum, and no step but Grant can raise it. *)
LEMMA FewerWorkers ==
  ASSUME TypeOK, TypeOK', NoMore
  PROVE  Workers' <= Workers
<1> DEFINE before == [t \in Targets |-> Alive(t) + Unlaunched(t)]
           after == [t \in Targets |-> Alive(t)' + Unlaunched(t)']
<1>1. before \in [Targets -> Int] /\ after \in [Targets -> Int]
  <2>1. before \in [Targets -> Int]  BY CountsTyped
  <2>2. after \in [Targets -> Int]  BY CountsTypedNext
  <2> QED BY <2>1, <2>2
<1>2. \A t \in Targets : after[t] <= before[t]  BY DEF NoMore
<1>3. Workers = Total(before) /\ Workers' = Total(after)  BY DEF Workers
<1>4. IsFiniteSet(Targets)  BY TargetsAssumption
<1> HIDE DEF before, after
<1>5. Total(after) <= Total(before)  BY <1>1, <1>2, <1>4, TotalMonotone
<1> QED BY <1>3, <1>5

(* A grant raises the workers only within the ceiling. *)
LEMMA GrantWithinCeiling ==
  ASSUME Inv, Grant, Ceiling > 0, Total(leftover) = 0, Workers' > Workers
  PROVE  Workers' <= Ceiling
<1>1. /\ TypeOK /\ ~Mutex /\ IsFiniteSet(Targets)
      /\ UNCHANGED <<runners, gone, recovered, adopted, leftover>>
      /\ DOMAIN reserving.held = DOMAIN members
  BY TargetsAssumption DEF Inv, Grant
<1>2. TypeOK'  BY GrantSafe DEF Inv
<1>3. PICK t \in Targets, granted \in Nat :
        /\ granted = Admitted(t, reserving.want, reserving.held)
        /\ t = reserving.key /\ launch[t] = Idle
        /\ granted > 0 => Total(reserving.held) + granted <= Ceiling
  BY GrantStep
<1> DEFINE next == IF granted = 0 THEN Idle ELSE [remaining |-> granted, stage |-> "starting"]
           before == [u \in Targets |-> Alive(u) + Unlaunched(u)]
           after == [u \in Targets |-> Alive(u)' + Unlaunched(u)']
           more == [u \in Targets |-> IF u = t THEN granted ELSE 0]
<1>4. launch' = [launch EXCEPT ![t] = next]  BY <1>3 DEF Grant
<1>5. /\ next.stage = (IF granted = 0 THEN "idle" ELSE "starting")
      /\ next.remaining = granted
  BY DEF Idle
<1>6. launch'[t] = next /\ \A u \in Targets \ {t} : launch'[u] = launch[u]
  BY <1>1, <1>4 DEF TypeOK
<1>7. ASSUME NEW u \in Targets PROVE after[u] <= more[u] + before[u]
  <2>1. Alive(u) \in Int /\ Unlaunched(u) \in Int  BY <1>1, CountsTyped
  <2>2. CASE u = t
    <3>1. Created(t) = 0 /\ Created(t)' = 0 /\ Unlaunched(t) = 0 /\ Unlaunched(t)' = granted
      BY <1>3, <1>5, <1>6 DEF Created, Unlaunched, Idle
    <3>2. Alive(t)' = Alive(t)  BY <1>1, <3>1 DEF Alive
    <3> QED BY <2>1, <2>2, <3>1, <3>2
  <2>3. CASE u # t
    <3>1. Same(u)  BY <1>1, <1>6, <2>3 DEF Same
    <3> QED BY <2>1, <2>3, <3>1, SameCounts
  <2> QED BY <2>2, <2>3
<1>8. before \in [Targets -> Int] /\ after \in [Targets -> Int] /\ more \in [Targets -> Nat]
  <2>1. before \in [Targets -> Int]  BY <1>1, CountsTyped
  <2>2. after \in [Targets -> Int]  BY <1>2, CountsTypedNext
  <2>3. more \in [Targets -> Nat]  BY <1>1
  <2> QED BY <2>1, <2>2, <2>3
<1>9. Workers = Total(before) /\ Workers' = Total(after)  BY DEF Workers
<1>10. Total(more) <= granted  BY <1>1, TotalAlone
<1> HIDE DEF before, after, more, next
<1>11. Total(after) <= Total(more) + Total(before)  BY <1>1, <1>7, <1>8, TotalSplit
<1>12. Total(after) \in Nat /\ Total(before) \in Nat /\ Total(more) \in Nat
  <2>1. more \in [Targets -> Int]  BY <1>8
  <2> QED BY <1>1, <1>8, <2>1, TotalFinite
<1>13. granted > 0  BY <1>9, <1>10, <1>11, <1>12
<1>14. Total(before) <= Total(reserving.held)  BY <1>1, <1>9, CountsCover
<1>15. Total(reserving.held) \in Nat
  <2>1. reserving.held \in [DOMAIN members -> Int]  BY <1>1 DEF TypeOK
  <2>2. IsFiniteSet(DOMAIN members)  BY <1>1, MembersFinite DEF Inv, Joined
  <2> QED BY <2>1, <2>2, TotalFinite
<1> QED BY <1>3, <1>9, <1>10, <1>11, <1>12, <1>13, <1>14, <1>15, CeilingAssumption

-----------------------------------------------------------------------------
(* The induction.                                                            *)

(* At the first start only recovered containers run. *)
LEMMA InvInit ==
  ASSUME Init
  PROVE  Inv
<1>1. /\ recovered \in [Targets -> Nat]
      /\ members = [k \in {Recovered} |-> NewMember] /\ rotation = 0 /\ reserving = Unlocked
      /\ status = [t \in Targets |-> "absent"]
      /\ runners = [t \in Targets |-> 0] /\ gone = [t \in Targets |-> 0]
      /\ adopted = [t \in Targets |-> 0] /\ launch = [t \in Targets |-> Idle]
      /\ leftover = [t \in Targets |-> 0]
  BY BoundsAssumption DEF Init
<1>2. Idle \in Launch /\ NewMember \in Member /\ NewMember.inFlight = 0
  BY DEF Idle, Launch, NewMember, Member
<1>3. /\ Unlocked.held = NoCounts /\ DOMAIN NoCounts = {} /\ NoCounts \in [{} -> Nat]
      /\ Unlocked \in [key : Targets \union {Recovered}, want : Nat, held : {NoCounts}]
  BY DEF Unlocked, NoCounts
<1>4. TypeOK
  <2>1. members \in [{Recovered} -> Member] /\ DOMAIN members = {Recovered}  BY <1>1, <1>2
  <2>2. /\ runners \in [Targets -> Nat] /\ gone \in [Targets -> Nat]
        /\ adopted \in [Targets -> Nat] /\ leftover \in [Targets -> Nat]
        /\ launch \in [Targets -> Launch]
        /\ status \in [Targets -> {"absent", "starting", "serving", "closing", "left"}]
    BY <1>1, <1>2
  <2> QED BY <1>1, <1>3, <2>1, <2>2 DEF TypeOK
<1>5. Scalers  BY <1>1 DEF Scalers, Sane, Present, Idle
<1>6. Joined  BY <1>1 DEF Joined
<1>7. Counting  BY <1>1 DEF Counting, Mutex
<1>8. Recovered \notin Targets  BY TargetsAssumption DEF Recovered
<1>9. InFlightSettled  BY <1>1, <1>8 DEF InFlightSettled
<1>10. Snapshot  BY <1>1, <1>3 DEF Snapshot
<1> QED BY <1>4, <1>5, <1>6, <1>7, <1>9, <1>10 DEF Inv

(* A stuttering step preserves the invariant. *)
LEMMA InvStutter ==
  ASSUME Inv, UNCHANGED vars
  PROVE  Inv' /\ NoMore
<1>1. /\ UNCHANGED <<controller, runners, gone, recovered, adopted, launch, leftover>>
      /\ UNCHANGED <<members, reserving, status>>
  BY DEF vars, controller
<1>2. TypeOK /\ Scalers /\ Joined /\ Counting  BY DEF Inv
<1>3. status' \in [Targets -> {"absent", "starting", "serving", "closing", "left"}]
  BY <1>1, <1>2 DEF TypeOK
<1>4. Scalers'  BY <1>1, <1>2 DEF Scalers, Sane, Present
<1>5. Joined'  BY <1>1, <1>2 DEF Joined, Mutex
<1>6. Counting'  BY <1>1, <1>2 DEF Counting, Mutex, Present
<1> QED BY <1>1, <1>3, <1>4, <1>5, <1>6, StatusStep

(* Every step preserves the invariant, and only Grant adds workers. *)
LEMMA InvStep ==
  ASSUME Inv, [Next]_vars
  PROVE  Inv' /\ (Grant \/ NoMore)
<1>1. ASSUME NEW t \in Targets, Starting(t) \/ StartFails(t)  PROVE Inv' /\ NoMore
  BY <1>1, StartControllerSafe, RecoverSafe, RunControllerSafe, ForgetRecoveredSafe,
     StartFailsSafe DEF Starting
<1>2. ASSUME NEW t \in Targets, Launching(t) \/ FailLaunch(t)  PROVE Inv' /\ NoMore
  BY <1>2, StartContainerSafe, TrackSafe, SettleLaunchSafe, SettleFailedSafe, SettleRestSafe,
     FailLaunchSafe DEF Launching
<1>3. ASSUME NEW t \in Targets, ContainerExits(t) \/ LeftoverExits(t) \/ RemoveRecord(t)
      PROVE  Inv' /\ NoMore
  BY <1>3, ContainerExitsSafe, LeftoverExitsSafe, RemoveRecordSafe
<1>4. ASSUME NEW t \in Targets, Retire(t) \/ Leave(t)  PROVE Inv' /\ NoMore
  BY <1>4, RetireSafe, LeaveSafe
<1>5. CASE Working
  BY <1>1, <1>2, <1>3, <1>5, ReconcileSafe, CountMemberSafe, GrantSafe DEF Working
<1>6. CASE FullStop \/ Restart \/ UNCHANGED vars
  BY <1>6, FullStopSafe, RestartSafe, InvStutter
<1> QED BY <1>4, <1>5, <1>6 DEF Next

(* Inv holds in every reachable state. *)
THEOREM CeilingInvariant == Spec => []Inv
<1>1. Init => Inv  BY InvInit
<1>2. Inv /\ [Next]_vars => Inv'  BY InvStep
<1> QED BY <1>1, <1>2, PTL DEF Spec

(* For any number of targets, no path through a launch leaks an admission or *)
(* returns one twice: what the controller counts in flight for a target is   *)
(* what its launch loop has yet to settle (reserve, settle, reconcileLocked).*)
THEOREM AdmissionsSettle == Spec => []InFlightSettled
<1>1. Inv => InFlightSettled  BY DEF Inv
<1> QED BY <1>1, CeilingInvariant, PTL

(* For any number of targets and any ceiling, the workers that run or may    *)
(* still be launched become more only within the ceiling, although reserve   *)
(* counts the members one by one while their scalers go on (reserve), unless *)
(* a container nobody tracks is left.                                        *)
THEOREM CeilingHolds == Spec => CeilingKept
<1>1. ASSUME Inv, Inv', [Next]_vars, Ceiling > 0 /\ Total(leftover) = 0 /\ Workers' > Workers
      PROVE  Workers' <= Ceiling
  <2>1. CASE Grant  BY <1>1, <2>1, GrantWithinCeiling
  <2>2. CASE NoMore
    <3>1. Workers' <= Workers  BY <1>1, <2>2, FewerWorkers DEF Inv
    <3>2. Workers \in Nat /\ Workers' \in Nat
      <4> DEFINE before == [t \in Targets |-> Alive(t) + Unlaunched(t)]
                 after == [t \in Targets |-> Alive(t)' + Unlaunched(t)']
      <4>1. before \in [Targets -> Int] /\ after \in [Targets -> Int]
        <5>1. before \in [Targets -> Int]  BY <1>1, CountsTyped DEF Inv
        <5>2. after \in [Targets -> Int]  BY <1>1, CountsTypedNext DEF Inv
        <5> QED BY <5>1, <5>2
      <4>2. Workers = Total(before) /\ Workers' = Total(after)  BY DEF Workers
      <4>3. IsFiniteSet(Targets)  BY TargetsAssumption
      <4> HIDE DEF before, after
      <4> QED BY <4>1, <4>2, <4>3, TotalFinite
    <3> QED BY <1>1, <3>1, <3>2
  <2> QED BY <1>1, <2>1, <2>2, InvStep
<1>2. Inv /\ Inv' /\ [Next]_vars =>
        [Ceiling > 0 /\ Total(leftover) = 0 /\ Workers' > Workers => Workers' <= Ceiling]_vars
  BY <1>1
<1> QED BY <1>2, CeilingInvariant, PTL DEF Spec, CeilingKept
=============================================================================
