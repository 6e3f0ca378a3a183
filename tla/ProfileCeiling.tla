--------------------------- MODULE ProfileCeiling ---------------------------
(***************************************************************************)
(* The profile-wide active-worker ceiling: admissionController             *)
(* (manager/autoscaler/admission.go) together with the steps of the        *)
(* manager and of the target scalers that it counts on.                    *)
(*                                                                         *)
(* Every target has a scaler.  A scaler's reconciliation reserves launches *)
(* at the controller, launches them one by one and settles each.  The      *)
(* controller counts the workers a scaler tracks through a callback, while *)
(* the scalers go on: reserve reads the counts one member at a time.       *)
(*                                                                         *)
(* A key is a natural number, so that < is the order of sort.Strings.      *)
(* Reconciliation's registration, fencing and backoff paths only lead to a *)
(* request for fewer workers, or for none.                                 *)
(***************************************************************************)
EXTENDS Units, Functions

CONSTANTS
  Targets,        \* target keys
  Ceiling,        \* maximumActiveWorkers, 0 when not configured
  Wants,          \* the deficits a reconciliation may find
  MaxRecovered,   \* bound: workers of one target found at the first start
  MaxLeftover     \* bound: worker containers a failed launch leaves behind

ASSUME TargetsAssumption == Targets \subseteq Nat \ {0} /\ IsFiniteSet(Targets)
ASSUME CeilingAssumption == Ceiling \in Nat
ASSUME WantsAssumption == Wants \subseteq Nat
ASSUME BoundsAssumption == MaxRecovered \in Nat /\ MaxLeftover \in Nat

(* recoveredAdmissionKey begins with a NUL and sorts before every target. *)
Recovered == 0

VARIABLES
  members,     \* admissionController.members
  rotation,    \* admissionController.rotation
  reserving,   \* the reserve call that holds the controller's mutex
  status,      \* of each target's controller
  runners,     \* how many workers each scaler tracks: len(s.runners)
  gone,        \* how many of those have lost their container
  recovered,   \* m.recovered: containers found at start, not yet adopted
  adopted,     \* how many of those the starting scaler has taken over
  launch,      \* the launch loop of each scaler's reconciliation
  leftover     \* containers no longer tracked by anyone

vars == <<members, rotation, reserving, status, runners, gone, recovered,
          adopted, launch, leftover>>

controller == <<members, rotation, reserving>>

Member == [demand : Nat, inFlight : Nat]

NewMember == [demand |-> 0, inFlight |-> 0]

(* No reserve call runs.  A running one has its arguments here, and in held *)
(* the counts it has read so far, by member.                                *)
NoCounts == [k \in {} |-> 0]

Unlocked == [key |-> Recovered, want |-> 0, held |-> NoCounts]

(* remaining is the loop variable.  A launch has not reached Docker yet     *)
(* (starting), has a running container (created), is in s.runners (tracked) *)
(* or has failed, before or after the first of its two settlements.         *)
Launch == [remaining : Nat,
           stage     : {"idle", "starting", "created", "tracked", "failed", "settled"}]

Idle == [remaining |-> 0, stage |-> "idle"]

TypeOK ==
  /\ DOMAIN members \subseteq Targets \union {Recovered}
  /\ members \in [DOMAIN members -> Member]
  /\ rotation \in Nat
  /\ reserving \in [key : Targets \union {Recovered}, want : Nat, held : {reserving.held}]
  /\ DOMAIN reserving.held \subseteq DOMAIN members
  /\ reserving.held \in [DOMAIN reserving.held -> Nat]
  /\ status \in [Targets -> {"absent", "starting", "serving", "closing", "left"}]
  /\ runners \in [Targets -> Nat]
  /\ gone \in [Targets -> Nat]
  /\ recovered \in [Targets -> Nat]
  /\ adopted \in [Targets -> Nat]
  /\ launch \in [Targets -> Launch]
  /\ leftover \in [Targets -> Nat]

-----------------------------------------------------------------------------
(* The controller's arithmetic. *)

(* orderedKeysLocked: the position of a key among the members. *)
IndexOf(key) == Cardinality({k \in DOMAIN members : k < key})

Count == Cardinality(DOMAIN members)

(* Mutant of Share: the turn is not reduced to a position. *)
ShareTurnUnreduced(key) ==
  LET turn == IndexOf(key) - rotation + Count IN
  Ceiling \div Count + (IF turn < Ceiling % Count THEN 1 ELSE 0)

(* shareLocked. *)
Share(key) ==
  LET turn == GoMod(IndexOf(key) - rotation + Count, Count) IN
  Ceiling \div Count + (IF turn < Ceiling % Count THEN 1 ELSE 0)

(* The live callback: runnerCount, or unadoptedRecoveredCount. *)
Live(key) == IF key = Recovered THEN Total(recovered) ELSE runners[key]

(* Mutant of HeldCount: launches in flight are not counted. *)
HeldTrackedOnly(key) == Live(key)

HeldCount(key) == members[key].inFlight + Live(key)

(* What reserve keeps back for the other members. *)
ProtectedFrom(key, held) ==
  Total([k \in DOMAIN members \ {key} |->
           Smaller(members[k].demand - held[k], Share(k))])

(* The number of launches reserve grants, given the counts it has read. *)
Admitted(key, want, held) ==
  LET free == Ceiling - Total(held)
      guaranteed == Larger(0, Smaller(want, Smaller(Share(key) - held[key], free)))
      surplus == Larger(0, free - guaranteed - ProtectedFrom(key, held))
  IN  IF Ceiling = 0 THEN want
      ELSE IF free <= 0 THEN 0
      ELSE guaranteed + Smaller(want - guaranteed, surplus)

Rotated(granted) ==
  IF Ceiling > 0 /\ granted > 0 THEN (rotation + 1) % Count ELSE rotation

Settle(key, count) ==
  members' = [members EXCEPT ![key].inFlight = Larger(@ - count, 0)]

Join(key) ==
  members' = IF key \in DOMAIN members THEN members
             ELSE [k \in DOMAIN members \union {key} |->
                     IF k = key THEN NewMember ELSE members[k]]

Mutex == reserving = Unlocked

(* The operation gate of a scaler: nothing of its reconciliation runs. *)
GateFree(t) == launch[t] = Idle /\ reserving.key # t

-----------------------------------------------------------------------------
(* Workers. *)

Created(t) == IF launch[t].stage = "created" THEN 1 ELSE 0

(* The worker containers of a target that run, whoever knows of them. *)
Alive(t) == leftover[t] + Created(t) + (runners[t] - gone[t])
              + (recovered[t] - adopted[t])

(* The launches a target may still turn into a container. *)
Unlaunched(t) ==
  CASE launch[t].stage = "starting"               -> launch[t].remaining
    [] launch[t].stage \in {"created", "tracked"} -> launch[t].remaining - 1
    [] OTHER                                      -> 0

(* Admissions the scaler has reserved and not yet settled. *)
Unsettled(t) ==
  IF launch[t].stage = "settled" THEN launch[t].remaining - 1 ELSE launch[t].remaining

Workers == Total([t \in Targets |-> Alive(t) + Unlaunched(t)])

-----------------------------------------------------------------------------
(* The manager's loop. *)

(* No start of a controller is under way. *)
ManagerFree == \A t \in Targets : /\ status[t] # "starting"
                                  /\ status[t] = "serving" => recovered[t] = 0

(* startTargetController up to newRunnerScaler, whose join replaces the      *)
(* live callback.  Containers a failed start has discarded stay in the list. *)
StartController(t) ==
  /\ status[t] = "absent" /\ ManagerFree /\ Mutex
  /\ \A u \in Targets : status[u] \notin {"closing", "left"}
  /\ status' = [status EXCEPT ![t] = "starting"]
  /\ Join(t)
  /\ adopted' = [adopted EXCEPT ![t] = @ - runners[t]]
  /\ runners' = [runners EXCEPT ![t] = 0]
  /\ UNCHANGED <<rotation, reserving, gone, recovered, launch, leftover>>

(* recover inserts a runner record, or discards an unstarted container. *)
Recover(t) ==
  /\ status[t] = "starting" /\ adopted[t] < recovered[t]
  /\ adopted' = [adopted EXCEPT ![t] = @ + 1]
  /\ \/ runners' = [runners EXCEPT ![t] = @ + 1]
     \/ UNCHANGED runners
  /\ UNCHANGED <<controller, status, gone, recovered, launch, leftover>>

(* An error leaves the scaler joined and its callback in place. *)
StartFails(t) ==
  /\ status[t] = "starting"
  /\ status' = [status EXCEPT ![t] = "absent"]
  /\ UNCHANGED <<controller, runners, gone, recovered, adopted, launch, leftover>>

(* controller.run: the tick loop and the listener begin to reconcile. *)
RunController(t) ==
  /\ status[t] = "starting" /\ adopted[t] = recovered[t]
  /\ status' = [status EXCEPT ![t] = "serving"]
  /\ UNCHANGED <<controller, runners, gone, recovered, adopted, launch, leftover>>

(* delete(m.recovered, target.key), on the manager's own goroutine. *)
ForgetRecovered(t) ==
  /\ status[t] = "serving" /\ recovered[t] > 0
  /\ recovered' = [recovered EXCEPT ![t] = 0]
  /\ adopted' = [adopted EXCEPT ![t] = 0]
  /\ UNCHANGED <<controller, status, runners, gone, launch, leftover>>

(* The last reconciliation of a retiring target wants no worker; when none   *)
(* is left its controller is dropped.  Nothing removes it from the members.  *)
Retire(t) ==
  /\ status[t] = "serving" /\ ManagerFree /\ GateFree(t) /\ Mutex
  /\ runners[t] = 0
  /\ status' = [status EXCEPT ![t] = "absent"]
  /\ members' = [members EXCEPT ![t].demand = 0]
  /\ UNCHANGED <<rotation, reserving, runners, gone, recovered, adopted, launch, leftover>>

(* A requested full stop ends every tick loop and listener first. *)
FullStop ==
  /\ ManagerFree /\ \E t \in Targets : status[t] = "serving"
  /\ status' = [t \in Targets |-> IF status[t] = "serving" THEN "closing" ELSE status[t]]
  /\ UNCHANGED <<controller, runners, gone, recovered, adopted, launch, leftover>>

(* The end of scaler.shutdown. *)
Leave(t) ==
  /\ status[t] = "closing" /\ GateFree(t) /\ Mutex
  /\ status' = [status EXCEPT ![t] = "left"]
  /\ members' = Restrict(members, DOMAIN members \ {t})
  /\ rotation' = IF rotation > Count - 1 THEN 0 ELSE rotation
  /\ UNCHANGED <<reserving, runners, gone, recovered, adopted, launch, leftover>>

(* The manager process ends at any point and starts again.  scanRecovered    *)
(* finds the containers by their labels and joins before any scaler does.    *)
Restart ==
  /\ recovered' = [t \in Targets |-> Alive(t)]
  /\ members' = [k \in {Recovered} |-> NewMember]
  /\ rotation' = 0
  /\ reserving' = Unlocked
  /\ status' = [t \in Targets |-> "absent"]
  /\ runners' = [t \in Targets |-> 0]
  /\ gone' = [t \in Targets |-> 0]
  /\ adopted' = [t \in Targets |-> 0]
  /\ launch' = [t \in Targets |-> Idle]
  /\ leftover' = [t \in Targets |-> 0]

-----------------------------------------------------------------------------
(* A scaler's reconciliation. *)

(* Up to the reserve call, which takes the mutex and records the demand. *)
Reconcile(t, want) ==
  /\ status[t] = "serving" /\ GateFree(t) /\ Mutex
  /\ members' = [members EXCEPT ![t].demand = want]
  /\ reserving' = IF want = 0 THEN Unlocked
                  ELSE [key |-> t, want |-> want, held |-> NoCounts]
  /\ UNCHANGED <<rotation, status, runners, gone, recovered, adopted, launch, leftover>>

(* One turn of reserve's counting loop, over the sorted keys. *)
CountMember ==
  /\ ~Mutex /\ Ceiling > 0
  /\ \E k \in DOMAIN members \ DOMAIN reserving.held :
       /\ \A j \in DOMAIN members : j < k => j \in DOMAIN reserving.held
       /\ reserving' = [reserving EXCEPT !.held =
            [j \in DOMAIN @ \union {k} |-> IF j = k THEN HeldCount(k) ELSE @[j]]]
  /\ UNCHANGED <<members, rotation, status, runners, gone, recovered, adopted, launch, leftover>>

(* The rest of reserve, and the loop entered with what it admits. *)
Grant ==
  LET t == reserving.key
      granted == Admitted(t, reserving.want, reserving.held)
  IN  /\ ~Mutex
      /\ Ceiling > 0 => DOMAIN reserving.held = DOMAIN members
      /\ members' = IF Ceiling = 0 THEN members
                    ELSE [members EXCEPT ![t] = [demand   |-> reserving.want - granted,
                                                 inFlight |-> @.inFlight + granted]]
      /\ rotation' = Rotated(granted)
      /\ reserving' = Unlocked
      /\ launch' = [launch EXCEPT ![t] = IF granted = 0 THEN Idle
                      ELSE [remaining |-> granted, stage |-> "starting"]]
      /\ UNCHANGED <<status, runners, gone, recovered, adopted, leftover>>

Relaunch(t, remaining) ==
  launch' = [launch EXCEPT ![t] = IF remaining = 0 THEN Idle
               ELSE [remaining |-> remaining, stage |-> "starting"]]

(* startRunner has a running container. *)
StartContainer(t) ==
  /\ launch[t].stage = "starting"
  /\ launch' = [launch EXCEPT ![t].stage = "created"]
  /\ UNCHANGED <<controller, status, runners, gone, recovered, adopted, leftover>>

(* The end of startRunner: the worker is in s.runners. *)
Track(t) ==
  /\ launch[t].stage = "created"
  /\ launch' = [launch EXCEPT ![t].stage = "tracked"]
  /\ runners' = [runners EXCEPT ![t] = @ + 1]
  /\ UNCHANGED <<controller, status, gone, recovered, adopted, leftover>>

(* settle(key, 1) after a successful launch, and the next turn of the loop. *)
SettleLaunch(t) ==
  /\ launch[t].stage = "tracked" /\ Mutex
  /\ Settle(t, 1)
  /\ Relaunch(t, launch[t].remaining - 1)
  /\ UNCHANGED <<rotation, reserving, status, runners, gone, recovered, adopted, leftover>>

(* startRunner fails: before there is a container, or after, when            *)
(* abandonLaunch removes the container or fails to and forgets it.           *)
FailLaunch(t) ==
  /\ launch[t].stage \in {"starting", "created"}
  /\ launch' = [launch EXCEPT ![t].stage = "failed"]
  /\ \/ UNCHANGED leftover
     \/ /\ launch[t].stage = "created" /\ leftover[t] < MaxLeftover
        /\ leftover' = [leftover EXCEPT ![t] = @ + 1]
  /\ UNCHANGED <<controller, status, runners, gone, recovered, adopted>>

(* settle(key, 1), then settle(key, remaining-1), after a failed launch. *)
SettleFailed(t) ==
  /\ launch[t].stage = "failed" /\ Mutex
  /\ Settle(t, 1)
  /\ launch' = [launch EXCEPT ![t].stage = "settled"]
  /\ UNCHANGED <<rotation, reserving, status, runners, gone, recovered, adopted, leftover>>

(* Mutant of SettleRest: the launches not attempted stay in flight. *)
SettleRestForgotten(t) ==
  /\ launch[t].stage = "settled" /\ Mutex
  /\ launch' = [launch EXCEPT ![t] = Idle]
  /\ UNCHANGED <<controller, status, runners, gone, recovered, adopted, leftover>>

SettleRest(t) ==
  /\ launch[t].stage = "settled" /\ Mutex
  /\ Settle(t, launch[t].remaining - 1)
  /\ launch' = [launch EXCEPT ![t] = Idle]
  /\ UNCHANGED <<rotation, reserving, status, runners, gone, recovered, adopted, leftover>>

-----------------------------------------------------------------------------
(* Workers end on their own, by scale-down or by shutdown. *)

ContainerExits(t) ==
  /\ status[t] \in {"serving", "closing"} /\ gone[t] < runners[t]
  /\ gone' = [gone EXCEPT ![t] = @ + 1]
  /\ UNCHANGED <<controller, status, runners, recovered, adopted, launch, leftover>>

LeftoverExits(t) ==
  /\ leftover[t] > 0
  /\ leftover' = [leftover EXCEPT ![t] = @ - 1]
  /\ UNCHANGED <<controller, status, runners, gone, recovered, adopted, launch>>

(* settleStoppedRunner, always under the operation gate. *)
RemoveRecord(t) ==
  /\ status[t] \in {"serving", "closing"} /\ GateFree(t) /\ gone[t] > 0
  /\ runners' = [runners EXCEPT ![t] = @ - 1]
  /\ gone' = [gone EXCEPT ![t] = @ - 1]
  /\ UNCHANGED <<controller, status, recovered, adopted, launch, leftover>>

-----------------------------------------------------------------------------
Init ==
  /\ recovered \in [Targets -> 0..MaxRecovered]
  /\ members = [k \in {Recovered} |-> NewMember]
  /\ rotation = 0
  /\ reserving = Unlocked
  /\ status = [t \in Targets |-> "absent"]
  /\ runners = [t \in Targets |-> 0]
  /\ gone = [t \in Targets |-> 0]
  /\ adopted = [t \in Targets |-> 0]
  /\ launch = [t \in Targets |-> Idle]
  /\ leftover = [t \in Targets |-> 0]

Launching(t) == \/ StartContainer(t)
                \/ Track(t)
                \/ SettleLaunch(t)
                \/ SettleFailed(t)
                \/ SettleRest(t)

Starting(t) == StartController(t) \/ Recover(t) \/ RunController(t) \/ ForgetRecovered(t)

(* What happens while the manager stays up and every target is wanted. *)
Working ==
  \/ \E t \in Targets : \/ Starting(t)
                        \/ StartFails(t)
                        \/ \E want \in Wants : Reconcile(t, want)
                        \/ Launching(t)
                        \/ FailLaunch(t)
                        \/ ContainerExits(t)
                        \/ LeftoverExits(t)
                        \/ RemoveRecord(t)
  \/ CountMember
  \/ Grant

Next == \/ Working
        \/ \E t \in Targets : Retire(t) \/ Leave(t)
        \/ FullStop
        \/ Restart

Spec == Init /\ [][Next]_vars

-----------------------------------------------------------------------------
(* Properties. *)

(* Simultaneous scale-up never overshoots: whatever scalers, exits, starts,  *)
(* failed launches and restarts interleave, and however stale the counts     *)
(* reserve has read, the workers that run or may still be launched become    *)
(* more only within the ceiling, unless a container nobody tracks is left.   *)
CeilingKept ==
  [][Ceiling > 0 /\ Total(leftover) = 0 /\ Workers' > Workers => Workers' <= Ceiling]_vars

(* The controller's in-flight count of a target is exactly what its launch   *)
(* loop has yet to settle: no path through a failed launch leaks or returns  *)
(* an admission twice, and no scaler that reconciles is missing from the     *)
(* members, where reserve would admit whatever it asks for.                  *)
InFlightSettled ==
  \A t \in Targets :
    /\ t \in DOMAIN members =>
         members[t].inFlight = IF Ceiling > 0 THEN Unsettled(t) ELSE 0
    /\ status[t] \in {"serving", "closing"} => t \in DOMAIN members

(* The guaranteed shares of the members divide the ceiling, wherever the     *)
(* rotation stands after members joined and left.                            *)
SharesSplitCeiling == Total([k \in DOMAIN members |-> Share(k)]) = Ceiling

-----------------------------------------------------------------------------
(* What the autoscaling guide and admission.go say beyond this.  The code    *)
(* does not keep to these three: see the README.                             *)

(* CeilingKept with no exception: every worker that runs consumes the        *)
(* ceiling.                                                                  *)
EveryWorkerCounted == [][Ceiling > 0 /\ Workers' > Workers => Workers' <= Ceiling]_vars

(* Counts as reserve would read them with nothing else moving. *)
Held == [k \in DOMAIN members |-> HeldCount(k)]

(* "An idle target never strands the ceiling": while the ceiling has room    *)
(* and a target still waits for workers, some waiting target would be        *)
(* admitted one if it asked for what it waits for.                           *)
Waiting == {t \in Targets \intersect DOMAIN members : members[t].demand > 0}

NothingStranded ==
  (Mutex /\ Total(Held) < Ceiling /\ Waiting # {}) =>
    \E t \in Waiting : Admitted(t, members[t].demand, Held) > 0

(* "Each target is guaranteed a rotating fair share of the ceiling": what    *)
(* reserve admits to one target leaves every other target that waits the     *)
(* room to reach its share, as far as there was room.                        *)
Shortfall(k) == Larger(0, Smaller(members[k].demand, Share(k) - HeldCount(k)))

GuaranteeKept ==
  [][\A t, u \in Targets \intersect DOMAIN members :
       (/\ t # u /\ Shortfall(u) > 0
        /\ launch'[t].remaining > launch[t].remaining /\ HeldCount(t) >= Share(t)) =>
         Ceiling - Total(Held)' >= Smaller(Shortfall(u), Ceiling - Total(Held))]_vars
=============================================================================
