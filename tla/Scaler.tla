-------------------------------- MODULE Scaler --------------------------------
(***************************************************************************)
(* One target's runner scaler (manager/autoscaler/scaler.go) with the      *)
(* durable ledgers it keeps (launch_intent.go, registration_cleanup.go,    *)
(* registration_fence.go, host_lease_cleanup.go), its view of the host     *)
(* admission coordinator (host_admission.go) and the manager's recovery of *)
(* orphaned leases (manager.go), against a world of GitHub registrations,  *)
(* Docker containers and host leases that moves on its own.                *)
(*                                                                         *)
(* A runner is a number: the n-th name the target ever generates.  Its JIT *)
(* registration, container, lease slot and slot key are all called n, and  *)
(* < is the order the code sorts and ages them by.                         *)
(*                                                                         *)
(* The operation gate admits one operation at a time, so op is a single    *)
(* program counter.  One step makes one call to GitHub, Docker or the      *)
(* coordinator together with the local bookkeeping that follows it; the    *)
(* world, the manager and a crash may come between any two steps.  A call  *)
(* or a save has one of three outcomes: it succeeds, it fails, or it takes *)
(* effect although an error is reported (a timeout, or the directory sync  *)
(* of state_files.go after the rename).                                    *)
(*                                                                         *)
(* Retry deadlines are not counted: a retry that is not due is Deferred.   *)
(* The profile has no worker ceiling here, so reserve admits what is       *)
(* asked; ProfileCeiling models the ceiling.                               *)
(***************************************************************************)
EXTENDS Integers, FiniteSets

CONSTANTS
  Runners,        \* 1..n, the names the target may generate
  HostAdmission,  \* whether host admission is enabled
  FaultKinds,     \* the parties whose calls may fail
  MaxFaults,      \* bound: failures in one behaviour
  MaxCrashes,     \* bound: crashes of the manager in one behaviour
  MaxStops,       \* bound: full stops in one behaviour
  Targets,        \* the numbers of slots the target may be asked for
  Requests,       \* what the manager may ask for: "maximum", "retire"
  Upgrades        \* whether a recovered worker may have an old revision

ASSUME RunnersAssumption == Runners = 1..Cardinality(Runners) /\ IsFiniteSet(Runners)
ASSUME FlagsAssumption == /\ HostAdmission \in BOOLEAN
                          /\ FaultKinds \subseteq {"github", "docker", "coordinator",
                                                   "disk", "worker"}
                          /\ Requests \subseteq {"maximum", "retire"}
                          /\ Upgrades \subseteq BOOLEAN
ASSUME LimitsAssumption == /\ MaxFaults \in Nat /\ Targets \subseteq Nat /\ IsFiniteSet(Targets)
                           /\ MaxCrashes \in Nat /\ MaxStops \in Nat

VARIABLES
  reg,        \* GitHub's view of each registration
  container,  \* Docker's view of each container
  lease,      \* the coordinator's lease of each runner
  fence,      \* the profile's adoption fence
  worker,     \* s.runners
  mem,        \* the ledgers in memory
  disk,       \* the ledgers on disk
  ctl,        \* the scaler's other fields
  op,         \* the operation that holds the gate
  leaving,    \* the goroutines of a full stop
  scan,       \* the manager's list of recovered containers
  used,       \* names generated so far
  faults, crashes, stops

world == <<reg, container, lease, fence>>
memory == <<worker, mem, ctl, leaving, scan>>
bounds == <<used, crashes, stops>>
vars == <<world, memory, disk, op, bounds, faults>>

None == 0

NoWorker == [state |-> "none", protected |-> FALSE, stale |-> FALSE,
             removed |-> FALSE, adopted |-> FALSE]

NoLedgers == [intent   |-> None,
              cleanups |-> {},
              releases |-> {},
              fences   |-> [r \in Runners |-> "none"]]

NewControl == [target |-> 0, wait |-> "none", retiring |-> FALSE,
               stopping |-> FALSE, backoff |-> {}, errors |-> {}]

NoUndo == [target |-> -1, wait |-> "none"]

NoOp == [at |-> "idle", r |-> None, why |-> "none", phase |-> 0, left |-> 0,
         prev |-> "none", held |-> FALSE, undo |-> NoUndo, failed |-> FALSE]

OpenFence == [up |-> FALSE, pending |-> {}]

Locations == {"idle", "enter", "reconcile", "launch", "intent", "jit", "bind", "renew",
              "create", "confirm", "activate", "start", "run", "insert", "abandon",
              "remove", "discard", "free", "drain", "deregister", "stop", "settle",
              "release", "unregister", "down", "open", "recover", "revive", "leave"}

Reasons == {"none", "launch", "withheld", "recovery", "retry", "stale", "scale-down",
            "cleanup", "exit", "liveness"}

States == {"none", "starting", "idle", "busy", "draining", "cleanup-pending"}

Purposes == {"none", "scale-down", "stale", "shutdown"}

Workers == [state : States, protected : BOOLEAN, stale : BOOLEAN, removed : BOOLEAN,
            adopted : BOOLEAN]

Ledgers == [intent : Runners \cup {None}, cleanups : SUBSET Runners,
            releases : SUBSET Runners, fences : [Runners -> Purposes]]

Waits == {"none", "waiting", "due"}

Controls == [target : Targets \cup {0}, wait : Waits, retiring : BOOLEAN,
             stopping : BOOLEAN, backoff : SUBSET {"launch", "exit"},
             errors : SUBSET {"intent", "cleanup", "fence"}]

Operations == [at : Locations, r : Runners \cup {None}, why : Reasons, phase : 0..8,
               left : Nat, prev : States, held : BOOLEAN,
               undo : {NoUndo} \cup [target : Targets \cup {0}, wait : Waits],
               failed : BOOLEAN]

TypeOK ==
  /\ reg \in [Runners -> {"none", "idle", "assigned", "done"}]
  /\ container \in [Runners -> {"absent", "created", "running"}]
  /\ lease \in [Runners -> {"absent", "provisional", "active"}]
  /\ fence \in [up : BOOLEAN, pending : SUBSET Runners]
  /\ worker \in [Runners -> Workers]
  /\ mem \in Ledgers /\ disk \in Ledgers
  /\ ctl \in Controls
  /\ op \in Operations
  /\ leaving \in [Runners -> {"none", "fence", "remove", "stop", "settle", "release", "kept"}]
  /\ scan \in [Runners -> {"absent", "created", "running"}]
  /\ used \in 0..Cardinality(Runners)
  /\ faults \in 0..MaxFaults /\ crashes \in 0..MaxCrashes /\ stops \in 0..MaxStops

-----------------------------------------------------------------------------
(* Outcomes of calls and saves, and the failures they use up.              *)

Outcomes(kind) == {"ok"} \cup (IF kind \in FaultKinds THEN {"lost", "failed"} ELSE {})

Happened(o) == o # "failed"

Cost(o) == IF o = "ok" THEN 0 ELSE 1

Spend(n) == faults + n <= MaxFaults /\ faults' = faults + n

(* What GitHub answers to removeRunner, and the registration afterwards.   *)
(* A registration that is not there is a success (registrationRemovalError)*)
(* and one with a job is refused.                                          *)
Removals(r) ==
  (IF reg[r] = "assigned"
   THEN {[answer |-> "refused", reg |-> "assigned", cost |-> 0]}
   ELSE {[answer |-> "removed", reg |-> IF reg[r] = "idle" THEN "none" ELSE reg[r],
          cost |-> 0]})
  \cup
  (IF "github" \in FaultKinds
   THEN {[answer |-> "error", reg |-> reg[r], cost |-> 1]}
        \cup (IF reg[r] = "idle" THEN {[answer |-> "error", reg |-> "none", cost |-> 1]}
              ELSE {})
   ELSE {})

-----------------------------------------------------------------------------
(* The ledgers.  A save writes the whole ledger from memory; a failed save *)
(* of an intent, cleanup or fence ledger is remembered in ctl.errors until *)
(* that ledger is next saved.                                              *)

WithError(errors, ledger, o) == IF o = "ok" THEN errors \ {ledger} ELSE errors \cup {ledger}

Written(o, old, new) == IF Happened(o) THEN new ELSE old

Live(r) == worker[r].state # "none"

Counted(w) == {r \in Runners : w[r].state \notin {"none", "draining", "cleanup-pending"}}

Capacity == Cardinality(Counted(worker))

Unadopted == {r \in Runners : HostAdmission /\ Live(r) /\ ~worker[r].adopted}

Fenced(r) == mem.fences[r] # "none"

Idle == {r \in Runners : worker[r].state = "idle" /\ ~worker[r].protected /\ ~Fenced(r)}

-----------------------------------------------------------------------------
(* Entering and leaving reconcileLocked.  A failed setMaximum puts the old *)
(* maximum back and reconciles once more.                                  *)

Serving ==
  /\ op.at \notin {"down", "open", "recover", "revive", "leave"}
  /\ op.why # "recovery"

Gate == op.at = "idle" /\ ~ctl.stopping

Enter == [NoOp EXCEPT !.at = "enter"]

Cursor(q, r) == [op EXCEPT !.at = "reconcile", !.phase = q, !.r = r, !.why = "none",
                           !.prev = "none"]

Failing(o) == [o EXCEPT !.failed = @ \/ o.undo # NoUndo]

(* reconcileLocked returns, with an error or without; c is the scaler's    *)
(* state apart from a maximum that has to be put back.                     *)
Return(c, failed) ==
  IF op.undo # NoUndo /\ (failed \/ op.failed)
  THEN ctl' = [c EXCEPT !.target = op.undo.target, !.wait = op.undo.wait] /\ op' = Enter
  ELSE ctl' = c /\ op' = NoOp

Tick ==
  /\ Gate
  /\ op' = Enter
  /\ UNCHANGED <<world, memory, disk, bounds, faults>>

(* Wrong: the demand is not clamped at the maximum. *)
HandleDesiredUnclamped(n) ==
  /\ Gate
  /\ ctl' = [ctl EXCEPT !.target = IF ctl.retiring THEN 0 ELSE n + 1]
  /\ op' = Enter
  /\ UNCHANGED <<world, worker, mem, leaving, scan, disk, bounds, faults>>

(* Wrong: demand revives a target that is retiring. *)
HandleDesiredWhileRetiring(n) ==
  /\ Gate
  /\ ctl' = [ctl EXCEPT !.target = n]
  /\ op' = Enter
  /\ UNCHANGED <<world, worker, mem, leaving, scan, disk, bounds, faults>>

HandleDesiredRunnerCount(n) ==
  /\ Gate
  /\ ctl' = [ctl EXCEPT !.target = IF ctl.retiring THEN 0 ELSE n]
  /\ op' = Enter
  /\ UNCHANGED <<world, worker, mem, leaving, scan, disk, bounds, faults>>

SetMaximum(n) ==
  /\ Gate /\ "maximum" \in Requests
  /\ ctl' = [ctl EXCEPT !.target = IF ctl.retiring THEN 0 ELSE n]
  /\ op' = [Enter EXCEPT !.undo = [target |-> ctl.target, wait |-> ctl.wait]]
  /\ UNCHANGED <<world, worker, mem, leaving, scan, disk, bounds, faults>>

BeginRetirement ==
  /\ Gate /\ "retire" \in Requests
  /\ ctl' = [ctl EXCEPT !.retiring = TRUE, !.target = 0, !.wait = "due"]
  /\ op' = Enter
  /\ UNCHANGED <<world, worker, mem, leaving, scan, disk, bounds, faults>>

Reactivate(n) ==
  /\ Gate
  /\ ctl.retiring
  /\ ctl' = [ctl EXCEPT !.retiring = FALSE, !.target = n, !.wait = "none"]
  /\ op' = Enter
  /\ UNCHANGED <<world, worker, mem, leaving, scan, disk, bounds, faults>>

(* A ledger that could not be saved or read stops the target. *)
FailClosed ==
  /\ op.at = "enter"
  /\ ctl.errors # {}
  /\ Return(ctl, TRUE)
  /\ UNCHANGED <<world, worker, mem, leaving, scan, disk, bounds, faults>>

StartReconcile ==
  /\ op.at = "enter"
  /\ ctl.errors = {}
  /\ op' = [op EXCEPT !.at = "reconcile"]
  /\ UNCHANGED <<world, memory, disk, bounds, faults>>

-----------------------------------------------------------------------------
(* startRunner, one call at a time.  A launch that fails before its        *)
(* container is known drops the registration its intent names; later it    *)
(* moves the registration to the cleanup ledger first.                     *)

At(location) == op.at = location

Goto(location) == [op EXCEPT !.at = location]

FailLaunch(location, why) == [op EXCEPT !.at = location, !.why = why]

(* The coordinator may decline, and declines while any profile is fenced. *)
Acquire ==
  /\ At("launch") /\ op.left > 0 /\ HostAdmission
  /\ used < Cardinality(Runners)
  /\ \E o \in Outcomes("coordinator") \cup {"denied"} :
       LET granted == o \in {"ok", "lost"}
       IN  /\ granted => ~fence.up
           /\ Spend(IF o \in {"ok", "denied"} THEN 0 ELSE 1)
           /\ used' = IF granted THEN used + 1 ELSE used
           /\ lease' = IF granted THEN [lease EXCEPT ![used + 1] = "provisional"] ELSE lease
           /\ IF o = "ok" THEN op' = [op EXCEPT !.at = "intent", !.r = used + 1]
                              /\ UNCHANGED ctl
              ELSE Return(ctl, TRUE)
  /\ UNCHANGED <<reg, container, fence, worker, mem, leaving, scan, disk, crashes, stops>>

NameWithoutLease ==
  /\ At("launch") /\ op.left > 0 /\ ~HostAdmission
  /\ used < Cardinality(Runners)
  /\ used' = used + 1
  /\ op' = [op EXCEPT !.at = "intent", !.r = used + 1]
  /\ UNCHANGED <<world, memory, disk, crashes, stops, faults>>

(* Wrong: the intent stays in memory until the registration is known. *)
BeginLaunchIntentUnsaved ==
  /\ At("intent")
  /\ mem' = [mem EXCEPT !.intent = op.r]
  /\ op' = Goto("jit")
  /\ UNCHANGED <<world, worker, ctl, leaving, scan, disk, bounds, faults>>

(* The launch intent is on disk before GitHub is asked for a registration. *)
BeginLaunchIntent ==
  /\ At("intent")
  /\ \E o \in Outcomes("disk") :
       /\ Spend(Cost(o))
       /\ mem' = [mem EXCEPT !.intent = IF o = "ok" THEN op.r ELSE @]
       /\ disk' = [disk EXCEPT !.intent = Written(o, @, op.r)]
       /\ ctl' = [ctl EXCEPT !.errors = WithError(@, "intent", o)]
       /\ op' = IF o = "ok" THEN Goto("jit") ELSE FailLaunch("free", "launch")
  /\ UNCHANGED <<world, worker, leaving, scan, bounds>>

(* The registration exists once GitHub has generated its configuration; the *)
(* intent is saved again with the registration's number.                    *)
GenerateJIT ==
  /\ At("jit")
  /\ \E o \in Outcomes("github"), saved \in Outcomes("disk") :
       /\ o # "ok" => saved = "ok"
       /\ Spend(Cost(o) + Cost(saved))
       /\ reg' = IF Happened(o) THEN [reg EXCEPT ![op.r] = "idle"] ELSE reg
       /\ ctl' = [ctl EXCEPT !.errors = IF o = "ok" THEN WithError(@, "intent", saved) ELSE @]
       /\ disk' = [disk EXCEPT !.intent = IF o = "ok" THEN Written(saved, @, op.r) ELSE @]
       /\ op' = IF o # "ok" \/ saved # "ok" THEN FailLaunch("free", "launch")
                ELSE IF HostAdmission     THEN Goto("bind")
                ELSE Goto("run")
  /\ UNCHANGED <<container, lease, fence, worker, mem, leaving, scan, bounds>>

(* BindRegistration, Renew and Activate all refuse a lease that is gone.   *)
BindRegistration ==
  /\ At("bind")
  /\ \E o \in Outcomes("coordinator") :
       /\ Spend(Cost(o))
       /\ op' = IF o = "ok" /\ lease[op.r] # "absent" THEN Goto("renew")
                ELSE FailLaunch("remove", "withheld")
  /\ UNCHANGED <<world, memory, disk, bounds>>

RenewBeforeCreate ==
  /\ At("renew")
  /\ \E o \in Outcomes("coordinator") :
       /\ Spend(Cost(o))
       /\ op' = IF o = "ok" /\ lease[op.r] # "absent" THEN Goto("create")
                ELSE FailLaunch("remove", "withheld")
  /\ UNCHANGED <<world, memory, disk, bounds>>

(* A failed create names no container, though Docker may have made one. *)
CreateContainer ==
  /\ At("create")
  /\ \E o \in Outcomes("docker") :
       /\ Spend(Cost(o))
       /\ container' = IF Happened(o) THEN [container EXCEPT ![op.r] = "created"] ELSE container
       /\ op' = IF o = "ok" THEN Goto("confirm") ELSE FailLaunch("remove", "launch")
  /\ UNCHANGED <<reg, lease, fence, memory, disk, bounds>>

RenewBeforeActivate ==
  /\ At("confirm")
  /\ \E o \in Outcomes("coordinator") :
       /\ Spend(Cost(o))
       /\ op' = IF o = "ok" /\ lease[op.r] # "absent" THEN Goto("activate")
                ELSE FailLaunch("abandon", "withheld")
  /\ UNCHANGED <<world, memory, disk, bounds>>

Activate ==
  /\ At("activate")
  /\ \E o \in Outcomes("coordinator") :
       /\ Spend(Cost(o))
       /\ lease' = IF Happened(o) /\ lease[op.r] # "absent"
                   THEN [lease EXCEPT ![op.r] = "active"] ELSE lease
       /\ op' = IF o = "ok" /\ lease[op.r] # "absent" THEN Goto("start")
                ELSE FailLaunch("abandon", "withheld")
  /\ UNCHANGED <<reg, container, fence, memory, disk, bounds>>

StartContainer ==
  /\ At("start")
  /\ \E o \in Outcomes("docker") :
       /\ Spend(Cost(o))
       /\ container' = IF Happened(o) THEN [container EXCEPT ![op.r] = "running"] ELSE container
       /\ op' = IF o = "ok" THEN Goto("insert") ELSE FailLaunch("abandon", "launch")
  /\ UNCHANGED <<reg, lease, fence, memory, disk, bounds>>

RunContainer ==
  /\ At("run")
  /\ \E o \in Outcomes("docker") :
       /\ Spend(Cost(o))
       /\ container' = IF Happened(o) THEN [container EXCEPT ![op.r] = "running"] ELSE container
       /\ op' = IF o = "ok" THEN Goto("insert") ELSE FailLaunch("remove", "launch")
  /\ UNCHANGED <<reg, lease, fence, memory, disk, bounds>>

(* The worker is recorded and its intent cleared, unless a full stop has   *)
(* begun.  A failure to clear the intent is only reported.                 *)
InsertRunner ==
  /\ At("insert") /\ ~ctl.stopping
  /\ \E o \in Outcomes("disk") \ {"lost"} :
       /\ Spend(Cost(o))
       /\ worker' = [worker EXCEPT ![op.r] = [NoWorker EXCEPT !.state = "starting",
                                                             !.adopted = HostAdmission]]
       /\ mem' = [mem EXCEPT !.intent = IF o = "ok" THEN None ELSE @]
       /\ disk' = [disk EXCEPT !.intent = Written(o, @, None)]
       /\ ctl' = [ctl EXCEPT !.errors = WithError(@, "intent", o),
                             !.backoff = @ \ {"launch"}]
       /\ op' = [op EXCEPT !.at = "launch", !.r = None, !.left = @ - 1]
  /\ UNCHANGED <<world, leaving, scan, bounds>>

InsertDuringShutdown ==
  /\ At("insert") /\ ctl.stopping
  /\ op' = FailLaunch("abandon", "launch")
  /\ UNCHANGED <<world, memory, disk, bounds, faults>>

EndLaunches ==
  /\ At("launch")
  /\ op.left = 0 \/ used = Cardinality(Runners)
  /\ Return(ctl, FALSE)
  /\ UNCHANGED <<world, worker, mem, leaving, scan, disk, bounds, faults>>

-----------------------------------------------------------------------------
(* Where an operation goes on when a sub-procedure is done: op.why says    *)
(* who asked for it, err whether it failed.                                *)

Continue(c, err) ==
  LET next == CASE op.why = "recovery" ->
                     [NoOp EXCEPT !.at = IF err \/ op.failed THEN "open" ELSE "recover",
                                  !.r  = IF err \/ op.failed THEN None ELSE op.r]
                [] op.why = "scale-down"          -> Goto("drain")
                [] op.why \in {"exit", "liveness"} -> Goto("unregister")
                [] OTHER                          -> Cursor(op.phase, op.r)
  IN  CASE op.why = "launch"   -> Return([c EXCEPT !.backoff = @ \cup {"launch"}], TRUE)
        [] op.why = "withheld" -> Return(c, TRUE)
        [] OTHER               -> ctl' = c /\ op' = IF err THEN Failing(next) ELSE next

Missed == IF op.why = "recovery" THEN [op EXCEPT !.failed = TRUE] ELSE op

(* removeRegistrationOrEnqueue for a runner with a container: the cleanup  *)
(* is on disk before the intent is cleared.  The intent cleared is the     *)
(* target's only one, whichever runner it names.                           *)
AbandonRegistration ==
  /\ At("abandon")
  /\ \E o \in Outcomes("disk"), cleared \in Outcomes("disk") \ {"lost"} :
       /\ o # "ok" => cleared = "ok"
       /\ Spend(Cost(o) + Cost(cleared))
       /\ LET pending == mem.cleanups \cup {op.r}
              both    == o = "ok" /\ cleared = "ok"
          IN  /\ mem' = [mem EXCEPT !.cleanups = pending, !.intent = IF both THEN None ELSE @]
              /\ disk' = [disk EXCEPT !.cleanups = Written(o, @, pending),
                                      !.intent = IF both THEN None ELSE @]
              /\ ctl' = [ctl EXCEPT !.errors =
                           IF o # "ok" THEN @ \cup {"cleanup"}
                           ELSE WithError(@ \ {"cleanup"}, "intent", cleared)]
              /\ op' = IF both THEN Goto("remove") ELSE [Missed EXCEPT !.at = "discard"]
  /\ UNCHANGED <<world, worker, leaving, scan, bounds>>

(* The registration of an abandoned runner, which is the one its intent    *)
(* names unless the cleanup ledger holds it.                               *)
RemoveRegistration ==
  /\ At("remove")
  /\ \E a \in Removals(op.r), saved \in Outcomes("disk") :
       LET gone   == a.answer = "removed"
           queued == op.r \in mem.cleanups
           then   == IF gone /\ (queued \/ saved = "ok") THEN op ELSE Missed
       IN  /\ ~gone => saved = "ok"
           /\ ~queued => saved # "lost"
           /\ Spend(a.cost + Cost(saved))
           /\ reg' = [reg EXCEPT ![op.r] = a.reg]
           /\ IF gone /\ queued
              THEN /\ mem' = [mem EXCEPT !.cleanups = @ \ {op.r}]
                   /\ disk' = [disk EXCEPT !.cleanups = Written(saved, @, mem.cleanups \ {op.r})]
                   /\ ctl' = [ctl EXCEPT !.errors = WithError(@, "cleanup", saved)]
              ELSE IF gone
              THEN /\ mem' = [mem EXCEPT !.intent = IF saved = "ok" THEN None ELSE @]
                   /\ disk' = [disk EXCEPT !.intent = Written(saved, @, None)]
                   /\ ctl' = [ctl EXCEPT !.errors = WithError(@, "intent", saved)]
              ELSE UNCHANGED <<mem, disk, ctl>>
           /\ op' = [then EXCEPT !.at = IF queued THEN "discard" ELSE "free"]
  /\ UNCHANGED <<container, lease, fence, worker, leaving, scan, bounds>>

DiscardContainer ==
  /\ At("discard")
  /\ \E o \in Outcomes("docker") :
       /\ Spend(Cost(o))
       /\ container' = IF Happened(o) THEN [container EXCEPT ![op.r] = "absent"] ELSE container
       /\ op' = [(IF o = "ok" THEN op ELSE Missed) EXCEPT !.at = "free"]
  /\ UNCHANGED <<reg, lease, fence, memory, disk, bounds>>

(* releaseHostLeaseOrEnqueue: the release is queued on disk before it is    *)
(* asked for; a failure to save it is only reported.                       *)
QueueRelease ==
  /\ At("free") /\ HostAdmission
  /\ \E o \in Outcomes("disk") :
       LET pending == mem.releases \cup {op.r}
       IN  /\ Spend(Cost(o))
           /\ mem' = [mem EXCEPT !.releases = pending]
           /\ disk' = [disk EXCEPT !.releases = Written(o, @, pending)]
  /\ op' = Goto("release")
  /\ UNCHANGED <<world, worker, ctl, leaving, scan, bounds>>

NothingToRelease ==
  /\ At("free") /\ ~HostAdmission
  /\ Continue(ctl, FALSE)
  /\ UNCHANGED <<world, worker, mem, leaving, scan, disk, bounds, faults>>

(* The coordinator drops r's lease; a lease that is gone is a success.     *)
Released(r, o) ==
  /\ lease' = IF Happened(o) THEN [lease EXCEPT ![r] = "absent"] ELSE lease
  /\ fence' = IF Happened(o) THEN [fence EXCEPT !.pending = @ \ {r}] ELSE fence

(* attemptPendingHostLeaseRelease: r leaves the queue on success and stays  *)
(* in it, or rejoins it, on failure.                                       *)
AttemptRelease(r, o, saved) ==
  LET pending == IF o = "ok" THEN mem.releases \ {r} ELSE mem.releases \cup {r}
  IN  /\ Spend(Cost(o) + Cost(saved))
      /\ Released(r, o)
      /\ mem' = [mem EXCEPT !.releases = pending]
      /\ disk' = [disk EXCEPT !.releases = Written(saved, @, pending)]

Release ==
  /\ At("release")
  /\ \E o \in Outcomes("coordinator"), saved \in Outcomes("disk") :
       /\ AttemptRelease(op.r, o, saved)
       /\ Continue(ctl, o # "ok")
  /\ UNCHANGED <<reg, container, worker, leaving, scan, bounds>>


-----------------------------------------------------------------------------
(* The phases of reconcileLocked before it compares capacity with the      *)
(* target: each goes through its runners in order.  Work(q, r) says that   *)
(* phase q has something to do for r.                                      *)

Work(q, r) ==
  CASE q = 1 -> r \in Unadopted
    [] q = 2 -> ~op.held /\ mem.intent = r
    [] q = 3 -> r \in mem.releases
    [] q = 4 -> r \in mem.cleanups
    [] q = 5 -> Fenced(r)
    [] q = 6 -> worker[r].state = "cleanup-pending"
    [] q = 7 -> /\ worker[r].stale /\ ~worker[r].removed
                /\ worker[r].state \notin {"none", "busy", "draining", "cleanup-pending"}
    [] q = 8 -> Live(r) /\ container[r] = "absent"

Ahead == {i \in (1..8) \X Runners :
            /\ i[1] > op.phase \/ (i[1] = op.phase /\ i[2] > op.r)
            /\ Work(i[1], i[2])}

AtItem(q, r) ==
  /\ At("reconcile")
  /\ <<q, r>> \in Ahead
  /\ \A i \in Ahead : i[1] > q \/ (i[1] = q /\ i[2] >= r)

(* A retry whose deadline has not come, a stale runner whose fence waits,  *)
(* or a container confirmed too recently to be probed again.               *)
Defer(q, r) ==
  /\ AtItem(q, r)
  /\ \/ q = 2 /\ ~Live(r)
     \/ q \in {3, 5, 8}
     \/ q = 4 /\ (~Live(r) \/ worker[r].removed)
     \/ q = 7 /\ Fenced(r)
  /\ op' = Cursor(q, r)
  /\ UNCHANGED <<world, memory, disk, bounds, faults>>

(* The coordinator keeps or makes an active lease for a running worker. *)
Adopted(r, o) ==
  /\ lease' = IF Happened(o) THEN [lease EXCEPT ![r] = "active"] ELSE lease
  /\ fence' = IF Happened(o) THEN [fence EXCEPT !.pending = @ \ {r}] ELSE fence

RetryAdoption(r) ==
  /\ AtItem(1, r)
  /\ \E o \in Outcomes("coordinator") :
       /\ Spend(Cost(o))
       /\ Adopted(r, o)
       /\ worker' = [worker EXCEPT ![r].adopted = o = "ok"]
       /\ op' = IF o = "ok" THEN Cursor(1, r) ELSE Failing([Cursor(1, r) EXCEPT !.held = TRUE])
  /\ UNCHANGED <<reg, container, mem, ctl, leaving, scan, disk, bounds>>

(* Wrong: the intent is cleared without removing what it names. *)
RetryLaunchIntentForgets(r) ==
  /\ AtItem(2, r)
  /\ mem' = [mem EXCEPT !.intent = None]
  /\ disk' = [disk EXCEPT !.intent = None]
  /\ op' = Cursor(2, r)
  /\ UNCHANGED <<world, worker, ctl, leaving, scan, bounds, faults>>

(* A pending launch whose runner is live is over; otherwise its            *)
(* registration is looked up by name and removed, then the intent cleared. *)
RetryLaunchIntent(r) ==
  /\ AtItem(2, r)
  /\ \E saved \in Outcomes("disk"), a \in Removals(r), cleared \in Outcomes("disk") \ {"lost"} :
       LET asked == ~Live(r) /\ saved = "ok"
           over  == Live(r) \/ (asked /\ a.answer = "removed")
           done  == over /\ cleared = "ok"
       IN  /\ Live(r) => saved = "ok"
           /\ ~asked => a.cost = 0
           /\ ~over => cleared = "ok"
           /\ Spend(Cost(saved) + a.cost + Cost(cleared))
           /\ reg' = IF asked THEN [reg EXCEPT ![r] = a.reg] ELSE reg
           /\ mem' = [mem EXCEPT !.intent = IF done THEN None ELSE @]
           /\ disk' = [disk EXCEPT !.intent = IF done THEN None ELSE @]
           /\ ctl' = [ctl EXCEPT !.errors =
                        WithError(@, "intent", IF saved = "ok" THEN cleared ELSE saved)]
           /\ op' = IF done THEN Cursor(2, r) ELSE Failing(Cursor(2, r))
  /\ UNCHANGED <<container, lease, fence, worker, leaving, scan, bounds>>

(* Wrong: a release is asked for once more and then forgotten. *)
RetryReleaseOnce(r) ==
  /\ AtItem(3, r)
  /\ \E o \in Outcomes("coordinator") :
       /\ Spend(Cost(o))
       /\ Released(r, o)
  /\ mem' = [mem EXCEPT !.releases = @ \ {r}]
  /\ disk' = [disk EXCEPT !.releases = mem'.releases]
  /\ op' = Cursor(3, r)
  /\ UNCHANGED <<reg, container, worker, ctl, leaving, scan, bounds>>

(* A queued release is asked for again, whatever its runner is doing. *)
RetryRelease(r) ==
  /\ AtItem(3, r)
  /\ \E o \in Outcomes("coordinator"), saved \in Outcomes("disk") :
       /\ AttemptRelease(r, o, saved)
       /\ op' = IF o = "ok" THEN Cursor(3, r) ELSE Failing(Cursor(3, r))
  /\ UNCHANGED <<reg, container, worker, ctl, leaving, scan, bounds>>

(* A queued cleanup is dropped when a live worker holds the registration.  *)
RetryRegistration(r) ==
  /\ AtItem(4, r)
  /\ \E saved \in Outcomes("disk"), a \in Removals(r), resolved \in Outcomes("disk") :
       LET held  == Live(r) /\ ~worker[r].removed
           asked == ~held /\ saved = "ok"
           done  == held \/ (asked /\ a.answer = "removed")
           first == Written(saved, disk.cleanups, mem.cleanups)
       IN  /\ held => saved = "ok"
           /\ ~asked => a.cost = 0
           /\ ~done => resolved = "ok"
           /\ Spend(Cost(saved) + a.cost + Cost(resolved))
           /\ reg' = IF asked THEN [reg EXCEPT ![r] = a.reg] ELSE reg
           /\ mem' = [mem EXCEPT !.cleanups = IF done THEN @ \ {r} ELSE @]
           /\ disk' = [disk EXCEPT !.cleanups =
                         IF done THEN Written(resolved, IF held THEN @ ELSE first,
                                              mem.cleanups \ {r})
                         ELSE first]
           /\ ctl' = [ctl EXCEPT !.errors =
                        WithError(@, "cleanup", IF saved = "ok" THEN resolved ELSE saved)]
           /\ op' = IF done THEN Cursor(4, r) ELSE Failing(Cursor(4, r))
  /\ UNCHANGED <<container, lease, fence, worker, leaving, scan, bounds>>

(* resolvePendingRegistrationFence: a failed save is only remembered. *)
ResolvedFence(r, saved, errors) ==
  /\ mem' = [mem EXCEPT !.fences[r] = "none"]
  /\ disk' = [disk EXCEPT !.fences = Written(saved, @, mem'.fences)]
  /\ ctl' = [ctl EXCEPT !.errors = WithError(errors, "fence", saved)]

(* The worker of a fence is gone: its registration goes to the cleanup     *)
(* ledger, the fence is dropped and the registration removed.              *)
FenceToCleanup(r) ==
  /\ AtItem(5, r) /\ ~Live(r)
  /\ \E o \in Outcomes("disk"), saved \in Outcomes("disk") :
       LET pending == mem.cleanups \cup {r}
       IN  /\ o # "ok" => saved = "ok"
           /\ Spend(Cost(o) + Cost(saved))
           /\ mem' = [mem EXCEPT !.cleanups = pending,
                                 !.fences[r] = IF o = "ok" THEN "none" ELSE @]
           /\ disk' = [disk EXCEPT !.cleanups = Written(o, @, pending),
                                   !.fences = IF o = "ok" THEN Written(saved, @, mem'.fences)
                                              ELSE @]
           /\ ctl' = [ctl EXCEPT !.errors =
                        IF o = "ok" THEN WithError(@ \ {"cleanup"}, "fence", saved)
                        ELSE @ \cup {"cleanup"}]
           /\ op' = IF o = "ok" THEN [op EXCEPT !.at = "unregister", !.why = "retry",
                                                !.phase = 5, !.r = r]
                    ELSE Failing(Cursor(5, r))
  /\ UNCHANGED <<world, worker, leaving, scan, bounds>>

(* Wrong: a scale-down fence is carried out although demand came back. *)
FenceMootIgnoringDemand(r) ==
  \/ mem.fences[r] = "stale" /\ ~worker[r].stale
  \/ worker[r].state = "busy" \/ worker[r].removed

(* A fence that no longer has a reason, or whose worker must not be        *)
(* touched, is dropped.                                                    *)
FenceMoot(r) ==
  \/ mem.fences[r] = "scale-down" /\ Capacity <= ctl.target
  \/ mem.fences[r] = "stale" /\ ~worker[r].stale
  \/ worker[r].state = "busy" \/ worker[r].removed

CancelFence(r) ==
  /\ AtItem(5, r) /\ Live(r) /\ FenceMoot(r)
  /\ \E saved \in Outcomes("disk") :
       /\ Spend(Cost(saved))
       /\ ResolvedFence(r, saved, ctl.errors)
  /\ op' = Cursor(5, r)
  /\ UNCHANGED <<world, worker, leaving, scan, bounds>>

(* r starts to drain once its fence for the given purpose is on disk; an   *)
(* older fence keeps its purpose.                                          *)
BeginFence(r, purpose, o) ==
  LET fences == [mem.fences EXCEPT ![r] = IF @ = "none" THEN purpose ELSE @]
  IN  /\ Spend(Cost(o))
      /\ mem' = [mem EXCEPT !.fences = fences]
      /\ disk' = [disk EXCEPT !.fences = Written(o, @, fences)]
      /\ worker' = IF o = "ok" THEN [worker EXCEPT ![r].state = "draining"] ELSE worker

Draining(q, r, why) ==
  [op EXCEPT !.at = "deregister", !.why = why, !.phase = q, !.r = r,
             !.prev = worker[r].state]

RetryFence(r) ==
  /\ AtItem(5, r) /\ Live(r) /\ ~FenceMoot(r)
  /\ \E o \in Outcomes("disk") :
       /\ BeginFence(r, mem.fences[r], o)
       /\ ctl' = [ctl EXCEPT !.errors = WithError(@, "fence", o)]
       /\ op' = IF o = "ok" THEN Draining(5, r, "retry") ELSE Failing(Cursor(5, r))
  /\ UNCHANGED <<world, leaving, scan, bounds>>

RetireStale(r) ==
  /\ AtItem(7, r)
  /\ \E o \in Outcomes("disk") :
       /\ BeginFence(r, "stale", o)
       /\ ctl' = [ctl EXCEPT !.errors = WithError(@, "fence", o)]
       /\ op' = IF o = "ok" THEN Draining(7, r, "stale") ELSE Failing(Cursor(7, r))
  /\ UNCHANGED <<world, leaving, scan, bounds>>

RetryCleanup(r) ==
  /\ AtItem(6, r)
  /\ \E o \in Outcomes("docker") :
       /\ Spend(Cost(o))
       /\ container' = IF Happened(o) THEN [container EXCEPT ![r] = "absent"] ELSE container
       /\ op' = IF o = "ok"
                THEN [op EXCEPT !.at = "settle", !.why = "cleanup", !.phase = 6, !.r = r]
                ELSE Failing(Cursor(6, r))
  /\ UNCHANGED <<reg, lease, fence, memory, disk, bounds>>


-----------------------------------------------------------------------------
(* The steps shared by fence retries, stale runners and scale-down: the    *)
(* registration first, then the container, then the lease.                 *)

(* Wrong: the worker is stopped whatever GitHub answers. *)
DeregisterAnyway ==
  /\ At("deregister")
  /\ \E a \in Removals(op.r) :
       /\ Spend(a.cost)
       /\ reg' = [reg EXCEPT ![op.r] = a.reg]
  /\ mem' = [mem EXCEPT !.fences[op.r] = "none"]
  /\ disk' = [disk EXCEPT !.fences = mem'.fences]
  /\ op' = Goto("stop")
  /\ UNCHANGED <<container, lease, fence, worker, ctl, leaving, scan, bounds>>

(* Scale-down stops at the first registration it cannot remove. *)
Deregister ==
  /\ At("deregister")
  /\ \E a \in Removals(op.r), saved \in Outcomes("disk") :
       LET state == CASE a.answer = "refused" -> "busy"
                      [] a.answer = "error"   -> op.prev
                      [] OTHER                -> "draining"
           after == [worker EXCEPT
                       ![op.r].state     = state,
                       ![op.r].protected = @ /\ a.answer # "refused",
                       ![op.r].removed   = @ \/ (a.answer = "removed" /\ op.why = "retry")]
           fences == IF a.answer = "error" THEN mem.fences
                     ELSE [mem.fences EXCEPT ![op.r] = "none"]
           errors == IF a.answer = "error" THEN ctl.errors
                     ELSE WithError(ctl.errors, "fence", saved)
           c == [ctl EXCEPT !.errors = errors]
       IN  /\ a.answer = "error" => saved = "ok"
           /\ Spend(a.cost + Cost(saved))
           /\ reg' = [reg EXCEPT ![op.r] = a.reg]
           /\ worker' = after
           /\ mem' = [mem EXCEPT !.fences = fences]
           /\ disk' = [disk EXCEPT !.fences = IF a.answer = "error" THEN @
                                              ELSE Written(saved, @, fences)]
           /\ IF a.answer = "removed" THEN ctl' = c /\ op' = Goto("stop")
              ELSE IF op.why = "scale-down" THEN Return([c EXCEPT !.wait = "none"], TRUE)
              ELSE ctl' = c /\ op' = IF a.answer = "refused" THEN Cursor(op.phase, op.r)
                                     ELSE Failing(Cursor(op.phase, op.r))
  /\ UNCHANGED <<container, lease, fence, leaving, scan, bounds>>

StopAndRemove ==
  /\ At("stop")
  /\ \E o \in Outcomes("docker") :
       /\ Spend(Cost(o))
       /\ container' = IF Happened(o) THEN [container EXCEPT ![op.r] = "absent"] ELSE container
       /\ IF o = "ok" THEN op' = Goto("settle") /\ UNCHANGED <<worker, ctl>>
          ELSE /\ worker' = [worker EXCEPT ![op.r].state = "cleanup-pending",
                                           ![op.r].removed = TRUE]
               /\ Continue(ctl, TRUE)
  /\ UNCHANGED <<reg, lease, fence, mem, leaving, scan, disk, bounds>>

(* Wrong: the worker is forgotten even if its release was not queued. *)
SettleUnqueued ==
  /\ At("settle")
  /\ \E o \in Outcomes("disk") :
       LET pending == IF o = "ok" THEN mem.releases \cup {op.r} ELSE mem.releases
       IN  /\ Spend(Cost(o))
           /\ worker' = [worker EXCEPT ![op.r] = NoWorker]
           /\ mem' = [mem EXCEPT !.releases = pending]
           /\ disk' = [disk EXCEPT !.releases = pending]
           /\ IF o = "ok" THEN op' = Goto("release") /\ UNCHANGED ctl
              ELSE Continue(ctl, TRUE)
  /\ UNCHANGED <<world, leaving, scan, bounds>>

(* settleStoppedRunner: the lease release is on disk before the worker is  *)
(* forgotten, and is only then asked for.                                  *)
Settle ==
  /\ At("settle")
  /\ \E o \in Outcomes("disk") :
       LET pending == mem.releases \cup {op.r}
       IN  /\ ~HostAdmission => o = "ok"
           /\ Spend(Cost(o))
           /\ worker' = IF o = "ok" THEN [worker EXCEPT ![op.r] = NoWorker] ELSE worker
           /\ IF HostAdmission
              THEN /\ mem' = [mem EXCEPT !.releases = pending]
                   /\ disk' = [disk EXCEPT !.releases = Written(o, @, pending)]
              ELSE UNCHANGED <<mem, disk>>
           /\ IF HostAdmission /\ o = "ok" THEN op' = Goto("release") /\ UNCHANGED ctl
              ELSE Continue(ctl, o # "ok")
  /\ UNCHANGED <<world, leaving, scan, bounds>>

(* handleContainerExitLocked, for a monitor that saw the exit or for the   *)
(* liveness probe of a reconciliation.  A worker whose job is done exits   *)
(* cleanly.  Its registration is queued for removal before it is settled.  *)
ContainerExit(r, next) ==
  LET clean == reg[r] = "done"
      dying == worker[r].state = "draining" \/ ctl.stopping
      backoff == IF ~dying /\ ~clean THEN ctl.backoff \cup {"exit"}
                 ELSE IF dying /\ clean THEN ctl.backoff \ {"exit"}
                 ELSE ctl.backoff
      pending == mem.cleanups \cup {r}
  IN  IF ctl.stopping \/ worker[r].removed
      THEN /\ ctl' = [ctl EXCEPT !.backoff = backoff]
           /\ op' = [next EXCEPT !.at = "settle"]
           /\ UNCHANGED <<worker, mem, disk, faults>>
      ELSE \E o \in Outcomes("disk") :
             /\ Spend(Cost(o))
             /\ mem' = [mem EXCEPT !.cleanups = pending]
             /\ disk' = [disk EXCEPT !.cleanups = Written(o, @, pending)]
             /\ ctl' = [ctl EXCEPT !.backoff = backoff,
                                   !.errors = WithError(@, "cleanup", o)]
             /\ worker' = IF o = "ok" THEN worker
                          ELSE [worker EXCEPT ![r].state = "cleanup-pending"]
             /\ op' = IF o = "ok" THEN [next EXCEPT !.at = "settle"]
                      ELSE IF next.why = "liveness" THEN Cursor(8, r)
                      ELSE NoOp

HandleContainerExit(r) ==
  /\ op.at = "idle" /\ Live(r) /\ container[r] = "absent"
  /\ ContainerExit(r, [NoOp EXCEPT !.why = "exit", !.r = r])
  /\ UNCHANGED <<world, leaving, scan, bounds>>

ReconcileLiveness(r) ==
  /\ AtItem(8, r)
  /\ ContainerExit(r, [op EXCEPT !.why = "liveness", !.phase = 8, !.r = r])
  /\ UNCHANGED <<world, leaving, scan, bounds>>

(* The end of an exit: the queued registration is removed at once, and a   *)
(* monitor's exit reconciles when the worker has to be replaced.           *)
Unregister ==
  /\ At("unregister")
  /\ \E a \in Removals(op.r), saved \in Outcomes("disk") :
       LET queued == op.r \in mem.cleanups
           done   == queued /\ a.answer = "removed"
           short  == ~ctl.stopping /\ Capacity < ctl.target
           pending == IF done THEN mem.cleanups \ {op.r} ELSE mem.cleanups
           next   == IF op.why # "exit" THEN Cursor(op.phase, op.r)
                     ELSE IF short THEN Enter ELSE NoOp
       IN  /\ ~queued => a.cost = 0
           /\ ~done => saved = "ok"
           /\ Spend(a.cost + Cost(saved))
           /\ reg' = IF queued THEN [reg EXCEPT ![op.r] = a.reg] ELSE reg
           /\ mem' = [mem EXCEPT !.cleanups = pending]
           /\ disk' = [disk EXCEPT !.cleanups = IF done THEN Written(saved, @, pending) ELSE @]
           /\ ctl' = [ctl EXCEPT
                        !.errors = IF done THEN WithError(@, "cleanup", saved) ELSE @,
                        !.wait   = IF op.why # "retry" /\ Capacity <= ctl.target
                                   THEN "none" ELSE @]
           /\ op' = IF op.why = "retry" /\ ~done THEN Failing(next) ELSE next
  /\ UNCHANGED <<container, lease, fence, worker, leaving, scan, bounds>>

-----------------------------------------------------------------------------
(* Capacity against the target, when every phase is done.                  *)

Settled == At("reconcile") /\ Ahead = {}

Adequate ==
  /\ Settled
  /\ ctl.stopping \/ Capacity = ctl.target
  /\ Return(IF ctl.stopping THEN ctl
            ELSE [ctl EXCEPT !.wait = "none", !.backoff = @ \ {"launch"}], FALSE)
  /\ UNCHANGED <<world, worker, mem, leaving, scan, disk, bounds, faults>>

(* Replacement waits for an unresolved intent or a retry deadline, and for *)
(* every recovered lease to be adopted.                                    *)
HoldForRetry ==
  /\ Settled /\ ~ctl.stopping /\ ctl.target > Capacity
  /\ mem.intent # None \/ ctl.backoff # {}
  /\ Return(ctl, FALSE)
  /\ UNCHANGED <<world, worker, mem, leaving, scan, disk, bounds, faults>>

HoldForAdoption ==
  /\ Settled /\ ~ctl.stopping /\ ctl.target > Capacity
  /\ mem.intent = None /\ op.held
  /\ Return([ctl EXCEPT !.wait = "none", !.backoff = {}], FALSE)
  /\ UNCHANGED <<world, worker, mem, leaving, scan, disk, bounds, faults>>

(* Wrong: the slots of queued cleanups are refilled at once. *)
LaunchMissingEager ==
  /\ Settled /\ ~ctl.stopping /\ ctl.target > Capacity
  /\ mem.intent = None /\ ~op.held
  /\ op' = [op EXCEPT !.at = "launch", !.r = None, !.left = ctl.target - Capacity]
  /\ ctl' = [ctl EXCEPT !.wait = "none", !.backoff = {}]
  /\ UNCHANGED <<world, worker, mem, leaving, scan, disk, bounds, faults>>

(* Every queued cleanup stands for a slot that is not refilled yet. *)
LaunchMissing ==
  /\ Settled /\ ~ctl.stopping /\ ctl.target > Capacity
  /\ mem.intent = None /\ ~op.held
  /\ LET missing == ctl.target - Capacity - Cardinality(mem.cleanups)
     IN  op' = [op EXCEPT !.at = "launch", !.r = None,
                          !.left = IF missing > 0 THEN missing ELSE 0]
  /\ ctl' = [ctl EXCEPT !.wait = "none", !.backoff = {}]
  /\ UNCHANGED <<world, worker, mem, leaving, scan, disk, bounds, faults>>

DelayScaleDown ==
  /\ Settled /\ ~ctl.stopping /\ ctl.target < Capacity
  /\ ctl.wait # "due"
  /\ Return([ctl EXCEPT !.wait = "waiting", !.backoff = @ \ {"launch"}], FALSE)
  /\ UNCHANGED <<world, worker, mem, leaving, scan, disk, bounds, faults>>

BeginScaleDown ==
  /\ Settled /\ ~ctl.stopping /\ ctl.target < Capacity
  /\ ctl.wait # "none"
  /\ ctl' = [ctl EXCEPT !.wait = "due", !.backoff = @ \ {"launch"}]
  /\ op' = [op EXCEPT !.at = "drain", !.r = None]
  /\ UNCHANGED <<world, worker, mem, leaving, scan, disk, bounds, faults>>

(* An idle worker; a retiring target also lets go of recovered workers     *)
(* that have said nothing yet.                                             *)
Candidates ==
  IF Idle # {} \/ ~ctl.retiring THEN Idle
  ELSE {r \in Runners : /\ worker[r].protected /\ worker[r].state = "starting"
                        /\ ~worker[r].removed}

EndScaleDown ==
  /\ At("drain")
  /\ Capacity <= ctl.target \/ Candidates = {}
  /\ Return(IF Capacity <= ctl.target THEN [ctl EXCEPT !.wait = "none"] ELSE ctl, FALSE)
  /\ UNCHANGED <<world, worker, mem, leaving, scan, disk, bounds, faults>>

ScaleDown(r) ==
  /\ At("drain") /\ Capacity > ctl.target /\ r \in Candidates
  /\ \E o \in Outcomes("disk") :
       LET c == [ctl EXCEPT !.errors = WithError(@, "fence", o)]
       IN  /\ BeginFence(r, "scale-down", o)
           /\ IF o = "ok" THEN ctl' = c /\ op' = Draining(0, r, "scale-down")
              ELSE Return(c, TRUE)
  /\ UNCHANGED <<world, leaving, scan, bounds>>


-----------------------------------------------------------------------------
(* What a job and a worker's log say.  A message about a worker that is    *)
(* not recorded or is deregistered changes nothing.                        *)

Signalled(r, state) ==
  /\ op.at = "idle" /\ Live(r) /\ ~worker[r].removed
  /\ worker' = [worker EXCEPT ![r].state = state, ![r].protected = FALSE]
  /\ worker' # worker
  /\ UNCHANGED <<world, mem, ctl, leaving, scan, disk, op, bounds, faults>>

HandleJobStarted(r) == Gate /\ reg[r] \in {"assigned", "done"} /\ Signalled(r, "busy")

HandleJobCompleted(r) == Gate /\ reg[r] = "done" /\ Signalled(r, "draining")

(* Lines a worker can have printed; "listening" never hides a job. *)
Printed(r) == CASE reg[r] = "idle"     -> {"idle"}
                [] reg[r] = "assigned" -> {"idle", "busy"}
                [] reg[r] = "done"     -> {"idle", "busy", "draining"}
                [] reg[r] = "none"     -> {"idle"}

ApplyLogState(r) ==
  \E state \in Printed(r) :
    /\ state = "idle" => worker[r].state # "busy"
    /\ Signalled(r, state)

-----------------------------------------------------------------------------
(* Restart.  The process loses its memory; the new one fences the profile, *)
(* lists the containers once, and recovers them one at a time into a       *)
(* scaler built from the ledgers on disk.  A recovery that fails builds a  *)
(* new scaler later from the same list.                                    *)

Crash ==
  /\ op.at # "down" /\ crashes < MaxCrashes
  /\ crashes' = crashes + 1
  /\ worker' = [r \in Runners |-> NoWorker]
  /\ mem' = NoLedgers
  /\ ctl' = NewControl
  /\ leaving' = [r \in Runners |-> "none"]
  /\ scan' = [r \in Runners |-> "absent"]
  /\ op' = [NoOp EXCEPT !.at = "down"]
  /\ UNCHANGED <<world, disk, used, stops, faults>>

BeginAdoption ==
  /\ At("down")
  /\ scan' = container
  /\ fence' = IF HostAdmission
              THEN [up |-> TRUE, pending |-> fence.pending
                                   \cup {r \in Runners : lease[r] = "active"}]
              ELSE fence
  /\ op' = [NoOp EXCEPT !.at = "open"]
  /\ UNCHANGED <<reg, container, lease, worker, mem, ctl, leaving, disk, bounds, faults>>

(* The ledgers a new scaler reads back; what is corrupt on disk ends the   *)
(* start, and no save leaves that behind.                                  *)
Restored == disk

OpenScaler ==
  /\ At("open")
  /\ worker' = [r \in Runners |-> NoWorker]
  /\ mem' = Restored
  /\ ctl' = NewControl
  /\ op' = [NoOp EXCEPT !.at = "recover"]
  /\ UNCHANGED <<world, leaving, scan, disk, bounds, faults>>

ToRecover == {r \in Runners : scan[r] # "absent" /\ r > op.r}

Recovering(r) == At("recover") /\ r \in ToRecover /\ \A q \in ToRecover : r <= q

Recovered(state, stale, adopted) ==
  [state |-> state, protected |-> state = "starting", stale |-> stale,
   removed |-> FALSE, adopted |-> adopted]

(* A running worker is kept whatever the coordinator says, and its log is  *)
(* read for the last thing it did.                                         *)
RecoverRunning(r) ==
  /\ Recovering(r) /\ scan[r] = "running"
  /\ \E o \in IF HostAdmission THEN Outcomes("coordinator") ELSE {"ok"},
        state \in Printed(r) \cup {"starting"}, stale \in Upgrades :
       /\ Spend(Cost(o))
       /\ IF HostAdmission THEN Adopted(r, o) ELSE UNCHANGED <<lease, fence>>
       /\ worker' = [worker EXCEPT ![r] = Recovered(state, stale, HostAdmission /\ o = "ok")]
  /\ op' = [op EXCEPT !.r = r]
  /\ UNCHANGED <<reg, container, mem, ctl, leaving, scan, disk, bounds>>

(* Wrong: the container is started although its lease is gone. *)
RecoverCreatedUnleased(r) ==
  /\ Recovering(r) /\ scan[r] = "created"
  /\ op' = [op EXCEPT !.r = r, !.why = "recovery", !.at = "revive"]
  /\ UNCHANGED <<world, memory, disk, bounds, faults>>

(* A container that never started is started if its lease is still held,   *)
(* and discarded otherwise.                                                *)
RecoverCreated(r) ==
  /\ Recovering(r) /\ scan[r] = "created"
  /\ \E o \in IF HostAdmission THEN Outcomes("coordinator") ELSE {"ok"} :
       LET held == HostAdmission => lease[r] # "absent"
       IN  /\ Spend(Cost(o))
           /\ IF HostAdmission /\ held THEN Adopted(r, o) ELSE UNCHANGED <<lease, fence>>
           /\ op' = [op EXCEPT !.r = r, !.why = "recovery",
                               !.at = IF o = "ok" /\ held THEN "revive" ELSE "abandon"]
  /\ UNCHANGED <<reg, container, worker, mem, ctl, leaving, scan, disk, bounds>>

(* docker start succeeds on a running container and fails on a missing one. *)
Revive ==
  /\ At("revive")
  /\ \E o \in Outcomes("docker"), stale \in Upgrades :
       LET started == o = "ok" /\ container[op.r] # "absent"
       IN  /\ Spend(Cost(o))
           /\ container' = IF Happened(o) /\ container[op.r] # "absent"
                           THEN [container EXCEPT ![op.r] = "running"] ELSE container
           /\ worker' = IF started
                        THEN [worker EXCEPT ![op.r] = Recovered("starting", stale, HostAdmission)]
                        ELSE worker
           /\ op' = IF started THEN [op EXCEPT !.at = "recover", !.why = "none"]
                    ELSE Goto("abandon")
  /\ UNCHANGED <<reg, lease, fence, mem, ctl, leaving, scan, disk, bounds>>

(* The target starts at its minimum and its listener and ticker run. *)
Serve(n) ==
  /\ At("recover") /\ ToRecover = {}
  /\ ctl' = [ctl EXCEPT !.target = n]
  /\ scan' = [r \in Runners |-> "absent"]
  /\ op' = NoOp
  /\ UNCHANGED <<world, worker, mem, leaving, disk, bounds, faults>>

(* Wrong: a registration that is not found keeps its lease pending. *)
ReconcileOrphanIfFound(r) ==
  /\ Serving /\ fence.up /\ Unadopted = {} /\ r \in fence.pending
  /\ reg[r] = "idle"
  /\ \E o \in Outcomes("coordinator") :
       /\ Spend(Cost(o))
       /\ reg' = [reg EXCEPT ![r] = "none"]
       /\ Released(r, o)
  /\ UNCHANGED <<container, memory, disk, op, bounds>>

(* The manager, once every recovered worker is adopted, removes the        *)
(* registrations of leases no worker has come back for and gives those     *)
(* leases up one by one; then it lifts the fence.                          *)
ReconcileOrphan(r) ==
  /\ Serving /\ fence.up /\ Unadopted = {} /\ r \in fence.pending
  /\ \E a \in Removals(r), o \in Outcomes("coordinator") :
       /\ a.answer # "removed" => o = "ok"
       /\ Spend(a.cost + Cost(o))
       /\ reg' = [reg EXCEPT ![r] = a.reg]
       /\ IF a.answer = "removed" THEN Released(r, o) ELSE UNCHANGED <<lease, fence>>
       /\ <<reg', lease'>> # <<reg, lease>>
  /\ UNCHANGED <<container, memory, disk, op, bounds>>

CompleteAdoption ==
  /\ Serving /\ fence.up /\ Unadopted = {} /\ fence.pending = {}
  /\ fence' = OpenFence
  /\ UNCHANGED <<reg, container, lease, memory, disk, op, bounds, faults>>


-----------------------------------------------------------------------------
(* A full stop: the idle workers leave together, registration first; then   *)
(* every worker still recorded is stopped, except those whose registration *)
(* could not be removed.  The goroutines of a stage run concurrently.      *)

BeginShutdown ==
  /\ Serving /\ ~ctl.stopping /\ stops < MaxStops
  /\ stops' = stops + 1
  /\ ctl' = [ctl EXCEPT !.stopping = TRUE, !.wait = "none"]
  /\ UNCHANGED <<world, worker, mem, leaving, scan, disk, op, used, crashes, faults>>

StopIdle ==
  /\ op.at = "idle" /\ ctl.stopping
  /\ op' = [NoOp EXCEPT !.at = "leave", !.phase = 1]
  /\ leaving' = [r \in Runners |-> IF r \in Idle THEN "fence" ELSE "none"]
  /\ UNCHANGED <<world, worker, mem, ctl, scan, disk, bounds, faults>>

StageOver == At("leave") /\ \A r \in Runners : leaving[r] \in {"none", "kept"}

StopRemaining ==
  /\ StageOver /\ op.phase = 1
  /\ op' = [op EXCEPT !.phase = 2]
  /\ leaving' = [r \in Runners |-> IF Live(r) /\ leaving[r] # "kept" THEN "stop"
                                   ELSE leaving[r]]
  /\ UNCHANGED <<world, worker, mem, ctl, scan, disk, bounds, faults>>

(* The manager stops every container that is left and deletes the scale    *)
(* set, which takes its registrations along.                               *)
Exit ==
  /\ StageOver /\ op.phase = 2
  /\ \E kept \in SUBSET {r \in Runners : container[r] # "absent"}, o \in Outcomes("github") :
       /\ kept # {} => "docker" \in FaultKinds
       /\ Spend(Cardinality(kept) + Cost(o))
       /\ container' = [r \in Runners |-> IF r \in kept THEN container[r] ELSE "absent"]
       /\ reg' = IF Happened(o) THEN [r \in Runners |-> "none"] ELSE reg
  /\ worker' = [r \in Runners |-> NoWorker]
  /\ mem' = NoLedgers
  /\ ctl' = NewControl
  /\ leaving' = [r \in Runners |-> "none"]
  /\ op' = [NoOp EXCEPT !.at = "down"]
  /\ UNCHANGED <<lease, fence, scan, disk, bounds>>

Moves(r, from, to) == leaving[r] = from /\ leaving' = [leaving EXCEPT ![r] = to]

LeaveFence(r) ==
  /\ \E o \in Outcomes("disk") :
       LET fences == [mem.fences EXCEPT ![r] = IF @ = "none" THEN "shutdown" ELSE @]
       IN  /\ Moves(r, "fence", IF o = "ok" THEN "remove" ELSE "kept")
           /\ Spend(Cost(o))
           /\ mem' = [mem EXCEPT !.fences = fences]
           /\ disk' = [disk EXCEPT !.fences = Written(o, @, fences)]
           /\ ctl' = [ctl EXCEPT !.errors = WithError(@, "fence", o)]
  /\ UNCHANGED <<world, worker, scan, op, bounds>>

LeaveRemove(r) ==
  /\ \E a \in Removals(r), saved \in Outcomes("disk") :
       /\ Moves(r, "remove", IF a.answer = "removed" THEN "stop" ELSE "kept")
       /\ a.answer # "removed" => saved = "ok"
       /\ Spend(a.cost + Cost(saved))
       /\ reg' = [reg EXCEPT ![r] = a.reg]
       /\ IF a.answer = "removed" THEN ResolvedFence(r, saved, ctl.errors)
          ELSE UNCHANGED <<mem, disk, ctl>>
  /\ UNCHANGED <<container, lease, fence, worker, scan, op, bounds>>

LeaveStop(r) ==
  /\ \E o \in Outcomes("docker") :
       /\ Moves(r, "stop", IF o = "ok" THEN "settle" ELSE "none")
       /\ Spend(Cost(o))
       /\ container' = IF Happened(o) THEN [container EXCEPT ![r] = "absent"] ELSE container
  /\ UNCHANGED <<reg, lease, fence, worker, mem, ctl, scan, disk, op, bounds>>

LeaveSettle(r) ==
  /\ \E o \in Outcomes("disk") :
       LET pending == mem.releases \cup {r}
       IN  /\ ~HostAdmission => o = "ok"
           /\ Moves(r, "settle", IF HostAdmission /\ o = "ok" THEN "release" ELSE "none")
           /\ Spend(Cost(o))
           /\ worker' = IF o = "ok" THEN [worker EXCEPT ![r] = NoWorker] ELSE worker
           /\ IF HostAdmission
              THEN /\ mem' = [mem EXCEPT !.releases = pending]
                   /\ disk' = [disk EXCEPT !.releases = Written(o, @, pending)]
              ELSE UNCHANGED <<mem, disk>>
  /\ UNCHANGED <<world, ctl, scan, op, bounds>>

LeaveRelease(r) ==
  /\ \E o \in Outcomes("coordinator"), saved \in Outcomes("disk") :
       /\ Moves(r, "release", "none")
       /\ AttemptRelease(r, o, saved)
  /\ UNCHANGED <<reg, container, worker, ctl, scan, op, bounds>>

-----------------------------------------------------------------------------
(* The world: GitHub gives an online idle runner a job, a worker finishes  *)
(* its one job or dies, GitHub takes a job back from a runner that is      *)
(* gone, and the coordinator forgets a provisional lease not renewed.      *)

JobAssigned(r) ==
  /\ reg[r] = "idle" /\ container[r] = "running"
  /\ reg' = [reg EXCEPT ![r] = "assigned"]
  /\ UNCHANGED <<container, lease, fence, memory, disk, op, bounds, faults>>

JobDone(r) ==
  /\ reg[r] = "assigned" /\ container[r] = "running"
  /\ reg' = [reg EXCEPT ![r] = "done"]
  /\ UNCHANGED <<container, lease, fence, memory, disk, op, bounds, faults>>

WorkerExits(r) ==
  /\ container[r] = "running"
  /\ IF reg[r] \in {"none", "done"} THEN UNCHANGED faults
     ELSE "worker" \in FaultKinds /\ Spend(1)
  /\ container' = [container EXCEPT ![r] = "absent"]
  /\ UNCHANGED <<reg, lease, fence, memory, disk, op, bounds>>

JobAbandoned(r) ==
  /\ reg[r] = "assigned" /\ container[r] = "absent"
  /\ reg' = [reg EXCEPT ![r] = "idle"]
  /\ UNCHANGED <<container, lease, fence, memory, disk, op, bounds, faults>>

LeaseExpires(r) ==
  /\ lease[r] = "provisional"
  /\ lease' = [lease EXCEPT ![r] = "absent"]
  /\ UNCHANGED <<reg, container, fence, memory, disk, op, bounds, faults>>

-----------------------------------------------------------------------------
Init ==
  /\ reg = [r \in Runners |-> "none"]
  /\ container = [r \in Runners |-> "absent"]
  /\ lease = [r \in Runners |-> "absent"]
  /\ fence = OpenFence
  /\ worker = [r \in Runners |-> NoWorker]
  /\ mem = NoLedgers
  /\ disk = NoLedgers
  /\ ctl = NewControl
  /\ op = [NoOp EXCEPT !.at = "down"]
  /\ leaving = [r \in Runners |-> "none"]
  /\ scan = [r \in Runners |-> "absent"]
  /\ used = 0 /\ faults = 0 /\ crashes = 0 /\ stops = 0

Launching ==
  \/ Acquire \/ NameWithoutLease \/ BeginLaunchIntent \/ GenerateJIT \/ BindRegistration
  \/ RenewBeforeCreate \/ CreateContainer \/ RenewBeforeActivate \/ Activate
  \/ StartContainer \/ RunContainer \/ InsertRunner \/ InsertDuringShutdown \/ EndLaunches
  \/ AbandonRegistration \/ RemoveRegistration \/ DiscardContainer \/ QueueRelease
  \/ NothingToRelease \/ Release

Retry(r) ==
  \/ RetryAdoption(r) \/ RetryLaunchIntent(r) \/ RetryRelease(r) \/ RetryRegistration(r)
  \/ FenceToCleanup(r) \/ CancelFence(r) \/ RetryFence(r) \/ RetryCleanup(r)
  \/ RetireStale(r) \/ ReconcileLiveness(r)

Reconciling ==
  \/ FailClosed \/ StartReconcile
  \/ \E r \in Runners : Retry(r) \/ (\E q \in 1..8 : Defer(q, r)) \/ ScaleDown(r)
  \/ Deregister \/ StopAndRemove \/ Settle \/ Unregister
  \/ Adequate \/ HoldForRetry \/ HoldForAdoption \/ LaunchMissing \/ DelayScaleDown
  \/ BeginScaleDown \/ EndScaleDown

Restarting ==
  \/ BeginAdoption \/ OpenScaler \/ Revive
  \/ \E r \in Runners : RecoverRunning(r) \/ RecoverCreated(r)
  \/ \E n \in Targets : Serve(n)

Leaving ==
  \/ StopIdle \/ StopRemaining \/ Exit
  \/ \E r \in Runners : \/ LeaveFence(r) \/ LeaveRemove(r) \/ LeaveStop(r)
                        \/ LeaveSettle(r) \/ LeaveRelease(r)

Signals ==
  \E r \in Runners : \/ HandleJobStarted(r) \/ HandleJobCompleted(r) \/ ApplyLogState(r)
                     \/ HandleContainerExit(r)

Demands ==
  \/ Tick \/ BeginRetirement \/ BeginShutdown
  \/ \E n \in Targets : HandleDesiredRunnerCount(n) \/ SetMaximum(n) \/ Reactivate(n)

Managing == CompleteAdoption \/ \E r \in Runners : ReconcileOrphan(r)

World ==
  \E r \in Runners : \/ JobAssigned(r) \/ JobDone(r) \/ WorkerExits(r)
                     \/ JobAbandoned(r) \/ LeaseExpires(r)

Next == \/ Launching \/ Reconciling \/ Restarting \/ Leaving \/ Signals \/ Demands
        \/ Managing \/ World \/ Crash

Spec == Init /\ [][Next]_vars


-----------------------------------------------------------------------------
(* Properties.                                                             *)

(* With host admission, every registration GitHub holds can be found again *)
(* after a crash at any point: its launch intent, its queued cleanup or    *)
(* its fence is on disk, its container still exists, or its active lease   *)
(* leads the manager to it.  This is what beginLaunchIntent,               *)
(* beginPendingRegistrationCleanup and beginPendingRegistrationFence write *)
(* ahead for.                                                              *)
RegistrationAccounted ==
  \A r \in Runners : reg[r] \in {"idle", "assigned"} =>
    \/ disk.intent = r \/ r \in disk.cleanups \/ disk.fences[r] # "none"
    \/ container[r] # "absent" \/ lease[r] = "active"

InHand == {"start", "insert", "abandon", "remove", "discard", "free", "release"}

(* No active lease is forgotten: while the manager runs, a lease whose     *)
(* container is gone belongs to a worker still recorded, to a release in   *)
(* the queue, to the adoption fence, or to the launch in progress.         *)
(* beginPendingHostLeaseRelease and settleStoppedRunner write ahead for    *)
(* it.                                                                     *)
LeaseAccounted ==
  \A r \in Runners : lease[r] = "active" /\ container[r] = "absent" =>
    \/ At("down") \/ Live(r) \/ r \in mem.releases \/ r \in fence.pending \/ scan[r] # "absent"
    \/ op.r = r /\ op.at \in InHand

(* A running worker whose lease the manager has confirmed keeps an active  *)
(* lease (runnerRecord.hostLeaseAdopted): no queued release, no orphan     *)
(* recovery and no restart takes it away.                                  *)
AdoptedHoldsLease ==
  \A r \in Runners :
    HostAdmission /\ Live(r) /\ worker[r].adopted /\ container[r] = "running"
      => lease[r] = "active"

(* A recorded worker is stopped by the scaler only after GitHub has let go *)
(* of its registration, so never while it has a job; a full stop alone     *)
(* stops every worker.                                                     *)
DeregisteredBeforeStop ==
  [][\A r \in Runners :
       Live(r) /\ container[r] = "running" /\ container'[r] = "absent" /\ op' # op
         => ctl.stopping \/ reg[r] \in {"none", "done"}]_vars

(* Any assigned, busy, ambiguous or failed-removal worker stays alive: the *)
(* scaler stops no worker that has a job outside a full stop.  Launches it *)
(* abandons after an ambiguous docker start do not keep to this.           *)
BusyWorkerKept ==
  [][\A r \in Runners :
       reg[r] = "assigned" /\ container[r] = "running" /\ container'[r] = "absent" /\ op' # op
         => ctl.stopping]_vars

(* Scale-down takes no worker the target still needs, however old the      *)
(* fence that asks for it.                                                 *)
ScaleDownKeepsTarget ==
  At("deregister") /\ mem.fences[op.r] = "scale-down" /\ op.why # "stale"
    => Capacity >= ctl.target

(* With host admission GitHub never holds more registrations than the      *)
(* target was asked for slots: replacement waits for the intent, the       *)
(* cleanup, the fence or the orphaned lease that stands for the old one.   *)
RegistrationsWithinTarget ==
  \E n \in Targets : Cardinality({r \in Runners : reg[r] \in {"idle", "assigned"}}) <= n

(* Fairness: an operation that holds the gate runs on, so do the           *)
(* goroutines of a full stop, ticks recur, a retry is not put off for      *)
(* ever, the manager retries its recovery, logs are read, jobs end, and    *)
(* GitHub takes jobs back from runners that are gone.                      *)
Fairness ==
  /\ WF_vars(Tick) /\ WF_vars(Launching) /\ WF_vars(Reconciling) /\ WF_vars(Restarting)
  /\ WF_vars(Leaving)
  /\ SF_vars(BeginScaleDown)
  /\ WF_vars(CompleteAdoption)
  /\ \A r \in Runners :
       /\ SF_vars(Retry(r)) /\ SF_vars(ApplyLogState(r))
       /\ WF_vars(ReconcileOrphan(r))
       /\ WF_vars(JobDone(r)) /\ WF_vars(JobAbandoned(r))
       /\ WF_vars(reg[r] \in {"none", "done"} /\ WorkerExits(r))

FairSpec == Spec /\ Fairness

(* After a restart the adoption fence is lifted, so that one profile's     *)
(* recovery does not keep every profile of the host from launching.        *)
FenceLifted == fence.up ~> ~fence.up

(* A registration left without a container is removed in the end, unless a *)
(* full stop, which deletes the scale set, takes it along.                 *)
RegistrationsCleaned ==
  \A r \in Runners : (reg[r] = "idle" /\ container[r] = "absent")
                        ~> (reg[r] # "idle" \/ container[r] # "absent" \/ stops > 0)

(* An active lease left without a container is returned in the end. *)
LeasesReturned ==
  \A r \in Runners : (lease[r] = "active" /\ container[r] = "absent")
                        ~> (lease[r] # "active" \/ container[r] # "absent")

(* A retiring target gets rid of all its workers. *)
RetirementDrains ==
  ctl.retiring ~> (~ctl.retiring \/ \A r \in Runners : ~Live(r))


=============================================================================
