---------------------------- MODULE TargetManager ----------------------------
(***************************************************************************)
(* The autoscaler manager (manager/autoscaler/manager.go, controller.go,   *)
(* retirement.go): it accepts desired-capacity documents, keeps one        *)
(* controller per target, retires targets that are no longer desired,      *)
(* restarts listeners, completes adoption after a restart and acknowledges *)
(* what it has applied.                                                    *)
(*                                                                         *)
(* One goroutine runs reconciliation cycles; pc says where it is.  A step  *)
(* makes one call to GitHub or one save, so that a crash, a listener, a    *)
(* worker or the operator may come between any two.  Documents are a       *)
(* generation, a set of targets and a maximum; a parsed document equals    *)
(* another exactly when its hash does.  A target's workers are one bit:    *)
(* Scaler models them.  Retry deadlines are not counted: a retry may be    *)
(* put off.                                                                *)
(***************************************************************************)
EXTENDS Integers, FiniteSets

CONSTANTS
  Keys,           \* 1..n, targets in the order of their keys
  MaxGeneration,  \* bound: generations of desired documents
  TargetSets,     \* the sets of targets a document may name
  Maxima,         \* the maxima a document may ask for
  MaxWrites,      \* bound: documents the operator writes
  HostAdmission,  \* whether host admission is enabled
  FaultKinds,     \* what may fail: "github", "disk", "sync", "listener"
  MaxFaults,      \* bound: failures in one behaviour
  MaxCrashes,     \* bound: crashes in one behaviour
  MaxStops        \* bound: full stops in one behaviour

ASSUME KeysAssumption == Keys = 1..Cardinality(Keys) /\ IsFiniteSet(Keys)
ASSUME KindsAssumption == /\ HostAdmission \in BOOLEAN
                          /\ FaultKinds \subseteq {"github", "disk", "sync", "listener"}
ASSUME LimitsAssumption == /\ MaxGeneration \in Nat /\ MaxWrites \in Nat /\ MaxFaults \in Nat
                           /\ MaxCrashes \in Nat /\ MaxStops \in Nat
                           /\ TargetSets \subseteq SUBSET Keys /\ Maxima \subseteq Nat \ {0}

VARIABLES
  desired,   \* desired-capacity.json
  disk,      \* last-valid-capacity.json, retiring-targets.json, the acknowledgement
  scaleset,  \* GitHub: the targets that have a scale set
  workers,   \* Docker: the targets that have workers, or records of them
  mem,       \* the manager's fields
  control,   \* its controllers
  pc,        \* where the cycle is
  writes, faults, crashes, stops

bounds == <<writes, crashes, stops>>
vars == <<desired, disk, scaleset, workers, mem, control, pc, bounds, faults>>

NoDocument == [gen |-> 0, keys |-> {}, max |-> 0]

(* A document that does not parse. *)
Invalid == [gen |-> -1, keys |-> {}, max |-> 0]

Documents == [gen : 1..MaxGeneration, keys : TargetSets, max : Maxima]

(* at[k] is the generation that retires k, 0 without a record. *)
NoRetirements == [gen |-> 0, at |-> [k \in Keys |-> 0]]

NoController == [role |-> "none", max |-> 0, closed |-> FALSE,
                 listening |-> FALSE, adopted |-> FALSE]

NewMemory == [current |-> NoDocument, read |-> NoDocument, ackPending |-> FALSE,
              retire |-> NoRetirements, pending |-> {}, recovered |-> {}, orphan |-> {},
              restarts |-> {}, failed |-> {}, adopting |-> FALSE, unaccounted |-> FALSE]

(* k is the loop's last key, doc the document being accepted, and again    *)
(* marks the second retirement pass of a cycle.                            *)
Idle == [at |-> "idle", k |-> 0, again |-> FALSE, doc |-> NoDocument]

Down == [Idle EXCEPT !.at = "down"]

Locations == {"down", "idle", "desired", "accept", "settle", "ensure", "targets", "open",
              "retire", "find", "admit", "started", "drain", "delete", "forget", "adopt",
              "listen", "restart", "ack", "stopping", "deleting"}

Accepted == Documents \cup {NoDocument}

Retirements == [gen : 0..MaxGeneration, at : [Keys -> 0..MaxGeneration]]

Stored == [lastValid : Accepted, retire : Retirements, ack : 0..MaxGeneration]

Memories == [current : Accepted, read : Accepted \cup {Invalid}, ackPending : BOOLEAN,
             retire : Retirements, pending : SUBSET Keys, recovered : SUBSET Keys,
             orphan : SUBSET Keys, restarts : SUBSET Keys, failed : SUBSET Keys,
             adopting : BOOLEAN, unaccounted : BOOLEAN]

Controllers == [role : {"none", "active", "retiring"}, max : Maxima \cup {0},
                closed : BOOLEAN, listening : BOOLEAN, adopted : BOOLEAN]

Positions == [at : Locations, k : Keys \cup {0}, again : BOOLEAN, doc : Accepted]

TypeOK ==
  /\ desired \in Accepted \cup {Invalid}
  /\ disk \in Stored /\ mem \in Memories /\ pc \in Positions
  /\ control \in [Keys -> Controllers]
  /\ scaleset \subseteq Keys /\ workers \subseteq Keys
  /\ faults \in 0..MaxFaults /\ crashes \in 0..MaxCrashes /\ stops \in 0..MaxStops
  /\ writes \in 0..MaxWrites

-----------------------------------------------------------------------------
(* Calls and saves.                                                        *)

(* A call to GitHub succeeds or fails. *)
Calls == {"ok"} \cup (IF "github" \in FaultKinds THEN {"failed"} ELSE {})

(* A save succeeds, fails before the rename, or fails in the directory     *)
(* sync after it.                                                          *)
Saves == {"ok"} \cup (IF "disk" \in FaultKinds THEN {"failed"} ELSE {})
                \cup (IF "sync" \in FaultKinds THEN {"lost"} ELSE {})

Cost(o) == IF o = "ok" THEN 0 ELSE 1

Spend(n) == faults + n <= MaxFaults /\ faults' = faults + n

Goto(location) == [pc EXCEPT !.at = location]

Active == {k \in Keys : control[k].role = "active"}

Retiring == {k \in Keys : control[k].role = "retiring"}

Recorded(k) == mem.retire.at[k] # 0

(* persistRetirements: memory follows the disk only if the save succeeds.  *)
(* m is the manager's memory apart from that.                              *)
Persist(retire, o, m) ==
  /\ Spend(Cost(o))
  /\ disk' = IF o = "failed" THEN disk ELSE [disk EXCEPT !.retire = retire]
  /\ mem' = IF o = "ok" THEN [m EXCEPT !.retire = retire] ELSE m

-----------------------------------------------------------------------------
(* processDesired.                                                         *)

StartCycle ==
  /\ pc.at = "idle"
  /\ mem' = [mem EXCEPT !.restarts = @ \cup mem.failed, !.failed = {}]
  /\ pc' = Goto("desired")
  /\ UNCHANGED <<desired, disk, scaleset, workers, control, bounds, faults>>

(* Nothing to do, or a document already processed, stale, conflicting or   *)
(* invalid.                                                                *)
KeepDesired ==
  /\ pc.at = "desired"
  /\ desired = mem.read \/ desired.gen <= mem.current.gen
  /\ mem' = [mem EXCEPT !.read = desired]
  /\ pc' = Goto("ensure")
  /\ UNCHANGED <<desired, disk, scaleset, workers, control, bounds, faults>>

(* Wrong: the records start from nothing. *)
WithNewRetirementsAnew(next) ==
  [gen |-> next.gen,
   at  |-> [k \in Keys |-> IF k \in mem.current.keys \ next.keys THEN next.gen ELSE 0]]

(* recordsWithNewRetirements: the targets that leave get a record. *)
WithNewRetirements(next) ==
  [gen |-> next.gen,
   at  |-> [k \in Keys |-> IF Recorded(k) THEN mem.retire.at[k]
                           ELSE IF k \in mem.current.keys \ next.keys THEN next.gen
                           ELSE 0]]

(* Wrong: any generation but the current one is new. *)
AcceptRetirementsAnyGeneration ==
  /\ pc.at = "desired"
  /\ desired # mem.read /\ desired.gen \notin {-1, 0, mem.current.gen}
  /\ \E o \in Saves : /\ Persist(WithNewRetirements(desired), o, mem)
                      /\ pc' = IF o = "ok" THEN [Goto("accept") EXCEPT !.doc = desired]
                               ELSE Goto("ensure")
  /\ UNCHANGED <<desired, scaleset, workers, control, bounds>>

(* Wrong: the document counts as read although its records are not saved. *)
AcceptRetirementsReadFirst ==
  /\ pc.at = "desired"
  /\ desired # mem.read /\ desired.gen > mem.current.gen
  /\ \E o \in Saves : /\ Persist(WithNewRetirements(desired), o, [mem EXCEPT !.read = desired])
                      /\ pc' = IF o = "ok" THEN [Goto("accept") EXCEPT !.doc = desired]
                               ELSE Goto("ensure")
  /\ UNCHANGED <<desired, scaleset, workers, control, bounds>>

(* A new document: the retirements it causes are saved first. *)
AcceptRetirements ==
  /\ pc.at = "desired"
  /\ desired # mem.read /\ desired.gen > mem.current.gen
  /\ \E o \in Saves : /\ Persist(WithNewRetirements(desired), o, mem)
                      /\ pc' = IF o = "ok" THEN [Goto("accept") EXCEPT !.doc = desired]
                               ELSE Goto("ensure")
  /\ UNCHANGED <<desired, scaleset, workers, control, bounds>>

(* Then the document itself, and only then is it the current one. *)
AcceptDesired ==
  /\ pc.at = "accept"
  /\ \E o \in Saves :
       /\ Spend(Cost(o))
       /\ disk' = IF o = "failed" THEN disk ELSE [disk EXCEPT !.lastValid = pc.doc]
       /\ mem' = IF o = "ok" THEN [mem EXCEPT !.current = pc.doc, !.read = pc.doc,
                                              !.ackPending = TRUE]
                 ELSE mem
       /\ pc' = [pc EXCEPT !.at = IF o = "ok" THEN "settle" ELSE "ensure", !.doc = NoDocument]
  /\ UNCHANGED <<desired, scaleset, workers, control, bounds>>

(* ensureRetirementStateCurrent: a target that is desired again loses its  *)
(* record.                                                                 *)
CurrentRetirements ==
  [gen |-> mem.current.gen,
   at  |-> [k \in Keys |-> IF k \in mem.current.keys THEN 0 ELSE mem.retire.at[k]]]

EnsureRetirements ==
  /\ pc.at \in {"settle", "ensure"}
  /\ LET same == \/ mem.current = NoDocument
                 \/ /\ mem.retire.gen >= mem.current.gen
                    /\ CurrentRetirements.at = mem.retire.at
     IN  \E o \in Saves : /\ same => o = "ok"
                          /\ IF same THEN UNCHANGED <<disk, mem, faults>>
                             ELSE Persist(CurrentRetirements, o, mem)
  /\ pc' = [pc EXCEPT !.k = 0,
                      !.at = IF pc.at = "settle" THEN "ensure"
                             ELSE IF mem.current = NoDocument THEN "adopt"
                             ELSE "targets"]
  /\ UNCHANGED <<desired, scaleset, workers, control, bounds>>

-----------------------------------------------------------------------------
(* reconcileDesiredTargets.  A loop over a set of keys in order.           *)

Rest(S) == {k \in S : k > pc.k}

Turn(location, S, k) == pc.at = location /\ k \in Rest(S) /\ \A j \in Rest(S) : k <= j

Past(location, S) == pc.at = location /\ Rest(S) = {}

Cursor(location, k) == [pc EXCEPT !.at = location, !.k = k]

NewController(role, max, adopted) ==
  [role |-> role, max |-> max, closed |-> FALSE, listening |-> TRUE, adopted |-> adopted]

(* Recovered workers are adopted when their controller starts, or later. *)
Adoptions(k) == IF HostAdmission /\ k \in mem.recovered THEN BOOLEAN ELSE {TRUE}

KeepTarget(k) ==
  /\ Turn("targets", mem.current.keys, k)
  /\ control[k].role = "active" /\ control[k].max = mem.current.max
  /\ mem' = [mem EXCEPT !.orphan = @ \ {k}]
  /\ pc' = Cursor("targets", k)
  /\ UNCHANGED <<desired, disk, scaleset, workers, control, bounds, faults>>

(* A new maximum, or a target that comes back while it is retiring: both   *)
(* leave the controller as it was if the call fails.                       *)
UpdateTarget(k) ==
  /\ Turn("targets", mem.current.keys, k)
  /\ \/ control[k].role = "active" /\ control[k].max # mem.current.max
     \/ control[k].role = "retiring" /\ ~control[k].closed
  /\ \E o \in Calls :
       /\ Spend(Cost(o))
       /\ control' = IF o = "ok" THEN [control EXCEPT ![k].role = "active",
                                                     ![k].max = mem.current.max]
                     ELSE control
  /\ scaleset' = scaleset \cup {k}
  /\ mem' = [mem EXCEPT !.orphan = @ \ {k}]
  /\ pc' = Cursor("targets", k)
  /\ UNCHANGED <<desired, disk, workers, bounds>>

(* A target without a controller, or with one whose session is closed: its *)
(* scale set is made sure of and remembered as pending.                    *)
EnsureScaleSet(k) ==
  /\ Turn("targets", mem.current.keys, k)
  /\ control[k].role = "none" \/ (control[k].role = "retiring" /\ control[k].closed)
  /\ \E o \in Calls, made \in BOOLEAN :
       /\ o = "ok" => made
       /\ Spend(Cost(o))
       /\ scaleset' = IF made THEN scaleset \cup {k} ELSE scaleset
       /\ mem' = [mem EXCEPT !.orphan = @ \ {k},
                             !.pending = IF o = "ok" THEN @ \cup {k} ELSE @]
       /\ pc' = Cursor(IF o = "ok" THEN "open" ELSE "targets", k)
  /\ control' = [control EXCEPT ![k] = NoController]
  /\ UNCHANGED <<desired, disk, workers, bounds>>

(* startTargetController: the session is opened, the recovered containers  *)
(* are handed over and the listener runs.                                  *)
OpenController ==
  /\ pc.at = "open"
  /\ \E o \in Calls, adopted \in Adoptions(pc.k) :
       /\ Spend(Cost(o))
       /\ o = "failed" => adopted
       /\ IF o = "ok"
          THEN /\ control' = [control EXCEPT ![pc.k] =
                                NewController("active", mem.current.max, adopted)]
               /\ mem' = [mem EXCEPT !.pending = @ \ {pc.k}, !.recovered = @ \ {pc.k}]
               /\ workers' = workers \cup ({pc.k} \cap mem.recovered)
          ELSE UNCHANGED <<control, mem, workers>>
  /\ pc' = Goto("targets")
  /\ UNCHANGED <<desired, disk, scaleset, bounds>>

(* A controller whose target left retires if the record of it is durable. *)
RetireUndesired ==
  /\ Past("targets", mem.current.keys)
  /\ control' = [k \in Keys |->
                   IF k \in Active \ mem.current.keys /\ Recorded(k)
                   THEN [control[k] EXCEPT !.role = "retiring", !.max = 0]
                   ELSE control[k]]
  /\ mem' = [mem EXCEPT !.pending = @ \cap mem.current.keys]
  /\ pc' = Cursor("retire", 0)
  /\ UNCHANGED <<desired, disk, scaleset, workers, bounds, faults>>

-----------------------------------------------------------------------------
(* reconcileRetirements.                                                   *)

ToRetire == {k \in Keys : mem.retire.at[k] \in 1..mem.current.gen} \ mem.current.keys

(* The cycle goes on with the next record. *)
Skip(k) == pc' = Cursor("retire", k)

(* prepareRetirementStartup without waiting: the deadline has not come. *)
WaitToRetire(k) ==
  /\ Turn("retire", ToRetire, k) /\ k \notin Retiring
  /\ Skip(k)
  /\ UNCHANGED <<desired, disk, scaleset, workers, mem, control, bounds, faults>>

(* A retiring target without a controller, after a restart say: the next   *)
(* deadline is saved before GitHub is asked.                               *)
PrepareRetirement(k) ==
  /\ Turn("retire", ToRetire, k) /\ k \notin Retiring
  /\ \E o \in Saves : /\ Persist([mem.retire EXCEPT !.gen = mem.current.gen], o, mem)
                      /\ IF o = "ok" THEN pc' = Cursor("find", k) ELSE Skip(k)
  /\ UNCHANGED <<desired, scaleset, workers, control, bounds>>

(* Wrong: a target without a scale set is an error. *)
FindRetiringPresent ==
  /\ pc.at = "find"
  /\ LET k == pc.k
     IN  \E o \in Calls :
           /\ Spend(Cost(o))
           /\ mem' = [mem EXCEPT !.orphan = @ \ {k}]
           /\ IF o = "failed" \/ k \notin scaleset THEN Skip(k) ELSE pc' = Goto("admit")
  /\ UNCHANGED <<desired, disk, scaleset, workers, control, bounds>>

(* startRetiringController: without a scale set there is nothing to start, *)
(* but the target still answers for the leases of lost workers.            *)
FindRetiring ==
  /\ pc.at = "find"
  /\ LET k       == pc.k
         missing == k \notin scaleset
     IN  \E o \in Calls :
           /\ Spend(Cost(o))
           /\ mem' = [mem EXCEPT !.orphan =
                        IF o = "ok" /\ missing /\ k \notin mem.recovered
                        THEN @ \cup {k} ELSE @ \ {k}]
           /\ IF o = "failed" \/ (missing /\ k \in mem.recovered) THEN Skip(k)
              ELSE pc' = Goto(IF missing THEN "started" ELSE "admit")
  /\ UNCHANGED <<desired, disk, scaleset, workers, control, bounds>>

AdmitRetiring ==
  /\ pc.at = "admit"
  /\ LET k == pc.k
     IN  \E o \in Calls, adopted \in Adoptions(k) :
           /\ Spend(Cost(o))
           /\ o = "failed" => adopted
           /\ IF o = "ok"
              THEN /\ control' = [control EXCEPT ![k] = NewController("retiring", 0, adopted)]
                   /\ mem' = [mem EXCEPT !.recovered = @ \ {k}]
                   /\ workers' = workers \cup ({k} \cap mem.recovered)
                   /\ pc' = Goto("started")
              ELSE UNCHANGED <<control, mem, workers>> /\ Skip(k)
  /\ UNCHANGED <<desired, disk, scaleset, bounds>>

(* The deadline is cleared; a target without a scale set is then done once *)
(* adoption is.                                                            *)
RetirementStarted ==
  /\ pc.at = "started"
  /\ LET k == pc.k
     IN  \E o \in Saves :
           /\ Persist([mem.retire EXCEPT !.gen = mem.current.gen], o, mem)
           /\ IF o # "ok" THEN Skip(k)
              ELSE IF k \in Retiring THEN pc' = Goto("drain")
              ELSE IF mem.adopting THEN Skip(k)
              ELSE pc' = Goto("forget")
  /\ UNCHANGED <<desired, scaleset, workers, control, bounds>>

(* Wrong: the session is closed while workers are left. *)
DrainRetiringBusy(k) ==
  /\ \/ Turn("retire", ToRetire, k) /\ k \in Retiring
     \/ pc.at = "drain" /\ k = pc.k
  /\ IF mem.adopting THEN Skip(k) /\ UNCHANGED control
     ELSE /\ control' = [control EXCEPT ![k].closed = TRUE, ![k].listening = FALSE]
          /\ pc' = Cursor("delete", k)
  /\ UNCHANGED <<desired, disk, scaleset, workers, mem, bounds, faults>>

(* beginRetirement again; with no worker left and no adoption pending, the *)
(* session is closed.                                                      *)
DrainRetiring(k) ==
  /\ \/ Turn("retire", ToRetire, k) /\ k \in Retiring
     \/ pc.at = "drain" /\ k = pc.k
  /\ \/ /\ k \in workers \/ mem.adopting
        /\ Skip(k)
        /\ UNCHANGED <<control, faults>>
     \/ /\ "github" \in FaultKinds /\ Spend(1)
        /\ Skip(k)
        /\ UNCHANGED control
     \/ /\ k \notin workers /\ ~mem.adopting
        /\ control' = [control EXCEPT ![k].closed = TRUE, ![k].listening = FALSE]
        /\ pc' = Cursor("delete", k)
        /\ UNCHANGED faults
  /\ UNCHANGED <<desired, disk, scaleset, workers, mem, bounds>>

(* A deletion that reports a failure may have happened. *)
DeleteScaleSet ==
  /\ pc.at = "delete"
  /\ \E o \in Calls, gone \in BOOLEAN :
       /\ o = "ok" => gone
       /\ Spend(Cost(o))
       /\ scaleset' = IF gone THEN scaleset \ {pc.k} ELSE scaleset
       /\ IF o = "ok" THEN pc' = Goto("forget") ELSE Skip(pc.k)
  /\ UNCHANGED <<desired, disk, workers, mem, control, bounds>>

(* Only now is the record removed. *)
ForgetRetirement ==
  /\ pc.at = "forget"
  /\ LET k == pc.k
     IN  \E o \in Saves :
           /\ Persist([gen |-> mem.current.gen, at |-> [mem.retire.at EXCEPT ![k] = 0]], o,
                      IF o = "ok"
                      THEN [mem EXCEPT !.restarts = @ \ {k}, !.orphan = @ \ {k}]
                      ELSE mem)
           /\ control' = IF o = "ok" THEN [control EXCEPT ![k] = NoController] ELSE control
           /\ Skip(k)
  /\ UNCHANGED <<desired, scaleset, workers, bounds>>

EndRetire ==
  /\ Past("retire", ToRetire)
  /\ pc' = [pc EXCEPT !.at = IF pc.again THEN "listen" ELSE "adopt", !.again = FALSE]
  /\ UNCHANGED <<desired, disk, scaleset, workers, mem, control, bounds, faults>>

-----------------------------------------------------------------------------
(* completeHostAdmissionAdoptionIfReady.                                   *)

Controlled == Active \cup Retiring

(* Wrong: a target without a scale set does not answer for its leases. *)
TargetsReadyControlled ==
  /\ mem.current.keys \subseteq Active
  /\ \A k \in Keys : mem.retire.at[k] \in 1..mem.current.gen => k \in Retiring

(* hostAdmissionRecoveryTargetsReady *)
TargetsReady ==
  /\ mem.current.keys \subseteq Active
  /\ \A k \in Keys : mem.retire.at[k] \in 1..mem.current.gen => k \in Retiring \cup mem.orphan

(* Wrong: containers no controller took over are not waited for. *)
AdoptionReadyEarly ==
  /\ mem.adopting
  /\ \A k \in Controlled : control[k].adopted
  /\ (mem.unaccounted /\ mem.current # NoDocument) => TargetsReady

AdoptionReady ==
  /\ mem.adopting /\ mem.recovered = {}
  /\ \A k \in Controlled : control[k].adopted
  /\ (mem.unaccounted /\ mem.current # NoDocument) => TargetsReady

(* Nothing to complete, not ready, or the next attempt is not due. *)
WaitToComplete ==
  /\ pc.at = "adopt"
  /\ pc' = Goto("listen")
  /\ UNCHANGED <<desired, disk, scaleset, workers, mem, control, bounds, faults>>

(* The leases of lost workers are reconciled, which needs a target that    *)
(* can tell whether their registrations are gone; then the fence is        *)
(* lifted, and retirements may be finished in the same cycle.              *)
CompleteAdoption ==
  /\ pc.at = "adopt" /\ AdoptionReady
  /\ mem.unaccounted => Controlled \cup mem.orphan # {}
  /\ \E o \in Calls :
       /\ Spend(Cost(o))
       /\ mem' = IF o = "ok" THEN [mem EXCEPT !.adopting = FALSE, !.unaccounted = FALSE]
                 ELSE mem
       /\ pc' = IF o = "ok" /\ mem.current # NoDocument
                THEN [pc EXCEPT !.at = "retire", !.k = 0, !.again = TRUE]
                ELSE Goto("listen")
  /\ UNCHANGED <<desired, disk, scaleset, workers, control, bounds>>

-----------------------------------------------------------------------------
(* Listeners.                                                              *)

(* processListenerFailures and detectStoppedListeners. *)
Stopped == {k \in Controlled : ~control[k].listening}

(* Wrong: failures are drained and not scheduled. *)
DetectedDrained == [mem EXCEPT !.failed = {}]

Detected == [mem EXCEPT !.restarts = @ \cup mem.failed \cup Stopped, !.failed = {}]

DetectListeners ==
  /\ pc.at = "listen"
  /\ mem' = Detected
  /\ pc' = Cursor("restart", 0)
  /\ UNCHANGED <<desired, disk, scaleset, workers, control, bounds, faults>>

(* restartFailedListeners: not due yet, or the controller is closed. *)
WaitToRestart(k) ==
  /\ Turn("restart", mem.restarts, k)
  /\ pc' = Cursor("restart", k)
  /\ UNCHANGED <<desired, disk, scaleset, workers, mem, control, bounds, faults>>

RestartListener(k) ==
  /\ Turn("restart", mem.restarts, k)
  /\ ~control[k].closed
  /\ \E o \in Calls :
       /\ Spend(Cost(o))
       /\ (k \notin Controlled \/ control[k].listening) => o = "ok"
       /\ mem' = IF o = "ok" THEN [mem EXCEPT !.restarts = @ \ {k}] ELSE mem
       /\ control' = IF o = "ok" /\ k \in Controlled
                     THEN [control EXCEPT ![k].listening = TRUE] ELSE control
  /\ pc' = Cursor("restart", k)
  /\ UNCHANGED <<desired, disk, scaleset, workers, bounds>>

EndRestart ==
  /\ Past("restart", mem.restarts)
  /\ mem' = Detected
  /\ pc' = Cursor("ack", 0)
  /\ UNCHANGED <<desired, disk, scaleset, workers, control, bounds, faults>>

-----------------------------------------------------------------------------
(* publishAcknowledgement.                                                 *)

(* Wrong: only the controllers that are there are looked at. *)
CoherentPartly ==
  \A k \in Active \cap mem.current.keys :
    /\ k \notin mem.restarts \cup mem.failed
    /\ ~control[k].closed /\ control[k].listening
    /\ control[k].max = mem.current.max

(* currentConfigurationCoherent *)
Coherent ==
  /\ Active = mem.current.keys
  /\ \A k \in mem.current.keys :
       /\ k \notin mem.pending \cup mem.restarts \cup mem.failed
       /\ ~control[k].closed /\ control[k].listening
       /\ control[k].max = mem.current.max

Acknowledgeable ==
  /\ mem.ackPending /\ mem.current # NoDocument
  /\ Coherent
  /\ mem.retire.gen >= mem.current.gen
  /\ \A k \in mem.current.keys : ~Recorded(k)

Acknowledge ==
  /\ pc.at = "ack"
  /\ IF Acknowledgeable
     THEN \E o \in Saves :
            /\ Spend(Cost(o))
            /\ disk' = IF o = "failed" THEN disk ELSE [disk EXCEPT !.ack = mem.current.gen]
            /\ mem' = IF o = "ok" THEN [mem EXCEPT !.ackPending = FALSE] ELSE mem
     ELSE UNCHANGED <<disk, mem, faults>>
  /\ pc' = Idle
  /\ UNCHANGED <<desired, scaleset, workers, control, bounds>>

-----------------------------------------------------------------------------
(* Shutdown, crash and restart.                                            *)

(* The process ends and its memory with it. *)
Exit ==
  /\ mem' = NewMemory
  /\ control' = [k \in Keys |-> NoController]
  /\ pc' = Down

(* The sessions are closed; without a full stop that is all. *)
BeginShutdown(full) ==
  /\ pc.at = "idle" /\ stops < MaxStops
  /\ stops' = stops + 1
  /\ IF full
     THEN /\ control' = [k \in Keys |->
                          IF k \in Controlled
                          THEN [control[k] EXCEPT !.closed = TRUE, !.listening = FALSE]
                          ELSE control[k]]
          /\ pc' = Goto("stopping")
          /\ UNCHANGED mem
     ELSE Exit
  /\ UNCHANGED <<desired, disk, scaleset, workers, writes, crashes, faults>>

(* A full stop stops every worker it can. *)
StopWorkers ==
  /\ pc.at = "stopping"
  /\ \E left \in SUBSET workers :
       /\ "github" \notin FaultKinds => left = {}
       /\ Spend(Cardinality(left))
       /\ workers' = left
  /\ pc' = Goto("deleting")
  /\ UNCHANGED <<desired, disk, scaleset, mem, control, bounds>>

(* Then it deletes the scale sets it knows of, whatever failed before. *)
ToDelete == Controlled \cup mem.pending \cup {k \in Keys : Recorded(k)}

DeleteOnStop(k) ==
  /\ Turn("deleting", ToDelete, k)
  /\ \E o \in Calls, gone \in BOOLEAN :
       /\ o = "ok" => gone
       /\ Spend(Cost(o))
       /\ scaleset' = IF gone THEN scaleset \ {k} ELSE scaleset
  /\ pc' = Cursor("deleting", k)
  /\ UNCHANGED <<desired, disk, workers, mem, control, bounds>>

EndShutdown ==
  /\ Past("deleting", ToDelete)
  /\ Exit
  /\ UNCHANGED <<desired, disk, scaleset, workers, bounds, faults>>

Crash ==
  /\ pc.at # "down" /\ crashes < MaxCrashes
  /\ crashes' = crashes + 1
  /\ Exit
  /\ UNCHANGED <<desired, disk, scaleset, workers, writes, stops, faults>>

(* run: the fence goes up, the containers are scanned once, and the two    *)
(* documents are read.  Leases whose workers are gone may be unaccounted.  *)
Restart ==
  /\ pc.at = "down"
  /\ \E unaccounted \in IF HostAdmission THEN BOOLEAN ELSE {FALSE} :
       mem' = [NewMemory EXCEPT !.current = disk.lastValid,
                                !.ackPending = disk.lastValid # NoDocument,
                                !.retire = disk.retire,
                                !.recovered = workers,
                                !.adopting = HostAdmission,
                                !.unaccounted = unaccounted]
  /\ pc' = Goto("desired")
  /\ UNCHANGED <<desired, disk, scaleset, workers, control, bounds, faults>>

-----------------------------------------------------------------------------
(* The rest of the world.                                                  *)

WriteDesired ==
  /\ writes < MaxWrites
  /\ writes' = writes + 1
  /\ desired' \in Documents \cup {Invalid}
  /\ UNCHANGED <<disk, scaleset, workers, mem, control, pc, crashes, stops, faults>>

(* A listener stops and reports it. *)
ListenerFails(k) ==
  /\ "listener" \in FaultKinds /\ pc.at # "down"
  /\ control[k].listening
  /\ Spend(1)
  /\ control' = [control EXCEPT ![k].listening = FALSE]
  /\ mem' = [mem EXCEPT !.failed = @ \cup {k}]
  /\ UNCHANGED <<desired, disk, scaleset, workers, pc, bounds>>

(* The target's scaler launches workers, and none while adoption is fenced. *)
WorkerStarts(k) ==
  /\ pc.at # "down" /\ ~mem.adopting
  /\ control[k].role = "active" /\ ~control[k].closed
  /\ k \notin workers
  /\ workers' = workers \cup {k}
  /\ UNCHANGED <<desired, disk, scaleset, mem, control, pc, bounds, faults>>

WorkersEnd(k) ==
  /\ k \in workers
  /\ workers' = workers \ {k}
  /\ UNCHANGED <<desired, disk, scaleset, mem, control, pc, bounds, faults>>

(* retryPendingHostLeaseAdoptions catches up. *)
AdoptLater(k) ==
  /\ pc.at # "down"
  /\ k \in Controlled /\ ~control[k].adopted
  /\ control' = [control EXCEPT ![k].adopted = TRUE]
  /\ UNCHANGED <<desired, disk, scaleset, workers, mem, pc, bounds, faults>>

Init ==
  /\ desired = NoDocument
  /\ disk = [lastValid |-> NoDocument, retire |-> NoRetirements, ack |-> 0]
  /\ scaleset = {} /\ workers = {}
  /\ mem = NewMemory
  /\ control = [k \in Keys |-> NoController]
  /\ pc = Down
  /\ writes = 0 /\ faults = 0 /\ crashes = 0 /\ stops = 0

Desiring == StartCycle \/ KeepDesired \/ AcceptRetirements \/ AcceptDesired \/ EnsureRetirements

Targeting == OpenController \/ RetireUndesired
             \/ \E k \in Keys : KeepTarget(k) \/ UpdateTarget(k) \/ EnsureScaleSet(k)

Finishing == FindRetiring \/ AdmitRetiring \/ RetirementStarted \/ DeleteScaleSet
             \/ ForgetRetirement \/ EndRetire
             \/ \E k \in Keys : PrepareRetirement(k) \/ DrainRetiring(k)

Listening == DetectListeners \/ EndRestart \/ \E k \in Keys : RestartListener(k)

Waiting == WaitToComplete \/ \E k \in Keys : WaitToRetire(k) \/ WaitToRestart(k)

Cycle == Desiring \/ Targeting \/ Finishing \/ CompleteAdoption \/ Listening \/ Acknowledge
         \/ Waiting

Stopping == StopWorkers \/ EndShutdown \/ (\E k \in Keys : DeleteOnStop(k))
            \/ \E full \in BOOLEAN : BeginShutdown(full)

World == WriteDesired
         \/ \E k \in Keys : ListenerFails(k) \/ WorkerStarts(k) \/ WorkersEnd(k) \/ AdoptLater(k)

Next == Cycle \/ Stopping \/ Crash \/ Restart \/ World

Spec == Init /\ [][Next]_vars

-----------------------------------------------------------------------------
(* Properties.                                                             *)

(* A scale set at GitHub belongs to a target of the last valid document or *)
(* to one with a durable retirement record, at every moment and so after   *)
(* any crash: acceptDesiredTransition saves the records before the         *)
(* document, and reconcileRetirements drops a record after the deletion.   *)
RetirementNeverForgotten ==
  \A k \in scaleset : k \in disk.lastValid.keys \/ disk.retire.at[k] # 0

(* Once the host admission fence is lifted every target with workers has a *)
(* controller, and the controller has adopted their leases: no worker that *)
(* outlived the manager is left out when completeHostAdmissionAdoption     *)
(* lets other profiles launch again.                                       *)
FenceLiftedAccounted ==
  (HostAdmission /\ pc.at # "down" /\ ~mem.adopting) =>
    \A k \in workers : k \in Controlled /\ control[k].adopted

(* An acknowledged generation is the durable one, each of its targets has  *)
(* a scale set, and none of them has a durable retirement record that a    *)
(* restart would act on (publishAcknowledgement).                          *)
AcknowledgedIsApplied ==
  [][disk'.ack # disk.ack =>
       /\ disk.lastValid.gen = disk'.ack
       /\ \A k \in disk.lastValid.keys : k \in scaleset /\ disk.retire.at[k] = 0]_vars

(* Outside a full stop a scale set is deleted only for a target that left  *)
(* the durable document, has a durable retirement record and has no        *)
(* workers (reconcileRetirementsWithFinalization).                         *)
DeletedOnlyRetired ==
  [][\A k \in scaleset \ scaleset' :
       pc.at # "deleting" => /\ k \notin disk.lastValid.keys
                             /\ disk.retire.at[k] # 0
                             /\ k \notin workers]_vars

(* An acknowledgement is never taken back and the durable document never   *)
(* goes back to an earlier generation (classifyDesiredState).              *)
GenerationsAdvance ==
  [][disk'.lastValid.gen >= disk.lastValid.gen /\ disk'.ack >= disk.ack]_vars

-----------------------------------------------------------------------------
(* Liveness.  The cycle runs every second, so its steps are weakly fair; a *)
(* retry deadline is never further away than its bound, so what may be put *)
(* off is strongly fair.  A manager that is down is restarted; a failed    *)
(* adoption is retried by the scaler; jobs end.                            *)

Fairness ==
  /\ WF_vars(Cycle) /\ WF_vars(StopWorkers) /\ WF_vars(EndShutdown) /\ WF_vars(Restart)
  /\ SF_vars(CompleteAdoption)
  /\ \A k \in Keys : /\ SF_vars(PrepareRetirement(k)) /\ SF_vars(RestartListener(k))
                     /\ WF_vars(DeleteOnStop(k)) /\ WF_vars(AdoptLater(k))
                     /\ SF_vars(WorkersEnd(k))

FairSpec == Spec /\ Fairness

(* A newer document of the operator is accepted, applied and acknowledged, *)
(* whatever calls, saves or listeners fail on the way (processDesired to   *)
(* publishAcknowledgement).                                                *)
DesiredAcknowledged ==
  (desired.gen > disk.lastValid.gen) ~>
     (desired.gen <= disk.lastValid.gen /\ disk.ack = disk.lastValid.gen)

(* A scale set whose workers could not all be stopped by the full stop     *)
(* that deleted it: its retirement waits for a restart without them.       *)
LeftBehind(k) == k \in mem.recovered /\ k \notin scaleset

(* A retirement record is eventually dealt with: the target drains, its    *)
(* scale set is deleted and the record is dropped, or the target is        *)
(* desired again (reconcileRetirements).                                   *)
RetirementCompletes ==
  \A k \in Keys : (disk.retire.at[k] # 0) ~> (disk.retire.at[k] = 0 \/ LeftBehind(k))

(* The host admission fence a restart raises is lifted again, unless no    *)
(* target is left that could tell whether the lost workers' registrations  *)
(* are gone (completeHostAdmissionAdoptionIfReady).                        *)
AdoptionCompletes ==
  mem.adopting ~> \/ ~mem.adopting
                  \/ mem.unaccounted /\ Controlled \cup mem.orphan = {}
                  \/ \E k \in Keys : LeftBehind(k)

(* A listener that stopped is running again, unless its target is done     *)
(* (restartFailedListeners).                                               *)
ListenerRestored ==
  \A k \in Keys : (k \in Controlled /\ ~control[k].listening) ~>
                    (control[k].listening \/ k \notin Controlled)

=============================================================================
