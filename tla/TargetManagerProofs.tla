------------------------- MODULE TargetManagerProofs -------------------------
(* The manager never loses track of a scale set or of a worker, as long as *)
(* a save that reports an error has not replaced its file.  The argument   *)
(* is one invariant, Inv, preserved by every step.                         *)
EXTENDS TargetManager, FiniteSetTheorems, TLAPS

Up == pc.at # "down"

Ending == pc.at \in {"stopping", "deleting"}

(* Memory and disk agree on what is current and what retires: a save that  *)
(* fails changes neither.  A manager that is down has no memory.           *)
Mirrored ==
  /\ Up => mem.current = disk.lastValid /\ mem.retire = disk.retire
  /\ ~Up => mem = NewMemory /\ \A k \in Keys : control[k] = NoController

(* Between the two saves of an acceptance every target that is about to    *)
(* leave has its record.                                                   *)
Accepting ==
  /\ disk.ack <= disk.lastValid.gen
  /\ pc.at = "accept" =>
       /\ pc.doc.gen > disk.lastValid.gen
       /\ \A k \in disk.lastValid.keys \ pc.doc.keys : disk.retire.at[k] # 0

(* The cycle is in the middle of the retirement of pc.k. *)
Halfway == {"find", "admit", "started", "drain", "delete", "forget"}

(* Where the cycle is tells how far the retirement of pc.k has come.       *)
Placed ==
  /\ pc.at = "open" => pc.k \in scaleset
  /\ pc.at \in Halfway => pc.k \in ToRetire
  /\ pc.at = "started" => pc.k \in Retiring \/ pc.k \notin scaleset \cup mem.recovered
  /\ pc.at \in {"drain", "delete"} => pc.k \in Retiring
  /\ pc.at = "delete" => pc.k \notin workers
  /\ pc.at = "forget" => pc.k \notin scaleset \cup workers

(* Once the controllers of targets that left have been turned, none that   *)
(* is due for retirement is active.                                        *)
Turned == pc.at \in Halfway \cup {"retire", "adopt"} => Active \cap ToRetire = {}

(* Outside a full stop an active target has its scale set and an open      *)
(* session, and a session is closed only over a target without workers.    *)
Sessions ==
  ~Ending => \A k \in Keys :
    /\ k \in Active => k \in scaleset /\ ~control[k].closed
    /\ k \in Retiring /\ control[k].closed => k \notin workers

(* Every worker has a controller or waits for one; once the fence is       *)
(* lifted none waits.                                                      *)
Covered ==
  Up => /\ workers \subseteq mem.recovered \cup Controlled
        /\ (HostAdmission /\ ~mem.adopting) =>
             mem.recovered = {} /\ \A k \in Controlled : control[k].adopted

Inv == TypeOK /\ Mirrored /\ RetirementNeverForgotten /\ Accepting /\ Placed /\ Turned
       /\ Sessions /\ Covered

-----------------------------------------------------------------------------
(* Calls, saves and their cost.                                            *)

(* A failure is counted once and within the bound. *)
LEMMA SpendTyped ==
  ASSUME NEW n \in Nat, faults \in 0..MaxFaults, Spend(n)
  PROVE  faults' \in 0..MaxFaults
  BY LimitsAssumption DEF Spend

(* Only a failure costs anything, and it costs one. *)
LEMMA CostTyped == ASSUME NEW o PROVE Cost(o) \in Nat
  BY DEF Cost

(* An accepted document names targets and has a generation. *)
LEMMA AcceptedTyped ==
  ASSUME NEW d \in Accepted
  PROVE  d.gen \in 0..MaxGeneration /\ d.keys \subseteq Keys /\ d.max \in Maxima \cup {0}
  BY LimitsAssumption DEF Accepted, Documents, NoDocument

(* persistRetirements either leaves everything as it was or brings memory  *)
(* and disk to the new records together.                                   *)
LEMMA PersistTogether ==
  ASSUME "sync" \notin FaultKinds, TypeOK, mem.retire = disk.retire,
         NEW retire \in Retirements, NEW o \in Saves,
         NEW m \in Memories, m.retire = mem.retire, Persist(retire, o, m)
  PROVE  /\ disk' \in Stored /\ mem' \in Memories /\ faults' \in 0..MaxFaults
         /\ disk'.lastValid = disk.lastValid /\ disk'.ack = disk.ack
         /\ mem'.retire = disk'.retire
         /\ disk'.retire = IF o = "ok" THEN retire ELSE disk.retire
         /\ mem' = IF o = "ok" THEN [m EXCEPT !.retire = retire] ELSE m
<1>1. o \in {"ok", "failed"}  BY DEF Saves
<1>2. faults' \in 0..MaxFaults  BY SpendTyped, CostTyped DEF Persist, TypeOK
<1>3. CASE o = "ok"  BY <1>2, <1>3 DEF Persist, TypeOK, Stored, Memories
<1>4. CASE o = "failed"  BY <1>2, <1>4 DEF Persist, TypeOK
<1> QED BY <1>1, <1>3, <1>4

-----------------------------------------------------------------------------
(* What a step leaves alone.                                               *)

(* Controllers, workers and scale sets as they were. *)
LEMMA SameControl ==
  ASSUME Inv, Up, Up', Ending' = Ending, UNCHANGED <<scaleset, workers, control>>,
         mem'.recovered = mem.recovered, mem'.adopting = mem.adopting
  PROVE  Sessions' /\ Covered'
<1>1. UNCHANGED <<Active, Retiring, Controlled>>  BY DEF Active, Retiring, Controlled
<1>2. Sessions'  BY <1>1 DEF Inv, Sessions
<1>3. Covered'  BY <1>1 DEF Inv, Covered
<1> QED BY <1>2, <1>3

(* A step that moves the cycle on and changes nothing the invariant is about. *)
LEMMA Quiet ==
  ASSUME Inv, TypeOK', Up, Up', Ending' = Ending,
         UNCHANGED <<disk, scaleset, workers, control>>,
         mem'.current = mem.current, mem'.retire = mem.retire,
         mem'.recovered = mem.recovered, mem'.adopting = mem.adopting,
         pc'.at \notin Halfway \cup {"accept", "open"},
         pc'.at \in {"retire", "adopt"} => pc.at \in Halfway \cup {"retire", "adopt"}
  PROVE  Inv'
<1>1. UNCHANGED <<Active, ToRetire>>  BY DEF Active, ToRetire
<1>2. Mirrored'  BY DEF Inv, Mirrored
<1>3. RetirementNeverForgotten'  BY DEF Inv, RetirementNeverForgotten
<1>4. Accepting'  BY DEF Inv, Accepting
<1>5. Placed'  BY DEF Placed, Halfway
<1>6. Turned'  BY <1>1 DEF Inv, Turned
<1>7. Sessions' /\ Covered'  BY SameControl
<1> QED BY <1>2, <1>3, <1>4, <1>5, <1>6, <1>7 DEF Inv

-----------------------------------------------------------------------------
(* processDesired.                                                         *)

(* Scheduling the failed listeners touches nothing durable. *)
LEMMA StartCycleSafe ==
  ASSUME Inv, StartCycle
  PROVE  Inv'
<1>1. mem \in Memories /\ pc \in Positions  BY DEF Inv, TypeOK
<1>2. mem.restarts \cup mem.failed \in SUBSET Keys /\ {} \in SUBSET Keys
  BY <1>1 DEF Memories
<1>3. mem' \in Memories  BY <1>1, <1>2 DEF StartCycle, Memories
<1>4. pc' \in Positions /\ pc'.at = "desired"
  BY <1>1 DEF StartCycle, Goto, Positions, Locations
<1>5. TypeOK'  BY <1>3, <1>4 DEF Inv, TypeOK, StartCycle, bounds
<1>6. /\ mem'.current = mem.current /\ mem'.retire = mem.retire
      /\ mem'.recovered = mem.recovered /\ mem'.adopting = mem.adopting
  BY <1>1 DEF StartCycle, Memories
<1> QED BY <1>4, <1>5, <1>6, Quiet DEF StartCycle, Up, Ending, Halfway

(* A document that is stale or already read changes nothing but that. *)
LEMMA KeepDesiredSafe ==
  ASSUME Inv, KeepDesired
  PROVE  Inv'
<1>1. mem \in Memories /\ pc \in Positions /\ desired \in Accepted \cup {Invalid}
  BY DEF Inv, TypeOK
<1>2. mem' \in Memories  BY <1>1 DEF KeepDesired, Memories
<1>3. pc' \in Positions /\ pc'.at = "ensure"
  BY <1>1 DEF KeepDesired, Goto, Positions, Locations
<1>4. TypeOK'  BY <1>2, <1>3 DEF Inv, TypeOK, KeepDesired, bounds
<1>5. /\ mem'.current = mem.current /\ mem'.retire = mem.retire
      /\ mem'.recovered = mem.recovered /\ mem'.adopting = mem.adopting
  BY <1>1 DEF KeepDesired, Memories
<1> QED BY <1>3, <1>4, <1>5, Quiet DEF KeepDesired, Up, Ending, Halfway

(* The records saved first cover every target that is about to leave. *)
LEMMA AcceptRetirementsSafe ==
  ASSUME "sync" \notin FaultKinds, Inv, AcceptRetirements
  PROVE  Inv'
<1> DEFINE next == WithNewRetirements(desired)
<1>1. /\ TypeOK /\ mem \in Memories /\ pc \in Positions /\ Up
      /\ mem.current = disk.lastValid /\ mem.retire = disk.retire
  BY DEF Inv, TypeOK, Mirrored, Up, AcceptRetirements
<1>2. mem.current.gen \in 0..MaxGeneration /\ mem.retire \in Retirements
  BY <1>1, AcceptedTyped DEF Memories
<1>3. desired \in Accepted /\ desired.gen > mem.current.gen
  <2>1. desired.gen > mem.current.gen  BY DEF AcceptRetirements
  <2>2. ASSUME desired = Invalid PROVE FALSE
    <3>1. desired.gen = -1  BY <2>2 DEF Invalid
    <3> QED BY <1>2, <2>1, <3>1, LimitsAssumption
  <2>3. desired # Invalid  BY <2>2
  <2> QED BY <2>1, <2>3 DEF Inv, TypeOK
<1>4. desired.gen \in 1..MaxGeneration
  BY <1>2, <1>3, AcceptedTyped
<1>5. next \in Retirements
  BY <1>2, <1>4, LimitsAssumption DEF WithNewRetirements, Retirements
<1>6. PICK o \in Saves :
        /\ Persist(next, o, mem)
        /\ pc' = IF o = "ok" THEN [Goto("accept") EXCEPT !.doc = desired] ELSE Goto("ensure")
  BY DEF AcceptRetirements
<1> HIDE DEF next
<1>7. /\ disk' \in Stored /\ mem' \in Memories /\ faults' \in 0..MaxFaults
      /\ disk'.lastValid = disk.lastValid /\ disk'.ack = disk.ack
      /\ mem'.retire = disk'.retire
      /\ disk'.retire = IF o = "ok" THEN next ELSE disk.retire
      /\ mem' = IF o = "ok" THEN [mem EXCEPT !.retire = next] ELSE mem
  BY <1>1, <1>5, <1>6, PersistTogether
<1>8. /\ mem'.current = mem.current
      /\ mem'.recovered = mem.recovered /\ mem'.adopting = mem.adopting
  BY <1>1, <1>7 DEF Memories
<1>9. pc' \in Positions /\ pc'.at = (IF o = "ok" THEN "accept" ELSE "ensure")
                        /\ (o = "ok" => pc'.doc = desired)
  BY <1>1, <1>3, <1>6 DEF Goto, Positions, Locations
<1>10. TypeOK'  BY <1>7, <1>9 DEF Inv, TypeOK, AcceptRetirements, bounds
<1>11. Mirrored'  BY <1>1, <1>7, <1>8, <1>9 DEF Mirrored, Up
<1>12. \A k \in Keys : /\ disk.retire.at[k] # 0 => disk'.retire.at[k] # 0
                       /\ o = "ok" /\ k \in disk.lastValid.keys \ desired.keys
                            => disk'.retire.at[k] # 0
  BY <1>1, <1>4, <1>7 DEF next, WithNewRetirements, Recorded
<1>13. RetirementNeverForgotten'
  BY <1>1, <1>7, <1>12 DEF Inv, RetirementNeverForgotten, AcceptRetirements, TypeOK
<1>14. disk.lastValid.keys \subseteq Keys  BY <1>1, AcceptedTyped DEF Memories
<1>15. Accepting'  BY <1>1, <1>3, <1>7, <1>9, <1>12, <1>14 DEF Inv, Accepting
<1>16. Placed' /\ Turned'  BY <1>9 DEF Placed, Turned, Halfway
<1>17. Sessions' /\ Covered'
  BY <1>1, <1>8, <1>9, SameControl DEF AcceptRetirements, Up, Ending
<1> QED BY <1>10, <1>11, <1>13, <1>15, <1>16, <1>17 DEF Inv

(* The document is saved when the records of what leaves are on disk. *)
LEMMA AcceptDesiredSafe ==
  ASSUME "sync" \notin FaultKinds, Inv, AcceptDesired
  PROVE  Inv'
<1>1. /\ TypeOK /\ mem \in Memories /\ pc \in Positions /\ disk \in Stored /\ Up
      /\ mem.current = disk.lastValid /\ mem.retire = disk.retire
  BY DEF Inv, TypeOK, Mirrored, Up, AcceptDesired
<1>2. PICK o \in Saves :
        /\ Spend(Cost(o))
        /\ disk' = IF o = "failed" THEN disk ELSE [disk EXCEPT !.lastValid = pc.doc]
        /\ mem' = IF o = "ok" THEN [mem EXCEPT !.current = pc.doc, !.read = pc.doc,
                                               !.ackPending = TRUE]
                  ELSE mem
        /\ pc' = [pc EXCEPT !.at = IF o = "ok" THEN "settle" ELSE "ensure", !.doc = NoDocument]
  BY DEF AcceptDesired
<1>3. o \in {"ok", "failed"}  BY DEF Saves
<1>4. faults' \in 0..MaxFaults  BY <1>1, <1>2, SpendTyped, CostTyped DEF TypeOK
<1>5. pc' \in Positions /\ pc'.at \in {"settle", "ensure"}
  BY <1>1, <1>2 DEF Positions, Locations, Accepted
<1>6. pc.doc \in Accepted  BY <1>1 DEF Positions
<1>7. disk' \in Stored /\ mem' \in Memories
  BY <1>1, <1>2, <1>3, <1>6 DEF Stored, Memories
<1>8. TypeOK'  BY <1>4, <1>5, <1>7 DEF Inv, TypeOK, AcceptDesired, bounds
<1>9. /\ disk'.retire = disk.retire /\ disk'.ack = disk.ack
      /\ mem'.retire = mem.retire /\ mem'.current = disk'.lastValid
      /\ mem'.recovered = mem.recovered /\ mem'.adopting = mem.adopting
      /\ disk'.lastValid \in {disk.lastValid, pc.doc}
  BY <1>1, <1>2, <1>3 DEF Stored, Memories
<1>10. Mirrored'  BY <1>1, <1>5, <1>9 DEF Mirrored, Up
<1>11. /\ disk.lastValid.gen \in Nat /\ pc.doc.gen \in Nat /\ disk.ack \in Nat
       /\ disk.ack <= disk.lastValid.gen /\ pc.doc.gen > disk.lastValid.gen
       /\ \A k \in disk.lastValid.keys \ pc.doc.keys : disk.retire.at[k] # 0
  BY <1>1, <1>6, AcceptedTyped, LimitsAssumption DEF Inv, Accepting, AcceptDesired, Stored
<1>12. RetirementNeverForgotten'
  BY <1>9, <1>11 DEF Inv, RetirementNeverForgotten, AcceptDesired
<1>13. Accepting'  BY <1>5, <1>9, <1>11 DEF Accepting
<1>14. Placed' /\ Turned'  BY <1>5 DEF Placed, Turned, Halfway
<1>15. Sessions' /\ Covered'
  BY <1>1, <1>5, <1>9, SameControl DEF AcceptDesired, Up, Ending
<1> QED BY <1>8, <1>10, <1>12, <1>13, <1>14, <1>15 DEF Inv

(* A record is dropped only for a target the document names again. *)
LEMMA EnsureRetirementsSafe ==
  ASSUME "sync" \notin FaultKinds, Inv, EnsureRetirements
  PROVE  Inv'
<1> DEFINE next == CurrentRetirements
<1>1. /\ TypeOK /\ mem \in Memories /\ pc \in Positions /\ disk \in Stored /\ Up
      /\ mem.current = disk.lastValid /\ mem.retire = disk.retire
  BY DEF Inv, TypeOK, Mirrored, Up, EnsureRetirements
<1>2. mem.current.gen \in 0..MaxGeneration /\ mem.retire \in Retirements
  BY <1>1, AcceptedTyped DEF Memories
<1>3. next \in Retirements
  BY <1>2, LimitsAssumption DEF CurrentRetirements, Retirements
<1>4. PICK o \in Saves : UNCHANGED <<disk, mem, faults>> \/ Persist(next, o, mem)
  BY DEF EnsureRetirements
<1> HIDE DEF next
<1>5. /\ disk' \in Stored /\ mem' \in Memories /\ faults' \in 0..MaxFaults
      /\ disk'.lastValid = disk.lastValid /\ disk'.ack = disk.ack
      /\ mem'.retire = disk'.retire /\ disk'.retire \in {next, disk.retire}
      /\ mem'.current = mem.current
      /\ mem'.recovered = mem.recovered /\ mem'.adopting = mem.adopting
  <2>1. CASE UNCHANGED <<disk, mem, faults>>  BY <1>1, <2>1 DEF TypeOK
  <2>2. CASE Persist(next, o, mem)
    <3>1. /\ disk' \in Stored /\ mem' \in Memories /\ faults' \in 0..MaxFaults
          /\ disk'.lastValid = disk.lastValid /\ disk'.ack = disk.ack
          /\ mem'.retire = disk'.retire
          /\ disk'.retire = IF o = "ok" THEN next ELSE disk.retire
          /\ mem' = IF o = "ok" THEN [mem EXCEPT !.retire = next] ELSE mem
      BY <1>1, <1>3, <2>2, PersistTogether
    <3> QED BY <1>1, <3>1 DEF Memories
  <2> QED BY <1>4, <2>1, <2>2
<1>6. pc' \in Positions /\ pc'.at \in {"ensure", "adopt", "targets"}
      /\ (pc'.at = "adopt" => mem.current = NoDocument)
  BY <1>1 DEF EnsureRetirements, Positions, Locations
<1>7. TypeOK'  BY <1>5, <1>6 DEF Inv, TypeOK, EnsureRetirements, bounds
<1>8. Mirrored'  BY <1>1, <1>5, <1>6 DEF Mirrored, Up
<1>9. \A k \in Keys : disk.retire.at[k] # 0 =>
                         k \in disk.lastValid.keys \/ disk'.retire.at[k] # 0
  BY <1>1, <1>5 DEF next, CurrentRetirements
<1>10. RetirementNeverForgotten'
  BY <1>1, <1>5, <1>9 DEF Inv, RetirementNeverForgotten, EnsureRetirements, TypeOK
<1>11. Accepting'  BY <1>5, <1>6 DEF Inv, Accepting
<1>12. Placed'  BY <1>6 DEF Placed, Halfway
<1>13. Turned'
  <2>1. pc'.at = "adopt" => mem'.current.gen = 0  BY <1>5, <1>6 DEF NoDocument
  <2>2. pc'.at = "adopt" => ToRetire' = {}  BY <2>1 DEF ToRetire
  <2> QED BY <1>6, <2>2 DEF Turned, Halfway
<1>14. Sessions' /\ Covered'
  BY <1>1, <1>5, <1>6, SameControl DEF EnsureRetirements, Up, Ending
<1> QED BY <1>7, <1>8, <1>10, <1>11, <1>12, <1>13, <1>14 DEF Inv

-----------------------------------------------------------------------------
(* reconcileDesiredTargets.                                                *)

(* A controller that fits the document is left as it is. *)
LEMMA KeepTargetSafe ==
  ASSUME Inv, NEW k \in Keys, KeepTarget(k)
  PROVE  Inv'
<1>1. mem \in Memories /\ pc \in Positions /\ pc.at = "targets"
  BY DEF Inv, TypeOK, KeepTarget, Turn
<1>2. mem.orphan \ {k} \in SUBSET Keys  BY <1>1 DEF Memories
<1>3. mem' \in Memories  BY <1>1, <1>2 DEF KeepTarget, Memories
<1>4. pc' \in Positions /\ pc'.at = "targets"
  BY <1>1 DEF KeepTarget, Cursor, Positions, Locations
<1>5. TypeOK'  BY <1>3, <1>4 DEF Inv, TypeOK, KeepTarget, bounds
<1>6. /\ mem'.current = mem.current /\ mem'.retire = mem.retire
      /\ mem'.recovered = mem.recovered /\ mem'.adopting = mem.adopting
  BY <1>1 DEF KeepTarget, Memories
<1> QED BY <1>1, <1>4, <1>5, <1>6, Quiet DEF KeepTarget, Up, Ending, Halfway

(* A target that is updated or reactivated has an open session. *)
LEMMA UpdateTargetSafe ==
  ASSUME Inv, NEW k \in Keys, UpdateTarget(k)
  PROVE  Inv'
<1>1. /\ TypeOK /\ mem \in Memories /\ pc \in Positions /\ control \in [Keys -> Controllers]
      /\ pc.at = "targets" /\ k \in mem.current.keys /\ Up /\ ~Ending
      /\ mem.current = disk.lastValid /\ mem.retire = disk.retire
  BY DEF Inv, TypeOK, Mirrored, UpdateTarget, Turn, Rest, Up, Ending
<1>2. PICK o \in Calls :
        /\ Spend(Cost(o))
        /\ control' = IF o = "ok" THEN [control EXCEPT ![k].role = "active",
                                                      ![k].max = mem.current.max]
                      ELSE control
  BY DEF UpdateTarget
<1>3. faults' \in 0..MaxFaults  BY <1>1, <1>2, SpendTyped, CostTyped DEF TypeOK
<1>4. mem.orphan \ {k} \in SUBSET Keys /\ mem.current.max \in Maxima \cup {0}
  BY <1>1, AcceptedTyped DEF Memories
<1>5. mem' \in Memories  BY <1>1, <1>4 DEF UpdateTarget, Memories
<1>6. control' \in [Keys -> Controllers]
  <2>1. CASE o # "ok"  BY <1>1, <1>2, <2>1
  <2>2. CASE o = "ok"
    <3>1. [control[k] EXCEPT !.role = "active", !.max = mem.current.max] \in Controllers
      BY <1>1, <1>4 DEF Controllers
    <3> QED BY <1>1, <1>2, <2>2, <3>1
  <2> QED BY <2>1, <2>2
<1>7. pc' \in Positions /\ pc'.at = "targets"
  BY <1>1 DEF UpdateTarget, Cursor, Positions, Locations
<1>8. TypeOK'  BY <1>3, <1>5, <1>6, <1>7 DEF Inv, TypeOK, UpdateTarget, bounds
<1>9. /\ mem'.current = mem.current /\ mem'.retire = mem.retire
      /\ mem'.recovered = mem.recovered /\ mem'.adopting = mem.adopting
  BY <1>1 DEF UpdateTarget, Memories
<1>10. \A j \in Keys : /\ control'[j].closed = control[j].closed
                       /\ control'[j].adopted = control[j].adopted
                       /\ j # k => control'[j].role = control[j].role
                       /\ control'[k].role \in {control[k].role, "active"}
  BY <1>1, <1>2 DEF Controllers
<1>11. Mirrored'  BY <1>1, <1>7, <1>9 DEF Mirrored, Up, UpdateTarget
<1>12. RetirementNeverForgotten'  BY <1>1 DEF Inv, RetirementNeverForgotten, UpdateTarget
<1>13. Accepting'  BY <1>7 DEF Inv, Accepting, UpdateTarget
<1>14. Placed' /\ Turned'  BY <1>7 DEF Placed, Turned, Halfway
<1>15. k \in Controlled /\ ~control[k].closed
  BY <1>1 DEF UpdateTarget, Controlled, Active, Retiring, Inv, Sessions
<1>16. Sessions'
  BY <1>1, <1>10, <1>15 DEF Inv, Sessions, UpdateTarget, Active, Retiring
<1>17. Controlled' = Controlled
  BY <1>10, <1>15 DEF Controlled, Active, Retiring
<1>18. Covered'
  BY <1>1, <1>9, <1>10, <1>17 DEF Inv, Covered, UpdateTarget, Controlled, Active, Retiring
<1> QED BY <1>8, <1>11, <1>12, <1>13, <1>14, <1>16, <1>18 DEF Inv

(* A closed session has no workers, so its controller may be replaced. *)
LEMMA EnsureScaleSetSafe ==
  ASSUME Inv, NEW k \in Keys, EnsureScaleSet(k)
  PROVE  Inv'
<1>1. /\ TypeOK /\ mem \in Memories /\ pc \in Positions /\ control \in [Keys -> Controllers]
      /\ pc.at = "targets" /\ k \in mem.current.keys /\ Up /\ ~Ending
      /\ mem.current = disk.lastValid /\ mem.retire = disk.retire
  BY DEF Inv, TypeOK, Mirrored, EnsureScaleSet, Turn, Rest, Up, Ending
<1>2. PICK o \in Calls, made \in BOOLEAN :
        /\ o = "ok" => made
        /\ Spend(Cost(o))
        /\ scaleset' = IF made THEN scaleset \cup {k} ELSE scaleset
        /\ mem' = [mem EXCEPT !.orphan = @ \ {k},
                              !.pending = IF o = "ok" THEN @ \cup {k} ELSE @]
        /\ pc' = Cursor(IF o = "ok" THEN "open" ELSE "targets", k)
  BY DEF EnsureScaleSet
<1>3. faults' \in 0..MaxFaults  BY <1>1, <1>2, SpendTyped, CostTyped DEF TypeOK
<1>4. mem.orphan \ {k} \in SUBSET Keys /\ mem.pending \cup {k} \in SUBSET Keys
  BY <1>1 DEF Memories
<1>5. mem' \in Memories  BY <1>1, <1>2, <1>4 DEF Memories
<1>6. control' \in [Keys -> Controllers]
  BY <1>1, <1>2 DEF Controllers, EnsureScaleSet, NoController
<1>7. pc' \in Positions /\ pc'.at \in {"open", "targets"} /\ pc'.k = k
      /\ (pc'.at = "open" => made)
  BY <1>1, <1>2 DEF Cursor, Positions, Locations
<1>8. TypeOK'  BY <1>2, <1>3, <1>5, <1>6, <1>7 DEF Inv, TypeOK, EnsureScaleSet, bounds
<1>9. /\ mem'.current = mem.current /\ mem'.retire = mem.retire
      /\ mem'.recovered = mem.recovered /\ mem'.adopting = mem.adopting
  BY <1>1, <1>2 DEF Memories
<1>10. \A j \in Keys : control'[j] = IF j = k THEN NoController ELSE control[j]
  BY <1>1 DEF EnsureScaleSet
<1>11. Mirrored'  BY <1>1, <1>7, <1>9 DEF Mirrored, Up, EnsureScaleSet
<1>12. RetirementNeverForgotten'
  BY <1>1, <1>2 DEF Inv, RetirementNeverForgotten, EnsureScaleSet
<1>13. Accepting'  BY <1>7 DEF Inv, Accepting, EnsureScaleSet
<1>14. Placed' /\ Turned'  BY <1>2, <1>7 DEF Placed, Turned, Halfway
<1>15. /\ NoController.role = "none" /\ k \notin Active
       /\ k \in Retiring => k \notin workers
  BY <1>1 DEF EnsureScaleSet, NoController, Active, Retiring, Inv, Sessions
<1>16. Active' = Active /\ Retiring' = Retiring \ {k}
  BY <1>10, <1>15 DEF Active, Retiring
<1>17. Sessions'
  BY <1>1, <1>2, <1>10, <1>15, <1>16 DEF Inv, Sessions, EnsureScaleSet
<1>18. Covered'
  BY <1>1, <1>9, <1>10, <1>15, <1>16 DEF Inv, Covered, EnsureScaleSet, Controlled
<1> QED BY <1>8, <1>11, <1>12, <1>13, <1>14, <1>17, <1>18 DEF Inv

(* A controller that starts takes over the recovered workers of its target, *)
(* and adopts their leases at once when nothing is fenced any more.          *)
LEMMA Started ==
  ASSUME Inv, Up, Up', UNCHANGED scaleset,
         NEW k \in Keys, NEW role \in {"active", "retiring"},
         NEW max, NEW adopted \in Adoptions(k),
         control' = [control EXCEPT ![k] = NewController(role, max, adopted)],
         mem'.recovered = mem.recovered \ {k}, mem'.adopting = mem.adopting,
         workers' = workers \cup ({k} \cap mem.recovered),
         ~Ending, role = "active" => k \in scaleset
  PROVE  Sessions' /\ Covered'
<1>1. control \in [Keys -> Controllers] /\ workers \subseteq Keys /\ mem.recovered \subseteq Keys
  BY DEF Inv, TypeOK, Memories
<1>2. \A j \in Keys : control'[j] = IF j = k THEN NewController(role, max, adopted)
                                     ELSE control[j]
  BY <1>1
<1>3. /\ NewController(role, max, adopted).role = role
      /\ NewController(role, max, adopted).adopted = adopted
      /\ ~NewController(role, max, adopted).closed
  BY DEF NewController
<1>4. Sessions'
  BY <1>1, <1>2, <1>3 DEF Inv, Sessions, Active, Retiring
<1>5. Controlled' = Controlled \cup {k}
  BY <1>2, <1>3 DEF Controlled, Active, Retiring
<1>6. HostAdmission /\ ~mem.adopting => adopted
  BY DEF Inv, Covered, Adoptions
<1>7. Controlled' \subseteq Keys  BY DEF Controlled, Active, Retiring
<1>8. workers' \subseteq mem'.recovered \cup Controlled'
  BY <1>5 DEF Inv, Covered
<1>9. ASSUME HostAdmission, ~mem'.adopting
      PROVE  mem'.recovered = {} /\ \A j \in Controlled' : control'[j].adopted
  <2>1. mem.recovered = {} /\ \A j \in Controlled : control[j].adopted
    BY <1>9 DEF Inv, Covered
  <2> QED BY <1>2, <1>3, <1>5, <1>6, <1>7, <1>9, <2>1
<1>10. Covered'  BY <1>8, <1>9 DEF Covered
<1> QED BY <1>4, <1>10

(* The recovered workers of a target pass to its new controller. *)
LEMMA OpenControllerSafe ==
  ASSUME Inv, OpenController
  PROVE  Inv'
<1>1. /\ TypeOK /\ mem \in Memories /\ pc \in Positions /\ control \in [Keys -> Controllers]
      /\ pc.at = "open" /\ pc.k \in scaleset /\ pc.k \in Keys /\ Up /\ ~Ending
      /\ mem.current = disk.lastValid /\ mem.retire = disk.retire
  BY DEF Inv, TypeOK, Mirrored, Placed, OpenController, Up, Ending
<1>2. PICK o \in Calls, adopted \in Adoptions(pc.k) :
        /\ Spend(Cost(o))
        /\ IF o = "ok"
           THEN /\ control' = [control EXCEPT ![pc.k] =
                                 NewController("active", mem.current.max, adopted)]
                /\ mem' = [mem EXCEPT !.pending = @ \ {pc.k}, !.recovered = @ \ {pc.k}]
                /\ workers' = workers \cup ({pc.k} \cap mem.recovered)
           ELSE UNCHANGED <<control, mem, workers>>
  BY DEF OpenController
<1>3. faults' \in 0..MaxFaults  BY <1>1, <1>2, SpendTyped, CostTyped DEF TypeOK
<1>4. mem.pending \ {pc.k} \in SUBSET Keys /\ mem.recovered \ {pc.k} \in SUBSET Keys
      /\ mem.current.max \in Maxima \cup {0} /\ adopted \in BOOLEAN
  BY <1>1, AcceptedTyped DEF Memories, Adoptions
<1>5. mem' \in Memories  BY <1>1, <1>2, <1>4 DEF Memories
<1>6. control' \in [Keys -> Controllers]
  <2>1. NewController("active", mem.current.max, adopted) \in Controllers
    BY <1>4 DEF Controllers, NewController
  <2> QED BY <1>1, <1>2, <2>1
<1>7. pc' \in Positions /\ pc'.at = "targets"
  BY <1>1 DEF OpenController, Goto, Positions, Locations
<1>8. workers' \subseteq Keys  BY <1>1, <1>2 DEF TypeOK
<1>9. TypeOK'  BY <1>3, <1>5, <1>6, <1>7, <1>8 DEF Inv, TypeOK, OpenController, bounds
<1>10. mem'.current = mem.current /\ mem'.retire = mem.retire /\ mem'.adopting = mem.adopting
  BY <1>1, <1>2 DEF Memories
<1>11. Mirrored'  BY <1>1, <1>7, <1>10 DEF Mirrored, Up, OpenController
<1>12. RetirementNeverForgotten'  BY DEF Inv, RetirementNeverForgotten, OpenController
<1>13. Accepting'  BY <1>7 DEF Inv, Accepting, OpenController
<1>14. Placed' /\ Turned'  BY <1>7 DEF Placed, Turned, Halfway
<1>15. Up' /\ ~Ending'  BY <1>7 DEF Up, Ending
<1>16. CASE o = "ok"
  <2>1. mem'.recovered = mem.recovered \ {pc.k}  BY <1>1, <1>2, <1>16 DEF Memories
  <2>2. Sessions' /\ Covered'
    BY <1>1, <1>2, <1>10, <1>15, <1>16, <2>1, Started DEF OpenController
  <2> QED BY <1>9, <1>11, <1>12, <1>13, <1>14, <2>2 DEF Inv
<1>17. CASE o # "ok"
  <2>1. UNCHANGED <<scaleset, workers, control, mem>>  BY <1>2, <1>17 DEF OpenController
  <2>2. Ending' = Ending  BY <1>1, <1>7 DEF Ending
  <2>3. Sessions' /\ Covered'  BY <1>1, <1>15, <2>1, <2>2, SameControl
  <2> QED BY <1>9, <1>11, <1>12, <1>13, <1>14, <2>3 DEF Inv
<1> QED BY <1>16, <1>17

(* Every active controller that is due for retirement is turned. *)
LEMMA RetireUndesiredSafe ==
  ASSUME Inv, RetireUndesired
  PROVE  Inv'
<1> DEFINE turned(k) == k \in Active \ mem.current.keys /\ Recorded(k)
<1>0. /\ Past("targets", mem.current.keys)
      /\ mem' = [mem EXCEPT !.pending = @ \cap mem.current.keys]
      /\ pc' = Cursor("retire", 0)
      /\ UNCHANGED <<desired, disk, scaleset, workers, bounds, faults>>
  BY DEF RetireUndesired
<1>a. control' = [k \in Keys |->
                    IF turned(k) THEN [control[k] EXCEPT !.role = "retiring", !.max = 0]
                    ELSE control[k]]
  BY DEF RetireUndesired
<1> HIDE DEF turned
<1>1. /\ TypeOK /\ mem \in Memories /\ pc \in Positions /\ control \in [Keys -> Controllers]
      /\ pc.at = "targets" /\ Up /\ ~Ending
      /\ mem.current = disk.lastValid /\ mem.retire = disk.retire
  BY <1>0 DEF Inv, TypeOK, Mirrored, Past, Up, Ending
<1>2. mem.pending \cap mem.current.keys \in SUBSET Keys  BY <1>1 DEF Memories
<1>3. mem' \in Memories  BY <1>0, <1>1, <1>2 DEF Memories
<1>4. \A k \in Keys : /\ control'[k].closed = control[k].closed
                      /\ control'[k].adopted = control[k].adopted
                      /\ control'[k].role = IF turned(k)
                                            THEN "retiring" ELSE control[k].role
  <2> SUFFICES ASSUME NEW k \in Keys
               PROVE  /\ control'[k].closed = control[k].closed
                      /\ control'[k].adopted = control[k].adopted
                      /\ control'[k].role = IF turned(k)
                                            THEN "retiring" ELSE control[k].role
    OBVIOUS
  <2>1. control[k] \in Controllers  BY <1>1
  <2>2. control'[k] = IF turned(k)
                      THEN [control[k] EXCEPT !.role = "retiring", !.max = 0]
                      ELSE control[k]
    BY <1>a
  <2> QED BY <2>1, <2>2 DEF Controllers
<1>5. control' \in [Keys -> Controllers]  BY <1>1, <1>a DEF Controllers
<1>6. pc' \in Positions /\ pc'.at = "retire"
  BY <1>0, <1>1 DEF Cursor, Positions, Locations
<1>7. TypeOK'  BY <1>0, <1>3, <1>5, <1>6 DEF Inv, TypeOK, bounds
<1>8. /\ mem'.current = mem.current /\ mem'.retire = mem.retire
      /\ mem'.recovered = mem.recovered /\ mem'.adopting = mem.adopting
  BY <1>0, <1>1 DEF Memories
<1>9. Mirrored'  BY <1>0, <1>1, <1>6, <1>8 DEF Mirrored, Up
<1>10. RetirementNeverForgotten'  BY <1>0 DEF Inv, RetirementNeverForgotten
<1>11. Accepting'  BY <1>0, <1>6 DEF Inv, Accepting
<1>12. Placed'  BY <1>6 DEF Placed, Halfway
<1>13. Active' = {k \in Active : k \in mem.current.keys \/ ~Recorded(k)}
  BY <1>4 DEF Active, turned
<1>14. Turned'
  <2>1. mem.current.gen \in 0..MaxGeneration  BY <1>1, AcceptedTyped DEF Memories
  <2>2. \A k \in ToRetire : Recorded(k) /\ k \notin mem.current.keys
    BY <2>1, LimitsAssumption DEF ToRetire, Recorded
  <2>3. ToRetire' = ToRetire  BY <1>8 DEF ToRetire
  <2> QED BY <1>13, <2>2, <2>3 DEF Turned
<1>15. Controlled' = Controlled  BY <1>4 DEF Controlled, Active, Retiring, turned
<1>16. Sessions'
  BY <1>0, <1>1, <1>4, <1>6 DEF Inv, Sessions, Active, Retiring, Ending, turned
<1>17. Covered'
  BY <1>0, <1>1, <1>4, <1>8, <1>15 DEF Inv, Covered, Controlled, Active, Retiring
<1> QED BY <1>7, <1>9, <1>10, <1>11, <1>12, <1>14, <1>16, <1>17 DEF Inv

-----------------------------------------------------------------------------
(* reconcileRetirements.                                                   *)

(* Saving a new deadline changes no record. *)
LEMMA PersistDeadline ==
  ASSUME "sync" \notin FaultKinds, Inv, Up, NEW o \in Saves,
         Persist([mem.retire EXCEPT !.gen = mem.current.gen], o, mem)
  PROVE  /\ disk' \in Stored /\ mem' \in Memories /\ faults' \in 0..MaxFaults
         /\ disk'.lastValid = disk.lastValid /\ disk'.ack = disk.ack
         /\ mem'.current = disk'.lastValid /\ mem'.retire = disk'.retire
         /\ disk'.retire.at = disk.retire.at
         /\ mem'.recovered = mem.recovered /\ mem'.adopting = mem.adopting
         /\ ToRetire' = ToRetire
<1> DEFINE next == [mem.retire EXCEPT !.gen = mem.current.gen]
<1>1. /\ TypeOK /\ mem \in Memories
      /\ mem.current = disk.lastValid /\ mem.retire = disk.retire
  BY DEF Inv, TypeOK, Mirrored
<1>2. mem.current.gen \in 0..MaxGeneration /\ mem.retire \in Retirements
  BY <1>1, AcceptedTyped DEF Memories
<1>3. next \in Retirements /\ next.at = mem.retire.at  BY <1>2 DEF Retirements
<1> HIDE DEF next
<1>4. /\ disk' \in Stored /\ mem' \in Memories /\ faults' \in 0..MaxFaults
      /\ disk'.lastValid = disk.lastValid /\ disk'.ack = disk.ack
      /\ mem'.retire = disk'.retire
      /\ disk'.retire = IF o = "ok" THEN next ELSE disk.retire
      /\ mem' = IF o = "ok" THEN [mem EXCEPT !.retire = next] ELSE mem
  BY <1>1, <1>3, PersistTogether DEF next
<1>5. /\ mem'.current = mem.current
      /\ mem'.recovered = mem.recovered /\ mem'.adopting = mem.adopting
  BY <1>1, <1>4 DEF Memories
<1>6. disk'.retire.at = disk.retire.at  BY <1>1, <1>3, <1>4
<1>7. ToRetire' = ToRetire  BY <1>1, <1>4, <1>5, <1>6 DEF ToRetire
<1> QED BY <1>1, <1>4, <1>5, <1>6, <1>7

(* Waiting for a deadline only moves the cursor. *)
LEMMA WaitToRetireSafe ==
  ASSUME Inv, NEW k \in Keys, WaitToRetire(k)
  PROVE  Inv'
<1>1. pc \in Positions /\ pc.at = "retire"  BY DEF Inv, TypeOK, WaitToRetire, Turn
<1>2. pc' \in Positions /\ pc'.at = "retire"
  BY <1>1 DEF WaitToRetire, Skip, Cursor, Positions, Locations
<1>3. TypeOK'  BY <1>2 DEF Inv, TypeOK, WaitToRetire, bounds
<1> QED BY <1>1, <1>2, <1>3, Quiet DEF WaitToRetire, Up, Ending, Halfway

(* The deadline of a retirement is saved; its record stays. *)
LEMMA PrepareRetirementSafe ==
  ASSUME "sync" \notin FaultKinds, Inv, NEW k \in Keys, PrepareRetirement(k)
  PROVE  Inv'
<1>1. pc \in Positions /\ pc.at = "retire" /\ k \in ToRetire /\ Up
  BY DEF Inv, TypeOK, PrepareRetirement, Turn, Rest, Up
<1>2. PICK o \in Saves :
        /\ Persist([mem.retire EXCEPT !.gen = mem.current.gen], o, mem)
        /\ pc' = Cursor("find", k) \/ pc' = Cursor("retire", k)
  BY DEF PrepareRetirement, Skip
<1>3. /\ disk' \in Stored /\ mem' \in Memories /\ faults' \in 0..MaxFaults
      /\ disk'.lastValid = disk.lastValid /\ disk'.ack = disk.ack
      /\ mem'.current = disk'.lastValid /\ mem'.retire = disk'.retire
      /\ disk'.retire.at = disk.retire.at
      /\ mem'.recovered = mem.recovered /\ mem'.adopting = mem.adopting
      /\ ToRetire' = ToRetire
  BY <1>1, <1>2, PersistDeadline
<1>4. pc' \in Positions /\ pc'.at \in {"find", "retire"} /\ pc'.k = k
  BY <1>1, <1>2 DEF Cursor, Positions, Locations
<1>5. UNCHANGED <<desired, scaleset, workers, control, bounds>>  BY DEF PrepareRetirement
<1>6. TypeOK'  BY <1>3, <1>4, <1>5 DEF Inv, TypeOK, bounds
<1>7. Mirrored'  BY <1>3, <1>4 DEF Mirrored, Up
<1>8. RetirementNeverForgotten'  BY <1>3, <1>5 DEF Inv, RetirementNeverForgotten
<1>9. Accepting'  BY <1>3, <1>4 DEF Inv, Accepting
<1>10. Placed'  BY <1>1, <1>3, <1>4 DEF Placed
<1>11. Active' = Active  BY <1>5 DEF Active
<1>12. Turned'  BY <1>1, <1>3, <1>11 DEF Inv, Turned
<1>13. Sessions' /\ Covered'  BY <1>1, <1>3, <1>4, <1>5, SameControl DEF Up, Ending
<1> QED BY <1>6, <1>7, <1>8, <1>9, <1>10, <1>12, <1>13 DEF Inv

(* A target without a scale set is done only if no worker waits for it. *)
LEMMA FindRetiringSafe ==
  ASSUME Inv, FindRetiring
  PROVE  Inv'
<1> DEFINE k == pc.k
           missing == k \notin scaleset
<1>1. mem \in Memories /\ pc \in Positions /\ pc.at = "find" /\ k \in ToRetire /\ k \in Keys /\ Up
  BY DEF Inv, TypeOK, FindRetiring, Placed, Halfway, Up, ToRetire
<1>2. PICK o \in Calls :
        /\ Spend(Cost(o))
        /\ mem' = [mem EXCEPT !.orphan =
                     IF o = "ok" /\ missing /\ k \notin mem.recovered
                     THEN @ \cup {k} ELSE @ \ {k}]
        /\ IF o = "failed" \/ (missing /\ k \in mem.recovered) THEN Skip(k)
           ELSE pc' = Goto(IF missing THEN "started" ELSE "admit")
  BY DEF FindRetiring
<1>3. UNCHANGED <<desired, disk, scaleset, workers, control, bounds>>  BY DEF FindRetiring
<1>4. faults' \in 0..MaxFaults  BY <1>2, SpendTyped, CostTyped DEF Inv, TypeOK
<1>5. mem.orphan \cup {k} \in SUBSET Keys /\ mem.orphan \ {k} \in SUBSET Keys
  BY <1>1 DEF Memories
<1>6. mem' \in Memories  BY <1>1, <1>2, <1>5 DEF Memories
<1>7. /\ pc' \in Positions /\ pc'.at \in {"retire", "started", "admit"} /\ pc'.k = k
      /\ pc'.at = "started" => k \notin scaleset /\ k \notin mem.recovered
  BY <1>1, <1>2 DEF Skip, Cursor, Goto, Positions, Locations
<1>8. TypeOK'  BY <1>3, <1>4, <1>6, <1>7 DEF Inv, TypeOK, bounds
<1>9. /\ mem'.current = mem.current /\ mem'.retire = mem.retire
      /\ mem'.recovered = mem.recovered /\ mem'.adopting = mem.adopting
  BY <1>1, <1>2 DEF Memories
<1>10. UNCHANGED <<Active, Retiring, ToRetire>>  BY <1>3, <1>9 DEF Active, Retiring, ToRetire
<1>11. Mirrored'  BY <1>1, <1>3, <1>7, <1>9 DEF Inv, Mirrored, Up
<1>12. RetirementNeverForgotten'  BY <1>3 DEF Inv, RetirementNeverForgotten
<1>13. Accepting'  BY <1>3, <1>7 DEF Inv, Accepting
<1>14. Placed'  BY <1>1, <1>3, <1>7, <1>9, <1>10 DEF Placed
<1>15. Turned'  BY <1>1, <1>10 DEF Inv, Turned, Halfway
<1>16. Sessions' /\ Covered'  BY <1>1, <1>3, <1>7, <1>9, SameControl DEF Up, Ending
<1> QED BY <1>8, <1>11, <1>12, <1>13, <1>14, <1>15, <1>16 DEF Inv

(* The recovered workers pass to the controller that retires their target. *)
LEMMA AdmitRetiringSafe ==
  ASSUME Inv, AdmitRetiring
  PROVE  Inv'
<1> DEFINE k == pc.k
<1>1. /\ TypeOK /\ mem \in Memories /\ pc \in Positions /\ control \in [Keys -> Controllers]
      /\ pc.at = "admit" /\ k \in ToRetire /\ k \in Keys /\ Up /\ ~Ending
  BY DEF Inv, TypeOK, AdmitRetiring, Placed, Halfway, Up, Ending, ToRetire
<1>2. PICK o \in Calls, adopted \in Adoptions(k) :
        /\ Spend(Cost(o))
        /\ IF o = "ok"
           THEN /\ control' = [control EXCEPT ![k] = NewController("retiring", 0, adopted)]
                /\ mem' = [mem EXCEPT !.recovered = @ \ {k}]
                /\ workers' = workers \cup ({k} \cap mem.recovered)
                /\ pc' = Goto("started")
           ELSE UNCHANGED <<control, mem, workers>> /\ Skip(k)
  BY DEF AdmitRetiring
<1>3. UNCHANGED <<desired, disk, scaleset, bounds>>  BY DEF AdmitRetiring
<1>4. faults' \in 0..MaxFaults  BY <1>1, <1>2, SpendTyped, CostTyped DEF TypeOK
<1>5. mem.recovered \ {k} \in SUBSET Keys /\ adopted \in BOOLEAN
  BY <1>1 DEF Memories, Adoptions
<1>6. mem' \in Memories  BY <1>1, <1>2, <1>5 DEF Memories
<1>7. control' \in [Keys -> Controllers]
  <2>1. NewController("retiring", 0, adopted) \in Controllers
    BY <1>5 DEF Controllers, NewController
  <2> QED BY <1>1, <1>2, <2>1
<1>8. /\ pc' \in Positions /\ pc'.k = k
      /\ pc'.at = IF o = "ok" THEN "started" ELSE "retire"
  BY <1>1, <1>2 DEF Skip, Cursor, Goto, Positions, Locations
<1>9. workers' \subseteq Keys  BY <1>1, <1>2 DEF TypeOK
<1>10. TypeOK'  BY <1>3, <1>4, <1>6, <1>7, <1>8, <1>9 DEF Inv, TypeOK, bounds
<1>11. mem'.current = mem.current /\ mem'.retire = mem.retire /\ mem'.adopting = mem.adopting
  BY <1>1, <1>2 DEF Memories
<1>12. ToRetire' = ToRetire  BY <1>11 DEF ToRetire
<1>13. Mirrored'  BY <1>1, <1>3, <1>8, <1>11 DEF Inv, Mirrored, Up
<1>14. RetirementNeverForgotten'  BY <1>3 DEF Inv, RetirementNeverForgotten
<1>15. Accepting'  BY <1>3, <1>8 DEF Inv, Accepting
<1>16. /\ Active' \subseteq Active
       /\ o = "ok" => k \in Retiring'
  BY <1>1, <1>2 DEF Active, Retiring, NewController
<1>17. Placed'  BY <1>1, <1>8, <1>12, <1>16 DEF Placed
<1>18. Turned'  BY <1>1, <1>12, <1>16 DEF Inv, Turned, Halfway
<1>19. Up' /\ ~Ending' /\ Ending' = Ending  BY <1>1, <1>8 DEF Up, Ending
<1>20. CASE o = "ok"
  <2>1. mem'.recovered = mem.recovered \ {k}  BY <1>1, <1>2, <1>20 DEF Memories
  <2>2. Sessions' /\ Covered'
    BY <1>1, <1>2, <1>3, <1>11, <1>19, <1>20, <2>1, Started
  <2> QED BY <1>10, <1>13, <1>14, <1>15, <1>17, <1>18, <2>2 DEF Inv
<1>21. CASE o # "ok"
  <2>1. UNCHANGED <<scaleset, workers, control, mem>>  BY <1>2, <1>3, <1>21
  <2>2. Sessions' /\ Covered'  BY <1>1, <1>19, <2>1, SameControl
  <2> QED BY <1>10, <1>13, <1>14, <1>15, <1>17, <1>18, <2>2 DEF Inv
<1> QED BY <1>20, <1>21

(* A retirement without a scale set ends only after adoption. *)
LEMMA RetirementStartedSafe ==
  ASSUME "sync" \notin FaultKinds, Inv, RetirementStarted
  PROVE  Inv'
<1> DEFINE k == pc.k
<1>1. /\ pc \in Positions /\ pc.at = "started" /\ k \in ToRetire /\ Up
      /\ k \in Retiring \/ k \notin scaleset \cup mem.recovered
  BY DEF Inv, TypeOK, RetirementStarted, Placed, Halfway, Up
<1>2. PICK o \in Saves :
        /\ Persist([mem.retire EXCEPT !.gen = mem.current.gen], o, mem)
        /\ IF o # "ok" THEN Skip(k)
           ELSE IF k \in Retiring THEN pc' = Goto("drain")
           ELSE IF mem.adopting THEN Skip(k)
           ELSE pc' = Goto("forget")
  BY DEF RetirementStarted
<1>3. /\ disk' \in Stored /\ mem' \in Memories /\ faults' \in 0..MaxFaults
      /\ disk'.lastValid = disk.lastValid /\ disk'.ack = disk.ack
      /\ mem'.current = disk'.lastValid /\ mem'.retire = disk'.retire
      /\ disk'.retire.at = disk.retire.at
      /\ mem'.recovered = mem.recovered /\ mem'.adopting = mem.adopting
      /\ ToRetire' = ToRetire
  BY <1>1, <1>2, PersistDeadline
<1>4. /\ pc' \in Positions /\ pc'.at \in {"retire", "drain", "forget"} /\ pc'.k = k
      /\ pc'.at = "drain" => k \in Retiring
      /\ pc'.at = "forget" => k \notin Retiring
  <2>1. \/ pc' = [pc EXCEPT !.at = "retire", !.k = k]
        \/ pc' = [pc EXCEPT !.at = "drain"] /\ k \in Retiring
        \/ pc' = [pc EXCEPT !.at = "forget"] /\ k \notin Retiring
    BY <1>2 DEF Skip, Cursor, Goto
  <2>2. CASE pc' = [pc EXCEPT !.at = "retire", !.k = k]
    BY <1>1, <2>2 DEF Positions, Locations
  <2>3. CASE pc' = [pc EXCEPT !.at = "drain"] /\ k \in Retiring
    BY <1>1, <2>3 DEF Positions, Locations
  <2>4. CASE pc' = [pc EXCEPT !.at = "forget"] /\ k \notin Retiring
    BY <1>1, <2>4 DEF Positions, Locations
  <2> QED BY <2>1, <2>2, <2>3, <2>4
<1>5. UNCHANGED <<desired, scaleset, workers, control, bounds>>  BY DEF RetirementStarted
<1>6. TypeOK'  BY <1>3, <1>4, <1>5 DEF Inv, TypeOK, bounds
<1>7. Mirrored'  BY <1>3, <1>4 DEF Mirrored, Up
<1>8. RetirementNeverForgotten'  BY <1>3, <1>5 DEF Inv, RetirementNeverForgotten
<1>9. Accepting'  BY <1>3, <1>4 DEF Inv, Accepting
<1>10. UNCHANGED <<Active, Retiring>>  BY <1>5 DEF Active, Retiring
<1>11. k \notin Retiring => k \notin scaleset \cup workers
  BY <1>1 DEF Inv, Turned, Halfway, Covered, Controlled
<1>12. Placed'  BY <1>1, <1>3, <1>4, <1>5, <1>10, <1>11 DEF Placed
<1>13. Turned'  BY <1>1, <1>3, <1>10 DEF Inv, Turned, Halfway
<1>14. Sessions' /\ Covered'  BY <1>1, <1>3, <1>4, <1>5, SameControl DEF Up, Ending
<1> QED BY <1>6, <1>7, <1>8, <1>9, <1>12, <1>13, <1>14 DEF Inv

(* A session is closed only over a target without workers. *)
LEMMA DrainRetiringSafe ==
  ASSUME Inv, NEW k \in Keys, DrainRetiring(k)
  PROVE  Inv'
<1>1. /\ TypeOK /\ pc \in Positions /\ control \in [Keys -> Controllers]
      /\ pc.at \in {"retire", "drain"} /\ k \in ToRetire /\ k \in Retiring /\ Up
  BY DEF Inv, TypeOK, DrainRetiring, Placed, Halfway, Up, Turn, Rest
<1>2. UNCHANGED <<desired, disk, scaleset, workers, mem, bounds>>  BY DEF DrainRetiring
<1>3. \/ /\ pc' = Cursor("retire", k) /\ UNCHANGED control
         /\ faults' \in 0..MaxFaults
      \/ /\ pc' = Cursor("delete", k) /\ UNCHANGED faults
         /\ k \notin workers
         /\ control' = [control EXCEPT ![k].closed = TRUE, ![k].listening = FALSE]
  BY <1>1, SpendTyped DEF DrainRetiring, Skip, TypeOK
<1>4. /\ pc' \in Positions /\ pc'.at \in {"retire", "delete"} /\ pc'.k = k
      /\ pc'.at = "delete" => k \notin workers
  BY <1>1, <1>3 DEF Cursor, Positions, Locations
<1>5. control' \in [Keys -> Controllers] /\ faults' \in 0..MaxFaults
  <2>1. faults' \in 0..MaxFaults  BY <1>1, <1>3 DEF TypeOK
  <2>2. [control[k] EXCEPT !.closed = TRUE, !.listening = FALSE] \in Controllers
    BY <1>1 DEF Controllers
  <2> QED BY <1>1, <1>3, <2>1, <2>2
<1>6. \A j \in Keys : /\ control'[j].role = control[j].role
                      /\ control'[j].adopted = control[j].adopted
                      /\ control'[j].closed = control[j].closed \/ j = k
                      /\ control'[k].closed = control[k].closed \/ k \notin workers
  <2>1. CASE UNCHANGED control  BY <2>1
  <2>2. CASE /\ k \notin workers
             /\ control' = [control EXCEPT ![k].closed = TRUE, ![k].listening = FALSE]
    <3>1. \A j \in Keys : j # k => control'[j] = control[j]  BY <1>1, <2>2
    <3>2. control'[k] = [control[k] EXCEPT !.closed = TRUE, !.listening = FALSE]
      BY <1>1, <2>2
    <3>3. control'[k].role = control[k].role /\ control'[k].adopted = control[k].adopted
      BY <1>1, <3>2 DEF Controllers
    <3> QED BY <2>2, <3>1, <3>3
  <2> QED BY <1>3, <2>1, <2>2
<1>7. TypeOK'  BY <1>2, <1>4, <1>5 DEF Inv, TypeOK, bounds
<1>8. UNCHANGED <<Active, Retiring, Controlled, ToRetire>>
  BY <1>2, <1>6 DEF Active, Retiring, Controlled, ToRetire
<1>9. Mirrored'  BY <1>1, <1>2, <1>4 DEF Inv, Mirrored, Up
<1>10. RetirementNeverForgotten'  BY <1>2 DEF Inv, RetirementNeverForgotten
<1>11. Accepting'  BY <1>2, <1>4 DEF Inv, Accepting
<1>12. Placed'  BY <1>1, <1>2, <1>4, <1>8 DEF Placed
<1>13. Turned'  BY <1>1, <1>8 DEF Inv, Turned, Halfway
<1>14. k \notin Active  BY <1>1 DEF Active, Retiring
<1>15. Sessions'  BY <1>1, <1>2, <1>6, <1>8, <1>14 DEF Inv, Sessions, Ending
<1>16. Controlled \subseteq Keys  BY DEF Controlled, Active, Retiring
<1>17. Covered'  BY <1>1, <1>2, <1>6, <1>8, <1>16 DEF Inv, Covered
<1> QED BY <1>7, <1>9, <1>10, <1>11, <1>12, <1>13, <1>15, <1>17 DEF Inv

(* The scale set that is deleted has its record. *)
LEMMA DeleteScaleSetSafe ==
  ASSUME Inv, DeleteScaleSet
  PROVE  Inv'
<1> DEFINE k == pc.k
<1>1. /\ TypeOK /\ pc \in Positions /\ pc.at = "delete" /\ Up
      /\ k \in ToRetire /\ k \in Retiring /\ k \notin workers
  BY DEF Inv, TypeOK, DeleteScaleSet, Placed, Halfway, Up
<1>2. UNCHANGED <<desired, disk, workers, mem, control, bounds>>  BY DEF DeleteScaleSet
<1>3. PICK o \in Calls, gone \in BOOLEAN :
        /\ o = "ok" => gone
        /\ Spend(Cost(o))
        /\ scaleset' = IF gone THEN scaleset \ {k} ELSE scaleset
        /\ IF o = "ok" THEN pc' = Goto("forget") ELSE Skip(k)
  BY DEF DeleteScaleSet
<1>4. faults' \in 0..MaxFaults  BY <1>1, <1>3, SpendTyped, CostTyped DEF TypeOK
<1>5. /\ pc' \in Positions /\ pc'.at \in {"retire", "forget"} /\ pc'.k = k
      /\ pc'.at = "forget" => k \notin scaleset'
  BY <1>1, <1>3 DEF Skip, Cursor, Goto, Positions, Locations
<1>6. scaleset' \subseteq scaleset /\ \A j \in scaleset : j # k => j \in scaleset'
  BY <1>3
<1>7. TypeOK'  BY <1>2, <1>4, <1>5, <1>6 DEF Inv, TypeOK, bounds
<1>8. UNCHANGED <<Active, Retiring, Controlled, ToRetire>>
  BY <1>2 DEF Active, Retiring, Controlled, ToRetire
<1>9. Mirrored'  BY <1>1, <1>2, <1>5 DEF Inv, Mirrored, Up
<1>10. RetirementNeverForgotten'  BY <1>2, <1>6 DEF Inv, RetirementNeverForgotten
<1>11. Accepting'  BY <1>2, <1>5 DEF Inv, Accepting
<1>12. Placed'  BY <1>1, <1>2, <1>5, <1>8 DEF Placed
<1>13. Turned'  BY <1>1, <1>8 DEF Inv, Turned, Halfway
<1>14. k \notin Active  BY <1>1 DEF Active, Retiring
<1>15. Sessions'  BY <1>1, <1>2, <1>6, <1>8, <1>14 DEF Inv, Sessions, Ending
<1>16. Covered'  BY <1>1, <1>2, <1>8 DEF Inv, Covered
<1> QED BY <1>7, <1>9, <1>10, <1>11, <1>12, <1>13, <1>15, <1>16 DEF Inv

(* The record that is removed has no scale set any more. *)
LEMMA ForgetRetirementSafe ==
  ASSUME "sync" \notin FaultKinds, Inv, ForgetRetirement
  PROVE  Inv'
<1> DEFINE k == pc.k
           next == [gen |-> mem.current.gen, at |-> [mem.retire.at EXCEPT ![k] = 0]]
           rest == [mem EXCEPT !.restarts = @ \ {k}, !.orphan = @ \ {k}]
<1>1. /\ TypeOK /\ mem \in Memories /\ pc \in Positions /\ control \in [Keys -> Controllers]
      /\ pc.at = "forget" /\ Up /\ ~Ending
      /\ k \in ToRetire /\ k \in Keys /\ k \notin scaleset /\ k \notin workers
      /\ mem.current = disk.lastValid /\ mem.retire = disk.retire
  BY DEF Inv, TypeOK, Mirrored, ForgetRetirement, Placed, Halfway, Up, Ending, ToRetire
<1>2. PICK o \in Saves :
        /\ Persist(next, o, IF o = "ok" THEN rest ELSE mem)
        /\ control' = IF o = "ok" THEN [control EXCEPT ![k] = NoController] ELSE control
        /\ Skip(k)
  BY DEF ForgetRetirement
<1>3. UNCHANGED <<desired, scaleset, workers, bounds>>  BY DEF ForgetRetirement
<1>4. mem.current.gen \in 0..MaxGeneration /\ mem.retire \in Retirements
  BY <1>1, AcceptedTyped DEF Memories
<1>5. /\ next \in Retirements /\ next.at[k] = 0
      /\ \A j \in Keys : j # k => next.at[j] = mem.retire.at[j]
  BY <1>1, <1>4, LimitsAssumption DEF Retirements
<1>6. mem.restarts \ {k} \in SUBSET Keys /\ mem.orphan \ {k} \in SUBSET Keys
  BY <1>1 DEF Memories
<1>7. /\ rest \in Memories /\ rest.current = mem.current /\ rest.retire = mem.retire
      /\ rest.recovered = mem.recovered /\ rest.adopting = mem.adopting
  BY <1>1, <1>6 DEF Memories
<1> HIDE DEF next, rest
<1> DEFINE m == IF o = "ok" THEN rest ELSE mem
<1>8. /\ m \in Memories /\ m.current = mem.current /\ m.retire = mem.retire
      /\ m.recovered = mem.recovered /\ m.adopting = mem.adopting /\ Persist(next, o, m)
  BY <1>1, <1>2, <1>7
<1> HIDE DEF m
<1>9. /\ disk' \in Stored /\ mem' \in Memories /\ faults' \in 0..MaxFaults
      /\ disk'.lastValid = disk.lastValid /\ disk'.ack = disk.ack
      /\ mem'.retire = disk'.retire
      /\ disk'.retire = IF o = "ok" THEN next ELSE disk.retire
      /\ mem' = IF o = "ok" THEN [m EXCEPT !.retire = next] ELSE m
  BY <1>1, <1>5, <1>8, PersistTogether
<1>10. /\ mem'.current = mem.current
       /\ mem'.recovered = mem.recovered /\ mem'.adopting = mem.adopting
  BY <1>8, <1>9 DEF Memories
<1>11. \A j \in Keys : /\ j # k => disk'.retire.at[j] = disk.retire.at[j]
                       /\ disk'.retire.at[j] \in {0, disk.retire.at[j]}
  BY <1>1, <1>5, <1>9
<1>12. pc' \in Positions /\ pc'.at = "retire"
  BY <1>1, <1>2 DEF Skip, Cursor, Positions, Locations
<1>13. NoController \in Controllers /\ NoController.role = "none"
  BY DEF Controllers, NoController
<1>14. /\ control' \in [Keys -> Controllers]
       /\ \A j \in Keys : j # k => control'[j] = control[j]
       /\ control'[k] \in {control[k], NoController}
  BY <1>1, <1>2, <1>13
<1>15. TypeOK'  BY <1>3, <1>9, <1>12, <1>14 DEF Inv, TypeOK, bounds
<1>16. Mirrored'  BY <1>1, <1>9, <1>10, <1>12 DEF Mirrored, Up
<1>17. RetirementNeverForgotten'
  BY <1>1, <1>3, <1>9, <1>11 DEF Inv, RetirementNeverForgotten, TypeOK
<1>18. Accepting'  BY <1>9, <1>12 DEF Inv, Accepting
<1>19. Placed'  BY <1>12 DEF Placed, Halfway
<1>20. Active' \subseteq Active /\ Retiring' \subseteq Retiring
       /\ \A j \in Controlled : j # k => j \in Controlled'
  BY <1>13, <1>14 DEF Active, Retiring, Controlled
<1>21. ToRetire' \subseteq ToRetire
  <2>1. mem'.current = mem.current /\ \A j \in Keys : mem'.retire.at[j] \in {0, mem.retire.at[j]}
    BY <1>1, <1>9, <1>10, <1>11
  <2>2. mem.current.gen \in Nat  BY <1>4, LimitsAssumption
  <2> QED BY <2>1, <2>2 DEF ToRetire
<1>22. Turned'  BY <1>1, <1>20, <1>21 DEF Inv, Turned, Halfway
<1>23. Sessions'
  BY <1>1, <1>3, <1>13, <1>14, <1>20 DEF Inv, Sessions, Active, Retiring
<1>24. Covered'
  BY <1>1, <1>3, <1>10, <1>13, <1>14, <1>20 DEF Inv, Covered, Controlled, Active, Retiring
<1> QED BY <1>15, <1>16, <1>17, <1>18, <1>19, <1>22, <1>23, <1>24 DEF Inv

(* The end of the retirement pass only moves the cycle on. *)
LEMMA EndRetireSafe ==
  ASSUME Inv, EndRetire
  PROVE  Inv'
<1>1. pc \in Positions /\ pc.at = "retire"  BY DEF Inv, TypeOK, EndRetire, Past
<1>2. pc' \in Positions /\ pc'.at \in {"listen", "adopt"}
  BY <1>1 DEF EndRetire, Positions, Locations
<1>3. TypeOK'  BY <1>2 DEF Inv, TypeOK, EndRetire, bounds
<1> QED BY <1>1, <1>2, <1>3, Quiet DEF EndRetire, Up, Ending, Halfway

-----------------------------------------------------------------------------
(* Adoption, listeners, acknowledgement.                                   *)

(* Adoption that is not ready leaves the fence up. *)
LEMMA WaitToCompleteSafe ==
  ASSUME Inv, WaitToComplete
  PROVE  Inv'
<1>1. pc \in Positions /\ pc.at = "adopt"  BY DEF Inv, TypeOK, WaitToComplete
<1>2. pc' \in Positions /\ pc'.at = "listen"
  BY <1>1 DEF WaitToComplete, Goto, Positions, Locations
<1>3. TypeOK'  BY <1>2 DEF Inv, TypeOK, WaitToComplete, bounds
<1> QED BY <1>1, <1>2, <1>3, Quiet DEF WaitToComplete, Up, Ending, Halfway

(* The fence is lifted when no worker waits for a controller. *)
LEMMA CompleteAdoptionSafe ==
  ASSUME Inv, CompleteAdoption
  PROVE  Inv'
<1>1. /\ TypeOK /\ mem \in Memories /\ pc \in Positions /\ pc.at = "adopt" /\ Up
      /\ mem.recovered = {} /\ \A k \in Controlled : control[k].adopted
  BY DEF Inv, TypeOK, CompleteAdoption, AdoptionReady, Up
<1>2. UNCHANGED <<desired, disk, scaleset, workers, control, bounds>>  BY DEF CompleteAdoption
<1>3. PICK o \in Calls :
        /\ Spend(Cost(o))
        /\ mem' = IF o = "ok" THEN [mem EXCEPT !.adopting = FALSE, !.unaccounted = FALSE]
                  ELSE mem
        /\ \/ pc' = [pc EXCEPT !.at = "retire", !.k = 0, !.again = TRUE]
           \/ pc' = Goto("listen")
  BY DEF CompleteAdoption
<1>4. faults' \in 0..MaxFaults  BY <1>1, <1>3, SpendTyped, CostTyped DEF TypeOK
<1>5. mem' \in Memories  BY <1>1, <1>3 DEF Memories
<1>6. /\ mem'.current = mem.current /\ mem'.retire = mem.retire
      /\ mem'.recovered = mem.recovered
  BY <1>1, <1>3 DEF Memories
<1>7. pc' \in Positions /\ pc'.at \in {"retire", "listen"}
  BY <1>1, <1>3 DEF Goto, Positions, Locations
<1>8. TypeOK'  BY <1>2, <1>4, <1>5, <1>7 DEF Inv, TypeOK, bounds
<1>9. UNCHANGED <<Active, Retiring, Controlled, ToRetire>>
  BY <1>2, <1>6 DEF Active, Retiring, Controlled, ToRetire
<1>10. Mirrored'  BY <1>1, <1>2, <1>6, <1>7 DEF Inv, Mirrored, Up
<1>11. RetirementNeverForgotten'  BY <1>2 DEF Inv, RetirementNeverForgotten
<1>12. Accepting'  BY <1>2, <1>7 DEF Inv, Accepting
<1>13. Placed'  BY <1>7 DEF Placed, Halfway
<1>14. Turned'  BY <1>1, <1>9 DEF Inv, Turned
<1>15. Sessions'  BY <1>1, <1>2, <1>9 DEF Inv, Sessions, Ending
<1>16. Covered'  BY <1>1, <1>2, <1>6, <1>9 DEF Inv, Covered
<1> QED BY <1>8, <1>10, <1>11, <1>12, <1>13, <1>14, <1>15, <1>16 DEF Inv

(* The failures found are targets; nothing else in memory changes. *)
LEMMA DetectedTyped ==
  ASSUME mem \in Memories
  PROVE  /\ Detected \in Memories
         /\ Detected.current = mem.current /\ Detected.retire = mem.retire
         /\ Detected.recovered = mem.recovered /\ Detected.adopting = mem.adopting
<1>1. Stopped \subseteq Keys  BY DEF Stopped, Controlled, Active, Retiring
<1>2. mem.restarts \cup mem.failed \cup Stopped \in SUBSET Keys /\ {} \in SUBSET Keys
  BY <1>1 DEF Memories
<1> QED BY <1>2 DEF Detected, Memories

(* Collecting the stopped listeners changes only what is to be restarted. *)
LEMMA DetectListenersSafe ==
  ASSUME Inv, DetectListeners
  PROVE  Inv'
<1>1. mem \in Memories /\ pc \in Positions /\ pc.at = "listen" /\ mem' = Detected
  BY DEF Inv, TypeOK, DetectListeners
<1>2. pc' \in Positions /\ pc'.at = "restart"
  BY <1>1 DEF DetectListeners, Cursor, Positions, Locations
<1>3. TypeOK'  BY <1>1, <1>2, DetectedTyped DEF Inv, TypeOK, DetectListeners, bounds
<1> QED BY <1>1, <1>2, <1>3, DetectedTyped, Quiet DEF DetectListeners, Up, Ending, Halfway

(* A restart that is not due only moves the cursor. *)
LEMMA WaitToRestartSafe ==
  ASSUME Inv, NEW k \in Keys, WaitToRestart(k)
  PROVE  Inv'
<1>1. pc \in Positions /\ pc.at = "restart"  BY DEF Inv, TypeOK, WaitToRestart, Turn
<1>2. pc' \in Positions /\ pc'.at = "restart"
  BY <1>1 DEF WaitToRestart, Cursor, Positions, Locations
<1>3. TypeOK'  BY <1>2 DEF Inv, TypeOK, WaitToRestart, bounds
<1> QED BY <1>1, <1>2, <1>3, Quiet DEF WaitToRestart, Up, Ending, Halfway

(* The end of the restarts collects the stopped listeners again. *)
LEMMA EndRestartSafe ==
  ASSUME Inv, EndRestart
  PROVE  Inv'
<1>1. mem \in Memories /\ pc \in Positions /\ pc.at = "restart" /\ mem' = Detected
  BY DEF Inv, TypeOK, EndRestart, Past
<1>2. pc' \in Positions /\ pc'.at = "ack"
  BY <1>1 DEF EndRestart, Cursor, Positions, Locations
<1>3. TypeOK'  BY <1>1, <1>2, DetectedTyped DEF Inv, TypeOK, EndRestart, bounds
<1> QED BY <1>1, <1>2, <1>3, DetectedTyped, Quiet DEF EndRestart, Up, Ending, Halfway

(* A step that changes controllers only in what they listen to, or in       *)
(* having adopted more, changes nothing the invariant is about.             *)
LEMMA SameRoles ==
  ASSUME Inv, TypeOK', Up, UNCHANGED <<disk, scaleset, workers>>,
         \A k \in Keys : /\ control'[k].role = control[k].role
                         /\ control'[k].closed = control[k].closed
                         /\ control[k].adopted => control'[k].adopted,
         mem'.current = mem.current, mem'.retire = mem.retire,
         mem'.recovered = mem.recovered, mem'.adopting = mem.adopting,
         pc' = pc \/ (pc.at = "restart" /\ pc'.at = "restart")
  PROVE  Inv'
<1>1. UNCHANGED <<Active, Retiring, Controlled, ToRetire>>
  BY DEF Active, Retiring, Controlled, ToRetire
<1>2. pc'.at = pc.at /\ Up' /\ Ending' = Ending  BY DEF Up, Ending
<1>3. Mirrored'  BY <1>2 DEF Inv, Mirrored
<1>4. RetirementNeverForgotten'  BY DEF Inv, RetirementNeverForgotten
<1>5. Accepting'  BY <1>2 DEF Inv, Accepting
<1>6. Placed'  BY <1>1 DEF Inv, Placed, Halfway
<1>7. Turned'  BY <1>1, <1>2 DEF Inv, Turned
<1>8. Sessions'  BY <1>1, <1>2 DEF Inv, Sessions
<1>9. Controlled \subseteq Keys  BY DEF Controlled, Active, Retiring
<1>10. Covered'  BY <1>1, <1>9 DEF Inv, Covered
<1> QED BY <1>3, <1>4, <1>5, <1>6, <1>7, <1>8, <1>10 DEF Inv

(* A restarted listener keeps the role and the session of its controller. *)
LEMMA RestartListenerSafe ==
  ASSUME Inv, NEW k \in Keys, RestartListener(k)
  PROVE  Inv'
<1>1. /\ TypeOK /\ mem \in Memories /\ pc \in Positions /\ pc.at = "restart" /\ Up
      /\ control \in [Keys -> Controllers] /\ control[k] \in Controllers
  BY DEF Inv, TypeOK, RestartListener, Turn, Up
<1>2. UNCHANGED <<desired, disk, scaleset, workers, bounds>>  BY DEF RestartListener
<1>3. PICK o \in Calls :
        /\ Spend(Cost(o))
        /\ mem' = IF o = "ok" THEN [mem EXCEPT !.restarts = @ \ {k}] ELSE mem
        /\ \/ control' = [control EXCEPT ![k].listening = TRUE]
           \/ control' = control
  BY DEF RestartListener
<1>4. faults' \in 0..MaxFaults  BY <1>1, <1>3, SpendTyped, CostTyped DEF TypeOK
<1>5. mem.restarts \ {k} \in SUBSET Keys  BY <1>1 DEF Memories
<1>6. /\ mem' \in Memories
      /\ mem'.current = mem.current /\ mem'.retire = mem.retire
      /\ mem'.recovered = mem.recovered /\ mem'.adopting = mem.adopting
  BY <1>1, <1>3, <1>5 DEF Memories
<1>7. /\ control' \in [Keys -> Controllers]
      /\ \A j \in Keys : /\ control'[j].role = control[j].role
                          /\ control'[j].closed = control[j].closed
                          /\ control'[j].adopted = control[j].adopted
  <2>1. CASE control' = control  BY <1>1, <2>1
  <2>2. CASE control' = [control EXCEPT ![k].listening = TRUE]
    <3>1. /\ [control[k] EXCEPT !.listening = TRUE] \in Controllers
          /\ [control[k] EXCEPT !.listening = TRUE].role = control[k].role
          /\ [control[k] EXCEPT !.listening = TRUE].closed = control[k].closed
          /\ [control[k] EXCEPT !.listening = TRUE].adopted = control[k].adopted
      BY <1>1 DEF Controllers
    <3> QED BY <1>1, <2>2, <3>1
  <2> QED BY <1>3, <2>1, <2>2
<1>8. pc' \in Positions /\ pc'.at = "restart"
  BY <1>1 DEF RestartListener, Cursor, Positions, Locations
<1>9. TypeOK'  BY <1>2, <1>4, <1>6, <1>7, <1>8 DEF Inv, TypeOK, bounds
<1> QED BY <1>1, <1>2, <1>6, <1>7, <1>8, <1>9, SameRoles

(* The acknowledged generation is the durable one. *)
LEMMA AcknowledgeSafe ==
  ASSUME "sync" \notin FaultKinds, Inv, Acknowledge
  PROVE  Inv'
<1>1. /\ TypeOK /\ mem \in Memories /\ disk \in Stored /\ pc.at = "ack" /\ Up
      /\ mem.current = disk.lastValid /\ mem.retire = disk.retire
  BY DEF Inv, TypeOK, Mirrored, Acknowledge, Up
<1>2. UNCHANGED <<desired, scaleset, workers, control, bounds>> /\ pc' = Idle
  BY DEF Acknowledge
<1>3. PICK o \in Saves :
        \/ UNCHANGED <<disk, mem, faults>>
        \/ /\ Spend(Cost(o))
           /\ disk' = IF o = "failed" THEN disk ELSE [disk EXCEPT !.ack = mem.current.gen]
           /\ mem' = IF o = "ok" THEN [mem EXCEPT !.ackPending = FALSE] ELSE mem
  BY DEF Acknowledge, Saves
<1>4. mem.current.gen \in 0..MaxGeneration  BY <1>1, AcceptedTyped DEF Memories
<1>5. faults' \in 0..MaxFaults  BY <1>1, <1>3, SpendTyped, CostTyped DEF TypeOK
<1>6. /\ mem' \in Memories
      /\ mem'.current = mem.current /\ mem'.retire = mem.retire
      /\ mem'.recovered = mem.recovered /\ mem'.adopting = mem.adopting
  BY <1>1, <1>3 DEF Memories
<1>7. /\ disk' \in Stored
      /\ disk'.lastValid = disk.lastValid /\ disk'.retire = disk.retire
      /\ disk'.ack \in {disk.ack, mem.current.gen}
  BY <1>1, <1>3, <1>4 DEF Stored
<1>8. pc' \in Positions /\ pc'.at = "idle"
  BY <1>2 DEF Idle, Positions, Locations, Accepted
<1>9. TypeOK'  BY <1>2, <1>5, <1>6, <1>7, <1>8 DEF Inv, TypeOK, bounds
<1>10. Mirrored'  BY <1>1, <1>6, <1>7, <1>8 DEF Mirrored, Up
<1>11. RetirementNeverForgotten'  BY <1>2, <1>7 DEF Inv, RetirementNeverForgotten
<1>12. Accepting'  BY <1>1, <1>4, <1>7, <1>8, LimitsAssumption DEF Inv, Accepting
<1>13. Placed' /\ Turned'  BY <1>8 DEF Placed, Turned, Halfway
<1>14. Sessions' /\ Covered'  BY <1>1, <1>2, <1>6, <1>8, SameControl DEF Up, Ending
<1> QED BY <1>9, <1>10, <1>11, <1>12, <1>13, <1>14 DEF Inv

-----------------------------------------------------------------------------
(* Shutdown, crash and restart.                                            *)

(* A process that ends leaves the disk, the scale sets and the workers. *)
LEMMA ExitSafe ==
  ASSUME Inv, Exit, UNCHANGED <<desired, disk, scaleset, workers, faults>>,
         writes' \in 0..MaxWrites, crashes' \in 0..MaxCrashes, stops' \in 0..MaxStops
  PROVE  Inv'
<1>1. NoDocument \in Accepted /\ NoRetirements \in Retirements
  BY LimitsAssumption DEF Accepted, NoRetirements, Retirements
<1>2. mem' \in Memories /\ mem' = NewMemory  BY <1>1 DEF Exit, NewMemory, Memories
<1>3. pc' \in Positions /\ pc'.at = "down"
  BY <1>1 DEF Exit, Down, Idle, Positions, Locations
<1>4. NoController \in Controllers /\ NoController.role = "none"
  BY DEF Controllers, NoController
<1>5. control' \in [Keys -> Controllers] /\ \A k \in Keys : control'[k] = NoController
  BY <1>4 DEF Exit
<1>6. TypeOK'  BY <1>2, <1>3, <1>5 DEF Inv, TypeOK
<1>7. Mirrored'  BY <1>2, <1>3, <1>5 DEF Mirrored, Up
<1>8. RetirementNeverForgotten'  BY DEF Inv, RetirementNeverForgotten
<1>9. Accepting'  BY <1>3 DEF Inv, Accepting
<1>10. Placed' /\ Turned'  BY <1>3 DEF Placed, Turned, Halfway
<1>11. Sessions'  BY <1>4, <1>5 DEF Sessions, Active, Retiring
<1>12. Covered'  BY <1>3 DEF Covered, Up
<1> QED BY <1>6, <1>7, <1>8, <1>9, <1>10, <1>11, <1>12 DEF Inv

(* A crash at any step is an exit. *)
LEMMA CrashSafe ==
  ASSUME Inv, Crash
  PROVE  Inv'
<1>1. crashes' \in 0..MaxCrashes /\ writes' \in 0..MaxWrites /\ stops' \in 0..MaxStops
  BY LimitsAssumption DEF Inv, TypeOK, Crash
<1> QED BY <1>1, ExitSafe DEF Crash

(* A full stop ends in an exit. *)
LEMMA EndShutdownSafe ==
  ASSUME Inv, EndShutdown
  PROVE  Inv'
<1>1. crashes' \in 0..MaxCrashes /\ writes' \in 0..MaxWrites /\ stops' \in 0..MaxStops
  BY DEF Inv, TypeOK, EndShutdown, bounds
<1> QED BY <1>1, ExitSafe DEF EndShutdown

(* A stop closes the sessions, or ends the process at once. *)
LEMMA BeginShutdownSafe ==
  ASSUME Inv, NEW full \in BOOLEAN, BeginShutdown(full)
  PROVE  Inv'
<1>1. /\ TypeOK /\ mem \in Memories /\ pc \in Positions /\ pc.at = "idle" /\ Up
      /\ control \in [Keys -> Controllers]
  BY DEF Inv, TypeOK, BeginShutdown, Up
<1>2. crashes' \in 0..MaxCrashes /\ writes' \in 0..MaxWrites /\ stops' \in 0..MaxStops
      /\ UNCHANGED <<desired, disk, scaleset, workers, faults>>
  <2>1. /\ stops < MaxStops /\ stops' = stops + 1
        /\ UNCHANGED <<desired, disk, scaleset, workers, writes, crashes, faults>>
    BY DEF BeginShutdown
  <2>2. stops' \in 0..MaxStops  BY <1>1, <2>1, LimitsAssumption DEF TypeOK
  <2> QED BY <1>1, <2>1, <2>2 DEF TypeOK
<1>3. CASE ~full  BY <1>2, <1>3, ExitSafe DEF BeginShutdown
<1>4. CASE full
  <2>1. pc' = Goto("stopping") /\ UNCHANGED mem  BY <1>4 DEF BeginShutdown
  <2>2. \A k \in Keys : control'[k] = IF k \in Controlled
                                      THEN [control[k] EXCEPT !.closed = TRUE, !.listening = FALSE]
                                      ELSE control[k]
    BY <1>4 DEF BeginShutdown
  <2>3. \A k \in Keys : /\ control'[k] \in Controllers
                        /\ control'[k].role = control[k].role
                        /\ control'[k].adopted = control[k].adopted
    <3> SUFFICES ASSUME NEW k \in Keys
                 PROVE  /\ control'[k] \in Controllers
                        /\ control'[k].role = control[k].role
                        /\ control'[k].adopted = control[k].adopted
      OBVIOUS
    <3>1. control[k] \in Controllers  BY <1>1
    <3>2. CASE k \in Controlled
      <4>1. control'[k] = [control[k] EXCEPT !.closed = TRUE, !.listening = FALSE]
        BY <2>2, <3>2
      <4> QED BY <3>1, <4>1 DEF Controllers
    <3>3. CASE k \notin Controlled  BY <2>2, <3>1, <3>3
    <3> QED BY <3>2, <3>3
  <2>4. control' \in [Keys -> Controllers]
    <3>1. DOMAIN control' = Keys /\ control' = [k \in Keys |-> control'[k]]
      BY <1>4 DEF BeginShutdown
    <3> QED BY <2>3, <3>1
  <2>5. pc' \in Positions /\ pc'.at = "stopping"
    BY <1>1, <2>1 DEF Goto, Positions, Locations
  <2>6. TypeOK'  BY <1>1, <1>2, <2>1, <2>4, <2>5 DEF TypeOK
  <2>7. Controlled' = Controlled /\ Controlled \subseteq Keys
    BY <2>3 DEF Controlled, Active, Retiring
  <2>8. Mirrored'  BY <1>1, <1>2, <2>1, <2>5 DEF Inv, Mirrored, Up
  <2>9. RetirementNeverForgotten'  BY <1>2 DEF Inv, RetirementNeverForgotten
  <2>10. Accepting'  BY <1>2, <2>5 DEF Inv, Accepting
  <2>11. Placed' /\ Turned'  BY <2>5 DEF Placed, Turned, Halfway
  <2>12. Sessions'  BY <2>5 DEF Sessions, Ending
  <2>13. Covered'  BY <1>1, <1>2, <2>1, <2>3, <2>7 DEF Inv, Covered
  <2> QED BY <2>6, <2>8, <2>9, <2>10, <2>11, <2>12, <2>13 DEF Inv
<1> QED BY <1>3, <1>4

(* A full stop only takes workers away. *)
LEMMA StopWorkersSafe ==
  ASSUME Inv, StopWorkers
  PROVE  Inv'
<1>1. TypeOK /\ pc \in Positions /\ pc.at = "stopping" /\ Up /\ workers \subseteq Keys
  BY DEF Inv, TypeOK, StopWorkers, Up
<1>2. PICK left \in SUBSET workers : Spend(Cardinality(left)) /\ workers' = left
  BY DEF StopWorkers
<1>3. UNCHANGED <<desired, disk, scaleset, mem, control, bounds>> /\ pc' = Goto("deleting")
  BY DEF StopWorkers
<1>4. Cardinality(left) \in Nat
  <2>1. IsFiniteSet(left)  BY <1>1, <1>2, FS_Subset, KeysAssumption
  <2> QED BY <2>1, FS_CardinalityType
<1>5. faults' \in 0..MaxFaults  BY <1>1, <1>2, <1>4, SpendTyped DEF TypeOK
<1>6. pc' \in Positions /\ pc'.at = "deleting"
  BY <1>1, <1>3 DEF Goto, Positions, Locations
<1>7. TypeOK'  BY <1>1, <1>2, <1>3, <1>5, <1>6 DEF TypeOK, bounds
<1>8. Controlled' = Controlled  BY <1>3 DEF Controlled, Active, Retiring
<1>9. Mirrored'  BY <1>1, <1>3, <1>6 DEF Inv, Mirrored, Up
<1>10. RetirementNeverForgotten'  BY <1>3 DEF Inv, RetirementNeverForgotten
<1>11. Accepting'  BY <1>3, <1>6 DEF Inv, Accepting
<1>12. Placed' /\ Turned'  BY <1>6 DEF Placed, Turned, Halfway
<1>13. Sessions'  BY <1>6 DEF Sessions, Ending
<1>14. Covered'  BY <1>1, <1>2, <1>3, <1>8 DEF Inv, Covered
<1> QED BY <1>7, <1>9, <1>10, <1>11, <1>12, <1>13, <1>14 DEF Inv

(* A full stop only takes scale sets away. *)
LEMMA DeleteOnStopSafe ==
  ASSUME Inv, NEW k \in Keys, DeleteOnStop(k)
  PROVE  Inv'
<1>1. TypeOK /\ pc \in Positions /\ pc.at = "deleting" /\ Up
  BY DEF Inv, TypeOK, DeleteOnStop, Turn, Up
<1>2. UNCHANGED <<desired, disk, workers, mem, control, bounds>> /\ pc' = Cursor("deleting", k)
  BY DEF DeleteOnStop
<1>3. PICK o \in Calls : Spend(Cost(o)) /\ scaleset' \subseteq scaleset
  BY DEF DeleteOnStop
<1>4. faults' \in 0..MaxFaults  BY <1>1, <1>3, SpendTyped, CostTyped DEF TypeOK
<1>5. pc' \in Positions /\ pc'.at = "deleting"
  BY <1>1, <1>2 DEF Cursor, Positions, Locations
<1>6. TypeOK'  BY <1>1, <1>2, <1>3, <1>4, <1>5 DEF TypeOK, bounds
<1>7. Controlled' = Controlled  BY <1>2 DEF Controlled, Active, Retiring
<1>8. Mirrored'  BY <1>1, <1>2, <1>5 DEF Inv, Mirrored, Up
<1>9. RetirementNeverForgotten'  BY <1>2, <1>3 DEF Inv, RetirementNeverForgotten
<1>10. Accepting'  BY <1>2, <1>5 DEF Inv, Accepting
<1>11. Placed' /\ Turned'  BY <1>5 DEF Placed, Turned, Halfway
<1>12. Sessions'  BY <1>5 DEF Sessions, Ending
<1>13. Covered'  BY <1>1, <1>2, <1>7 DEF Inv, Covered
<1> QED BY <1>6, <1>8, <1>9, <1>10, <1>11, <1>12, <1>13 DEF Inv

(* A new process reads what the last one saved and scans every worker. *)
LEMMA RestartSafe ==
  ASSUME Inv, Restart
  PROVE  Inv'
<1>1. /\ TypeOK /\ pc \in Positions /\ disk \in Stored /\ pc.at = "down" /\ workers \subseteq Keys
      /\ \A k \in Keys : control[k] = NoController
  BY DEF Inv, TypeOK, Mirrored, Up, Restart
<1>2. UNCHANGED <<desired, disk, scaleset, workers, control, bounds, faults>> /\ pc' = Goto("desired")
  BY DEF Restart
<1>3. PICK unaccounted \in BOOLEAN :
        mem' = [NewMemory EXCEPT !.current = disk.lastValid,
                                 !.ackPending = disk.lastValid # NoDocument,
                                 !.retire = disk.retire,
                                 !.recovered = workers,
                                 !.adopting = HostAdmission,
                                 !.unaccounted = unaccounted]
  BY DEF Restart
<1>4. NoDocument \in Accepted /\ disk.lastValid \in Accepted /\ disk.retire \in Retirements
  BY <1>1 DEF Accepted, Stored
<1>5. mem' = [current |-> disk.lastValid, read |-> NoDocument,
              ackPending |-> disk.lastValid # NoDocument, retire |-> disk.retire,
              pending |-> {}, recovered |-> workers, orphan |-> {}, restarts |-> {},
              failed |-> {}, adopting |-> HostAdmission, unaccounted |-> unaccounted]
  BY <1>3 DEF NewMemory
<1>6. mem' \in Memories  BY <1>1, <1>4, <1>5, KindsAssumption DEF Memories
<1>7. /\ mem'.current = disk.lastValid /\ mem'.retire = disk.retire
      /\ mem'.recovered = workers /\ mem'.adopting = HostAdmission
  BY <1>5
<1>8. pc' \in Positions /\ pc'.at = "desired"
  BY <1>1, <1>2 DEF Goto, Positions, Locations
<1>9. TypeOK'  BY <1>1, <1>2, <1>6, <1>8 DEF TypeOK, bounds
<1>10. Active' = {} /\ Retiring' = {}
  BY <1>1, <1>2 DEF Active, Retiring, NoController
<1>11. Mirrored'  BY <1>2, <1>7, <1>8 DEF Mirrored, Up
<1>12. RetirementNeverForgotten'  BY <1>2 DEF Inv, RetirementNeverForgotten
<1>13. Accepting'  BY <1>2, <1>8 DEF Inv, Accepting
<1>14. Placed' /\ Turned'  BY <1>8 DEF Placed, Turned, Halfway
<1>15. Sessions'  BY <1>10 DEF Sessions
<1>16. Covered'  BY <1>2, <1>7, <1>10 DEF Covered, Controlled
<1> QED BY <1>9, <1>11, <1>12, <1>13, <1>14, <1>15, <1>16 DEF Inv

-----------------------------------------------------------------------------
(* The rest of the world.                                                  *)

(* The desired document is nobody's state until it is read. *)
LEMMA WriteDesiredSafe ==
  ASSUME Inv, WriteDesired
  PROVE  Inv'
<1>1. UNCHANGED <<disk, scaleset, workers, mem, control, pc, crashes, stops, faults>>
  BY DEF WriteDesired
<1>2. desired' \in Accepted \cup {Invalid}  BY DEF WriteDesired, Accepted
<1>3. writes' \in 0..MaxWrites  BY LimitsAssumption DEF WriteDesired, Inv, TypeOK
<1>4. TypeOK'  BY <1>1, <1>2, <1>3 DEF Inv, TypeOK
<1>5. UNCHANGED <<Active, Retiring, Controlled, ToRetire, Up, Ending>>
  BY <1>1 DEF Active, Retiring, Controlled, ToRetire, Up, Ending
<1>6. Mirrored'  BY <1>1, <1>5 DEF Inv, Mirrored
<1>7. RetirementNeverForgotten'  BY <1>1 DEF Inv, RetirementNeverForgotten
<1>8. Accepting'  BY <1>1 DEF Inv, Accepting
<1>9. Placed'  BY <1>1, <1>5 DEF Inv, Placed
<1>10. Turned'  BY <1>1, <1>5 DEF Inv, Turned
<1>11. Sessions'  BY <1>1, <1>5 DEF Inv, Sessions
<1>12. Covered'  BY <1>1, <1>5 DEF Inv, Covered
<1> QED BY <1>4, <1>6, <1>7, <1>8, <1>9, <1>10, <1>11, <1>12 DEF Inv

(* A listener that fails leaves the role and the session. *)
LEMMA ListenerFailsSafe ==
  ASSUME Inv, NEW k \in Keys, ListenerFails(k)
  PROVE  Inv'
<1>1. /\ TypeOK /\ mem \in Memories /\ Up
      /\ control \in [Keys -> Controllers] /\ control[k] \in Controllers
  BY DEF Inv, TypeOK, ListenerFails, Up
<1>2. /\ UNCHANGED <<desired, disk, scaleset, workers, pc, bounds>> /\ Spend(1)
      /\ control' = [control EXCEPT ![k].listening = FALSE]
      /\ mem' = [mem EXCEPT !.failed = @ \cup {k}]
  BY DEF ListenerFails
<1>3. faults' \in 0..MaxFaults  BY <1>1, <1>2, SpendTyped DEF TypeOK
<1>4. mem.failed \cup {k} \in SUBSET Keys  BY <1>1 DEF Memories
<1>5. /\ mem' \in Memories
      /\ mem'.current = mem.current /\ mem'.retire = mem.retire
      /\ mem'.recovered = mem.recovered /\ mem'.adopting = mem.adopting
  BY <1>1, <1>2, <1>4 DEF Memories
<1>6. /\ [control[k] EXCEPT !.listening = FALSE] \in Controllers
      /\ [control[k] EXCEPT !.listening = FALSE].role = control[k].role
      /\ [control[k] EXCEPT !.listening = FALSE].closed = control[k].closed
      /\ [control[k] EXCEPT !.listening = FALSE].adopted = control[k].adopted
  BY <1>1 DEF Controllers
<1>7. /\ control' \in [Keys -> Controllers]
      /\ \A j \in Keys : /\ control'[j].role = control[j].role
                          /\ control'[j].closed = control[j].closed
                          /\ control'[j].adopted = control[j].adopted
  BY <1>1, <1>2, <1>6
<1>8. TypeOK'  BY <1>1, <1>2, <1>3, <1>5, <1>7 DEF TypeOK, bounds
<1> QED BY <1>1, <1>2, <1>5, <1>7, <1>8, SameRoles

(* A late adoption leaves the role and the session. *)
LEMMA AdoptLaterSafe ==
  ASSUME Inv, NEW k \in Keys, AdoptLater(k)
  PROVE  Inv'
<1>1. /\ TypeOK /\ Up
      /\ control \in [Keys -> Controllers] /\ control[k] \in Controllers
  BY DEF Inv, TypeOK, AdoptLater, Up
<1>2. /\ UNCHANGED <<desired, disk, scaleset, workers, mem, pc, bounds, faults>>
      /\ control' = [control EXCEPT ![k].adopted = TRUE]
  BY DEF AdoptLater
<1>3. /\ [control[k] EXCEPT !.adopted = TRUE] \in Controllers
      /\ [control[k] EXCEPT !.adopted = TRUE].role = control[k].role
      /\ [control[k] EXCEPT !.adopted = TRUE].closed = control[k].closed
      /\ [control[k] EXCEPT !.adopted = TRUE].adopted
  BY <1>1 DEF Controllers
<1>4. /\ control' \in [Keys -> Controllers]
      /\ \A j \in Keys : /\ control'[j].role = control[j].role
                          /\ control'[j].closed = control[j].closed
                          /\ control[j].adopted => control'[j].adopted
  BY <1>1, <1>2, <1>3
<1>5. TypeOK'  BY <1>1, <1>2, <1>4 DEF TypeOK, bounds
<1> QED BY <1>1, <1>2, <1>4, <1>5, SameRoles

(* What changes when only the workers of a target do. *)
LEMMA SameButWorkers ==
  ASSUME Inv, UNCHANGED <<desired, disk, scaleset, mem, control, pc, bounds, faults>>,
         workers' \subseteq Keys
  PROVE  /\ UNCHANGED <<Active, Retiring, Controlled, ToRetire, Up, Ending>>
         /\ TypeOK' /\ Mirrored' /\ RetirementNeverForgotten' /\ Accepting' /\ Turned'
<1>1. UNCHANGED <<Active, Retiring, Controlled, ToRetire, Up, Ending>>
  BY DEF Active, Retiring, Controlled, ToRetire, Up, Ending
<1>2. TypeOK'  BY DEF Inv, TypeOK, bounds
<1>3. Mirrored'  BY <1>1 DEF Inv, Mirrored
<1>4. RetirementNeverForgotten'  BY DEF Inv, RetirementNeverForgotten
<1>5. Accepting'  BY DEF Inv, Accepting
<1>6. Turned'  BY <1>1 DEF Inv, Turned
<1> QED BY <1>1, <1>2, <1>3, <1>4, <1>5, <1>6

(* Only a target that is not being retired gets a worker. *)
LEMMA WorkerStartsSafe ==
  ASSUME Inv, NEW k \in Keys, WorkerStarts(k)
  PROVE  Inv'
<1>1. /\ UNCHANGED <<desired, disk, scaleset, mem, control, pc, bounds, faults>>
      /\ workers' = workers \cup {k} /\ k \in Active /\ workers' \subseteq Keys
  BY DEF WorkerStarts, Active, Inv, TypeOK
<1>2. /\ UNCHANGED <<Active, Retiring, Controlled, ToRetire, Up, Ending>>
      /\ TypeOK' /\ Mirrored' /\ RetirementNeverForgotten' /\ Accepting' /\ Turned'
  BY <1>1, SameButWorkers
<1>3. k \notin Retiring  BY <1>1 DEF Active, Retiring
<1>4. pc.at = "delete" => pc.k # k  BY <1>3 DEF Inv, Placed
<1>5. pc.at = "forget" => pc.k # k  BY <1>1 DEF Inv, Placed, Turned, Halfway
<1>6. Placed'  BY <1>1, <1>2, <1>4, <1>5 DEF Inv, Placed
<1>7. Sessions'  BY <1>1, <1>2, <1>3 DEF Inv, Sessions
<1>8. Covered'  BY <1>1, <1>2 DEF Inv, Covered, Controlled
<1> QED BY <1>2, <1>6, <1>7, <1>8 DEF Inv

(* Workers may end at any moment, with the manager down as well. *)
LEMMA WorkersEndSafe ==
  ASSUME Inv, NEW k \in Keys, WorkersEnd(k)
  PROVE  Inv'
<1>1. /\ UNCHANGED <<desired, disk, scaleset, mem, control, pc, bounds, faults>>
      /\ workers' \subseteq workers /\ workers' \subseteq Keys
  BY DEF WorkersEnd, Inv, TypeOK
<1>2. /\ UNCHANGED <<Active, Retiring, Controlled, ToRetire, Up, Ending>>
      /\ TypeOK' /\ Mirrored' /\ RetirementNeverForgotten' /\ Accepting' /\ Turned'
  BY <1>1, SameButWorkers
<1>3. Placed'  BY <1>1, <1>2 DEF Inv, Placed
<1>4. Sessions'  BY <1>1, <1>2 DEF Inv, Sessions
<1>5. Covered'  BY <1>1, <1>2 DEF Inv, Covered
<1> QED BY <1>2, <1>3, <1>4, <1>5 DEF Inv

-----------------------------------------------------------------------------
(* The induction.                                                          *)

(* Nothing is running and nothing is stored. *)
LEMMA InvInit ==
  ASSUME Init
  PROVE  Inv
<1>1. NoDocument \in Accepted /\ NoRetirements \in Retirements
  BY LimitsAssumption DEF Accepted, NoRetirements, Retirements
<1>2. mem \in Memories /\ mem = NewMemory  BY <1>1 DEF Init, NewMemory, Memories
<1>3. pc \in Positions /\ pc.at = "down"
  BY <1>1 DEF Init, Down, Idle, Positions, Locations
<1>4. NoController \in Controllers /\ NoController.role = "none"
  BY DEF Controllers, NoController
<1>5. control \in [Keys -> Controllers] /\ \A k \in Keys : control[k] = NoController
  BY <1>4 DEF Init
<1>6. disk \in Stored /\ disk.ack = 0 /\ disk.lastValid.gen = 0
  BY <1>1, LimitsAssumption DEF Init, Stored, NoDocument
<1>7. TypeOK  BY <1>1, <1>2, <1>3, <1>5, <1>6, LimitsAssumption DEF Init, TypeOK
<1>8. Mirrored  BY <1>2, <1>3, <1>5 DEF Mirrored, Up
<1>9. RetirementNeverForgotten  BY DEF Init, RetirementNeverForgotten
<1>10. Accepting  BY <1>3, <1>6 DEF Accepting
<1>11. Placed /\ Turned  BY <1>3 DEF Placed, Turned, Halfway
<1>12. Sessions  BY <1>4, <1>5 DEF Sessions, Active, Retiring
<1>13. Covered  BY <1>3 DEF Covered, Up
<1> QED BY <1>7, <1>8, <1>9, <1>10, <1>11, <1>12, <1>13 DEF Inv

(* A stuttering step preserves the invariant. *)
LEMMA InvStutter ==
  ASSUME Inv, UNCHANGED vars
  PROVE  Inv'
<1>1. UNCHANGED <<desired, disk, scaleset, mem, control, pc, bounds, faults, workers>>
  BY DEF vars
<1>2. workers' \subseteq Keys  BY <1>1 DEF Inv, TypeOK
<1>3. /\ UNCHANGED <<Active, Retiring, Controlled, ToRetire, Up, Ending>>
      /\ TypeOK' /\ Mirrored' /\ RetirementNeverForgotten' /\ Accepting' /\ Turned'
  BY <1>1, <1>2, SameButWorkers
<1>4. Placed'  BY <1>1, <1>3 DEF Inv, Placed
<1>5. Sessions'  BY <1>1, <1>3 DEF Inv, Sessions
<1>6. Covered'  BY <1>1, <1>3 DEF Inv, Covered
<1> QED BY <1>3, <1>4, <1>5, <1>6 DEF Inv

(* Every step preserves the invariant. *)
LEMMA InvStep ==
  ASSUME "sync" \notin FaultKinds, Inv, [Next]_vars
  PROVE  Inv'
<1>1. CASE Desiring
  BY <1>1, StartCycleSafe, KeepDesiredSafe, AcceptRetirementsSafe, AcceptDesiredSafe,
     EnsureRetirementsSafe DEF Desiring
<1>2. CASE Targeting
  BY <1>2, OpenControllerSafe, RetireUndesiredSafe, KeepTargetSafe, UpdateTargetSafe,
     EnsureScaleSetSafe DEF Targeting
<1>3. CASE Finishing
  BY <1>3, FindRetiringSafe, AdmitRetiringSafe, RetirementStartedSafe, DeleteScaleSetSafe,
     ForgetRetirementSafe, EndRetireSafe, PrepareRetirementSafe, DrainRetiringSafe
     DEF Finishing
<1>4. CASE Listening
  BY <1>4, DetectListenersSafe, EndRestartSafe, RestartListenerSafe DEF Listening
<1>5. CASE Waiting
  BY <1>5, WaitToCompleteSafe, WaitToRetireSafe, WaitToRestartSafe DEF Waiting
<1>6. CASE CompleteAdoption \/ Acknowledge
  BY <1>6, CompleteAdoptionSafe, AcknowledgeSafe
<1>7. CASE Stopping
  BY <1>7, StopWorkersSafe, EndShutdownSafe, DeleteOnStopSafe, BeginShutdownSafe DEF Stopping
<1>8. CASE Crash \/ Restart
  BY <1>8, CrashSafe, RestartSafe
<1>9. CASE World
  BY <1>9, WriteDesiredSafe, ListenerFailsSafe, WorkerStartsSafe, WorkersEndSafe,
     AdoptLaterSafe DEF World
<1>10. CASE UNCHANGED vars  BY <1>10, InvStutter
<1> QED BY <1>1, <1>2, <1>3, <1>4, <1>5, <1>6, <1>7, <1>8, <1>9, <1>10 DEF Next, Cycle

(* Inv holds in every reachable state. *)
THEOREM ManagerInvariant ==
  ASSUME "sync" \notin FaultKinds
  PROVE  Spec => []Inv
<1>1. Init => Inv  BY InvInit
<1>2. Inv /\ [Next]_vars => Inv'  BY InvStep
<1> QED BY <1>1, <1>2, PTL DEF Spec

(* No scale set is ever without an owner on disk: for any number of targets *)
(* and any documents, whatever calls and saves fail and wherever the        *)
(* manager crashes, a scale set belongs to the last valid document or to a  *)
(* durable retirement record (acceptDesiredTransition, reconcileRetirements). *)
THEOREM NoRetirementForgotten ==
  ASSUME "sync" \notin FaultKinds
  PROVE  Spec => []RetirementNeverForgotten
<1>1. Inv => RetirementNeverForgotten  BY DEF Inv
<1> QED BY <1>1, ManagerInvariant, PTL

(* Once the host admission fence is lifted every worker has a controller    *)
(* that has adopted its lease (completeHostAdmissionAdoptionIfReady).       *)
THEOREM FenceWaitsForWorkers ==
  ASSUME "sync" \notin FaultKinds
  PROVE  Spec => []FenceLiftedAccounted
<1>1. Inv => FenceLiftedAccounted
  BY DEF Inv, Covered, Up, FenceLiftedAccounted
<1> QED BY <1>1, ManagerInvariant, PTL

-----------------------------------------------------------------------------
(* What a step may never do.                                               *)

(* The acknowledgement and the last valid document have one writer each. *)
LEMMA OneWriterEach ==
  ASSUME disk \in Stored, [Next]_vars
  PROVE  /\ Acknowledge \/ disk'.ack = disk.ack
         /\ AcceptDesired \/ disk'.lastValid = disk.lastValid
<1>1. ASSUME NEW r, NEW o, NEW m, Persist(r, o, m)
      PROVE  disk'.ack = disk.ack /\ disk'.lastValid = disk.lastValid
  BY <1>1 DEF Persist, Stored
<1>2. CASE Desiring
  <2>1. CASE StartCycle \/ KeepDesired  BY <2>1 DEF StartCycle, KeepDesired
  <2>2. CASE AcceptRetirements  BY <1>1, <2>2 DEF AcceptRetirements
  <2>3. CASE AcceptDesired  BY <2>3 DEF AcceptDesired, Stored
  <2>4. CASE EnsureRetirements  BY <1>1, <2>4 DEF EnsureRetirements
  <2> QED BY <1>2, <2>1, <2>2, <2>3, <2>4 DEF Desiring
<1>3. CASE Targeting
  BY <1>3 DEF Targeting, OpenController, RetireUndesired, KeepTarget, UpdateTarget, EnsureScaleSet
<1>4. CASE Finishing
  <2>1. CASE FindRetiring \/ AdmitRetiring \/ DeleteScaleSet \/ EndRetire
    BY <2>1 DEF FindRetiring, AdmitRetiring, DeleteScaleSet, EndRetire
  <2>2. CASE RetirementStarted  BY <1>1, <2>2 DEF RetirementStarted
  <2>3. CASE ForgetRetirement  BY <1>1, <2>3 DEF ForgetRetirement
  <2>4. ASSUME NEW k \in Keys, PrepareRetirement(k)
        PROVE  disk'.ack = disk.ack /\ disk'.lastValid = disk.lastValid
    BY <1>1, <2>4 DEF PrepareRetirement
  <2>5. ASSUME NEW k \in Keys, DrainRetiring(k)  PROVE UNCHANGED disk
    BY <2>5 DEF DrainRetiring
  <2> QED BY <1>4, <2>1, <2>2, <2>3, <2>4, <2>5 DEF Finishing
<1>5. CASE Listening \/ Waiting \/ CompleteAdoption
  BY <1>5 DEF Listening, DetectListeners, EndRestart, RestartListener, Waiting,
              WaitToComplete, WaitToRetire, WaitToRestart, CompleteAdoption
<1>6. CASE Acknowledge  BY <1>6 DEF Acknowledge, Stored
<1>7. CASE Stopping \/ Crash \/ Restart
  BY <1>7 DEF Stopping, StopWorkers, EndShutdown, DeleteOnStop, BeginShutdown, Crash, Restart
<1>8. CASE World \/ UNCHANGED vars
  BY <1>8 DEF World, WriteDesired, ListenerFails, WorkerStarts, WorkersEnd, AdoptLater, vars
<1> QED BY <1>2, <1>3, <1>4, <1>5, <1>6, <1>7, <1>8 DEF Next, Cycle

(* A scale set is deleted by the retirement of its target or by a full stop. *)
LEMMA TwoDeleters ==
  ASSUME [Next]_vars
  PROVE  DeleteScaleSet \/ pc.at = "deleting" \/ scaleset \subseteq scaleset'
<1>1. CASE Desiring
  BY <1>1 DEF Desiring, StartCycle, KeepDesired, AcceptRetirements, AcceptDesired,
              EnsureRetirements
<1>2. CASE Targeting
  BY <1>2 DEF Targeting, OpenController, RetireUndesired, KeepTarget, UpdateTarget,
              EnsureScaleSet
<1>3. CASE Finishing
  BY <1>3 DEF Finishing, FindRetiring, AdmitRetiring, RetirementStarted, ForgetRetirement,
              EndRetire, PrepareRetirement, DrainRetiring
<1>4. CASE Listening \/ Waiting \/ CompleteAdoption \/ Acknowledge
  BY <1>4 DEF Listening, DetectListeners, EndRestart, RestartListener, Waiting,
              WaitToComplete, WaitToRetire, WaitToRestart, CompleteAdoption, Acknowledge
<1>5. CASE Stopping \/ Crash \/ Restart
  BY <1>5 DEF Stopping, StopWorkers, EndShutdown, DeleteOnStop, Turn, BeginShutdown, Crash,
              Restart
<1>6. CASE World \/ UNCHANGED vars
  BY <1>6 DEF World, WriteDesired, ListenerFails, WorkerStarts, WorkersEnd, AdoptLater, vars
<1> QED BY <1>1, <1>2, <1>3, <1>4, <1>5, <1>6 DEF Next, Cycle

(* An acknowledgement is published only for a generation that is durable,   *)
(* whose targets all have their scale sets and none a retirement record     *)
(* (publishAcknowledgement, currentConfigurationCoherent).                  *)
THEOREM AcknowledgementIsHonest ==
  ASSUME "sync" \notin FaultKinds
  PROVE  Spec => AcknowledgedIsApplied
<1>1. ASSUME Inv, [Next]_vars, disk'.ack # disk.ack
      PROVE  /\ disk.lastValid.gen = disk'.ack
             /\ \A k \in disk.lastValid.keys : k \in scaleset /\ disk.retire.at[k] = 0
  <2>1. disk \in Stored  BY <1>1 DEF Inv, TypeOK
  <2>2. Acknowledge  BY <1>1, <2>1, OneWriterEach
  <2>3. Acknowledgeable /\ disk' = [disk EXCEPT !.ack = mem.current.gen] /\ pc.at = "ack"
    BY <1>1, <2>2 DEF Acknowledge
  <2>4. mem.current = disk.lastValid /\ mem.retire = disk.retire
    BY <1>1, <2>3 DEF Inv, Mirrored, Up
  <2>5. disk'.ack = disk.lastValid.gen  BY <2>1, <2>3, <2>4 DEF Stored
  <2>6. \A k \in disk.lastValid.keys : k \in Active /\ disk.retire.at[k] = 0
    BY <2>3, <2>4 DEF Acknowledgeable, Coherent, Recorded
  <2>7. \A k \in Active : k \in scaleset
    BY <1>1, <2>3 DEF Inv, Sessions, Ending, Active
  <2> QED BY <2>5, <2>6, <2>7
<1>2. Inv /\ [Next]_vars =>
        [disk'.ack # disk.ack =>
           /\ disk.lastValid.gen = disk'.ack
           /\ \A k \in disk.lastValid.keys : k \in scaleset /\ disk.retire.at[k] = 0]_vars
  BY <1>1
<1> QED BY <1>2, ManagerInvariant, PTL DEF Spec, AcknowledgedIsApplied

(* Outside a full stop only the scale set of a drained target that has left *)
(* the durable document, and whose record is durable, is deleted            *)
(* (reconcileRetirementsWithFinalization).                                  *)
THEOREM DeletionFollowsRetirement ==
  ASSUME "sync" \notin FaultKinds
  PROVE  Spec => DeletedOnlyRetired
<1>1. ASSUME Inv, [Next]_vars, NEW k \in scaleset \ scaleset', pc.at # "deleting"
      PROVE  k \notin disk.lastValid.keys /\ disk.retire.at[k] # 0 /\ k \notin workers
  <2>1. DeleteScaleSet  BY <1>1, TwoDeleters
  <2>2. k = pc.k /\ pc.at = "delete"  BY <1>1, <2>1 DEF DeleteScaleSet
  <2>3. k \in ToRetire /\ k \notin workers  BY <1>1, <2>2 DEF Inv, Placed, Halfway
  <2>4. mem.current = disk.lastValid /\ mem.retire = disk.retire
    BY <1>1, <2>2 DEF Inv, Mirrored, Up
  <2>5. disk.lastValid.gen \in Int
    BY <1>1, AcceptedTyped, LimitsAssumption DEF Inv, TypeOK, Stored
  <2>6. 0 \notin 1..disk.lastValid.gen  BY <2>5
  <2> QED BY <2>3, <2>4, <2>6 DEF ToRetire
<1>2. Inv /\ [Next]_vars =>
        [\A k \in scaleset \ scaleset' :
           pc.at # "deleting" => /\ k \notin disk.lastValid.keys
                                 /\ disk.retire.at[k] # 0
                                 /\ k \notin workers]_vars
  BY <1>1
<1> QED BY <1>2, ManagerInvariant, PTL DEF Spec, DeletedOnlyRetired

(* Neither the durable document nor the acknowledgement goes back to an     *)
(* earlier generation, across crashes included (classifyDesiredState).      *)
THEOREM GenerationsNeverGoBack ==
  ASSUME "sync" \notin FaultKinds
  PROVE  Spec => GenerationsAdvance
<1>1. ASSUME Inv, [Next]_vars
      PROVE  disk'.lastValid.gen >= disk.lastValid.gen /\ disk'.ack >= disk.ack
  <2>1. disk \in Stored /\ pc \in Positions  BY <1>1 DEF Inv, TypeOK
  <2>2. disk.ack \in Int /\ disk.lastValid.gen \in Int /\ pc.doc.gen \in Int
    BY <2>1, AcceptedTyped, LimitsAssumption DEF Stored, Positions
  <2>3. disk'.lastValid.gen >= disk.lastValid.gen
    <3>1. CASE AcceptDesired
      <4>1. disk'.lastValid \in {disk.lastValid, pc.doc}  BY <2>1, <3>1 DEF AcceptDesired, Stored
      <4>2. pc.doc.gen > disk.lastValid.gen  BY <1>1, <3>1 DEF Inv, Accepting, AcceptDesired
      <4> QED BY <2>2, <4>1, <4>2
    <3>2. CASE disk'.lastValid = disk.lastValid  BY <2>2, <3>2
    <3> QED BY <1>1, <2>1, <3>1, <3>2, OneWriterEach
  <2>4. disk'.ack >= disk.ack
    <3>1. CASE Acknowledge
      <4>1. mem.current = disk.lastValid  BY <1>1, <3>1 DEF Inv, Mirrored, Up, Acknowledge
      <4>2. disk'.ack \in {disk.ack, disk.lastValid.gen}
        BY <2>1, <3>1, <4>1 DEF Acknowledge, Stored
      <4>3. disk.ack <= disk.lastValid.gen  BY <1>1 DEF Inv, Accepting
      <4> QED BY <2>2, <4>2, <4>3
    <3>2. CASE disk'.ack = disk.ack  BY <2>2, <3>2
    <3> QED BY <1>1, <2>1, <3>1, <3>2, OneWriterEach
  <2> QED BY <2>3, <2>4
<1>2. Inv /\ [Next]_vars =>
        [disk'.lastValid.gen >= disk.lastValid.gen /\ disk'.ack >= disk.ack]_vars
  BY <1>1
<1> QED BY <1>2, ManagerInvariant, PTL DEF Spec, GenerationsAdvance
=============================================================================
