------------------------ MODULE ControlPlaneGateProofs ------------------------
(* The rate gate counts its calls, holds every cooldown across overlaps,   *)
(* failed saves and restarts, keeps a crash guard on disk, and is open     *)
(* when it should be; credential probes keep their distance.               *)
EXTENDS ControlPlaneGate, FiniteSetTheorems, TLAPS

-----------------------------------------------------------------------------
(* Deadlines on disk.                                                      *)

(* A deadline splits into whole seconds and a fraction, which RFC 3339 drops. *)
LEMMA WholeSeconds ==
  ASSUME NEW t \in Nat
  PROVE  /\ t \div Second \in Nat
         /\ Formatted(t) = Second * (t \div Second)
         /\ t - Formatted(t) \in 0..(Second - 1)
<1>1. t % Second \in 0..(Second - 1)  BY DelayAssumption
<1>2. t = Second * (t \div Second) + (t % Second)  BY DelayAssumption
<1>3. t \div Second \in Nat  BY DelayAssumption
<1> QED BY <1>1, <1>2, <1>3, DelayAssumption DEF Formatted

(* A formatted deadline is a time that is not later. *)
LEMMA FormattedTyped ==
  ASSUME NEW t \in Nat
  PROVE  Formatted(t) \in Nat /\ Formatted(t) <= t
<1> DEFINE q == t \div Second
<1>1. q \in Nat /\ Formatted(t) = Second * q /\ t - Formatted(t) \in 0..(Second - 1)
  BY WholeSeconds
<1> HIDE DEF q
<1>2. Second * q \in Nat  BY <1>1, DelayAssumption
<1> QED BY <1>1, <1>2, DelayAssumption

(* A deadline not before a formatted one is not before it once formatted. *)
LEMMA FormattedTwice ==
  ASSUME NEW s \in Nat, NEW t \in Nat, Formatted(s) <= t
  PROVE  Formatted(s) <= Formatted(t)
<1> DEFINE a == s \div Second
           b == t \div Second
<1>1. /\ a \in Nat /\ Formatted(s) = Second * a
      /\ b \in Nat /\ Formatted(t) = Second * b
      /\ t - Formatted(t) \in 0..(Second - 1)
  BY WholeSeconds
<1> HIDE DEF a, b
<1>2. a <= b
  <2> SUFFICES ASSUME a > b PROVE FALSE  BY <1>1
  <2>1. Second * a >= Second * (b + 1)  BY <1>1, DelayAssumption
  <2>2. Second * (b + 1) = Second * b + Second  BY <1>1, DelayAssumption
  <2>3. Second * a \in Nat /\ Second * b \in Nat  BY <1>1, DelayAssumption
  <2> QED BY <1>1, <2>1, <2>2, <2>3, DelayAssumption
<1>3. Second * a <= Second * b  BY <1>1, <1>2, DelayAssumption
<1> QED BY <1>1, <1>3

(* Formatting keeps the order of deadlines. *)
LEMMA FormattedMonotone ==
  ASSUME NEW s \in Nat, NEW t \in Nat, s <= t
  PROVE  Formatted(s) <= Formatted(t)
  BY FormattedTyped, FormattedTwice

(* The next failure count is one, and has a cooldown at least as long. *)
LEMMA CappedTyped ==
  ASSUME NEW n \in 0..MaxFailures
  PROVE  /\ Capped(n) \in 1..MaxFailures /\ n <= Capped(n)
         /\ RateLimitDelay[Capped(n)] \in Nat
         /\ n > 0 => RateLimitDelay[n] \in Nat /\ RateLimitDelay[n] <= RateLimitDelay[Capped(n)]
<1>1. Capped(n) \in 1..MaxFailures /\ n <= Capped(n)  BY BoundsAssumption DEF Capped
<1>2. n > 0 => n \in 1..MaxFailures  BY BoundsAssumption
<1> QED BY <1>1, <1>2, DelayAssumption

(* A saved record holds the formatted deadline; a save that failed changes *)
(* nothing.                                                                *)
LEMMA SavedTyped ==
  ASSUME NEW o, NEW disk \in Records, NEW r, r.failures \in 0..MaxFailures, r.next \in Nat
  PROVE  /\ Saved(o, disk, r) \in Records
         /\ o # "failed" => /\ Saved(o, disk, r).kept
                            /\ Saved(o, disk, r).failures = r.failures
                            /\ Saved(o, disk, r).next = Formatted(r.next)
         /\ o = "failed" => Saved(o, disk, r) = disk
  BY FormattedTyped DEF Saved, Record, Records

-----------------------------------------------------------------------------
(* Types.                                                                  *)

Times == [cooldown : Nat, saved : Nat, since : Nat, left : BOOLEAN, probeAfter : Nat]

Gates == [inFlight : Nat, rateLimited : BOOLEAN, failures : 0..MaxFailures, next : Nat]

(* Any fault count Spend allows is within its bound. *)
LEMMA SpendTyped ==
  ASSUME TypeOK, NEW n \in Nat, Spend(n)
  PROVE  faults' \in 0..MaxFaults
  BY BoundsAssumption DEF Spend, TypeOK

(* An outcome costs at most one fault. *)
LEMMA CostTyped == \A o, p : Cost(o) \in Nat /\ Cost(o) + Cost(p) \in Nat
  BY DEF Cost

(* A recorded rate limit, on any gate that counts its failures. *)
LEMMA RecordRateLimitTyped ==
  ASSUME TypeOK, NEW g \in Gates, NEW o, RecordRateLimit(g, o)
  PROVE  /\ gate' \in Gates /\ gateDisk' \in Records /\ seen' \in Times
         /\ gate'.inFlight = g.inFlight /\ gate'.rateLimited
         /\ gate'.failures = Capped(g.failures)
         /\ gate'.next = now + RateLimitDelay[Capped(g.failures)]
         /\ gateDisk' = Saved(o, gateDisk, gate')
         /\ seen'.cooldown = gate'.next
         /\ seen'.saved = IF o = "failed" THEN seen.saved ELSE gate'.next
         /\ seen'.since = seen.since /\ seen'.left = seen.left
         /\ seen'.probeAfter = seen.probeAfter
<1> DEFINE f == Capped(g.failures)
           limited == [g EXCEPT !.rateLimited = TRUE, !.failures = f,
                                !.next = now + RateLimitDelay[f]]
<1>1. f \in 1..MaxFailures /\ RateLimitDelay[f] \in Nat  BY CappedTyped DEF Gates
<1>2. now + RateLimitDelay[f] \in Nat /\ f \in 0..MaxFailures  BY <1>1 DEF TypeOK
<1> HIDE DEF f
<1>3. limited \in Gates  BY <1>2 DEF Gates
<1>4. /\ limited.inFlight = g.inFlight /\ limited.rateLimited /\ limited.failures = f
      /\ limited.next = now + RateLimitDelay[f]
  BY DEF Gates
<1>5. gate' = limited /\ gateDisk' = Saved(o, gateDisk, limited)
  BY DEF RecordRateLimit, f
<1>6. seen' = [seen EXCEPT !.cooldown = limited.next,
                           !.saved = IF o = "failed" THEN seen.saved ELSE limited.next]
  BY DEF RecordRateLimit, f, TypeOK
<1> HIDE DEF limited
<1>7. limited.next \in Nat /\ limited.failures \in 0..MaxFailures  BY <1>3 DEF Gates
<1>8. gateDisk' \in Records  BY <1>5, <1>7, SavedTyped DEF TypeOK
<1>9. seen \in Times  BY DEF TypeOK, Times
<1>10. /\ seen' \in Times
       /\ seen'.cooldown = limited.next
       /\ seen'.saved = IF o = "failed" THEN seen.saved ELSE limited.next
       /\ seen'.since = seen.since /\ seen'.left = seen.left
       /\ seen'.probeAfter = seen.probeAfter
  BY <1>6, <1>7, <1>9 DEF Times
<1> QED BY <1>3, <1>4, <1>5, <1>8, <1>10 DEF f

(* A call that ends without a rate limit: the last one clears the guard. *)
LEMMA CompleteTyped ==
  ASSUME TypeOK, NEW g \in Gates, NEW o, Complete(g, o)
  PROVE  /\ gate' \in Gates /\ gateDisk' \in Records /\ seen' \in Times
         /\ gate'.inFlight = g.inFlight
         /\ gate' = g \/ (gate' = NewGate /\ ~g.rateLimited)
         /\ gateDisk' = gateDisk \/ (gateDisk' = NoRecord /\ g.inFlight = 0 /\ ~g.rateLimited)
         /\ g.inFlight = 0 /\ ~g.rateLimited => gate' = NewGate \/ seen'.left
         /\ g.inFlight > 0 \/ g.rateLimited => gate' = g
         /\ seen'.cooldown = seen.cooldown /\ seen'.saved = seen.saved
         /\ seen'.since = seen.since /\ seen'.probeAfter = seen.probeAfter
<1>1. seen \in Times /\ gateDisk \in Records  BY DEF TypeOK, Times
<1>2. NoRecord \in Records /\ NewGate \in Gates /\ NewGate.inFlight = 0
  BY BoundsAssumption DEF NoRecord, Records, NewGate, Gates
<1>3. CASE g.inFlight > 0 \/ g.rateLimited
  <2>1. gate' = g /\ gateDisk' = gateDisk /\ seen' = seen  BY <1>3 DEF Complete
  <2> QED BY <1>1, <1>3, <2>1 DEF Gates
<1>4. CASE ~(g.inFlight > 0 \/ g.rateLimited)
  <2>1. g.inFlight = 0 /\ ~g.rateLimited  BY <1>4 DEF Gates
  <2>2. /\ gate' = IF o = "ok" THEN NewGate ELSE g
        /\ gateDisk' = IF o = "ok" THEN NoRecord ELSE gateDisk
        /\ seen' = [seen EXCEPT !.left = (o # "ok")]
    BY <1>4 DEF Complete
  <2>3. /\ seen' \in Times
        /\ seen'.cooldown = seen.cooldown /\ seen'.saved = seen.saved
        /\ seen'.since = seen.since /\ seen'.probeAfter = seen.probeAfter
    BY <1>1, <2>2 DEF Times
  <2>4. CASE o = "ok"  BY <1>2, <2>1, <2>2, <2>3, <2>4
  <2>5. CASE o # "ok"
    <3>1. seen'.left  BY <1>1, <2>2, <2>5 DEF Times
    <3>2. gate' = g /\ gateDisk' = gateDisk  BY <2>2, <2>5
    <3> QED BY <1>1, <2>1, <2>3, <3>1, <3>2
  <2> QED BY <2>4, <2>5
<1> QED BY <1>3, <1>4

Probes == [failures : 0..MaxFailures, next : Nat]

(* What a probe leaves: nothing new, or a deadline at least FailureInterval *)
(* away, and its record if the save took effect.                            *)
LEMMA ProbedTyped ==
  ASSUME TypeOK, NEW c, NEW result, NEW o, Probed(c, result, o)
  PROVE  /\ probe' \in Probes /\ probeDisk' \in Records
         /\ \/ probe' = probe /\ probeDisk' = probeDisk
            \/ /\ probe'.next >= now + FailureInterval
               /\ probeDisk' = Saved(o, probeDisk, probe')
<1>1. CASE c # Prober  BY <1>1 DEF Probed, TypeOK, Probes
<1>2. CASE c = Prober
  <2> DEFINE f == IF result = "ok" THEN 0 ELSE Capped(probe.failures)
             t == NextProbe(f, result = "limited")
  <2>1. f \in 0..MaxFailures /\ (f # 0 => RateLimitDelay[f] \in Nat /\ f \in 1..MaxFailures)
    BY CappedTyped, BoundsAssumption DEF TypeOK
  <2>2. probe' = [failures |-> f, next |-> t]
    BY <1>2 DEF Probed
  <2>3. probeDisk' = Saved(o, probeDisk, probe')  BY <1>2, <2>2 DEF Probed
  <2> HIDE DEF f
  <2>4. t \in Nat /\ t >= now + FailureInterval
    BY SMTT(30), <2>1, DelayAssumption DEF NextProbe, TypeOK
  <2> HIDE DEF t
  <2>5. probe' \in Probes /\ probe'.next = t  BY <2>1, <2>2, <2>4 DEF Probes
  <2>6. probeDisk' \in Records  BY <2>3, <2>5, SavedTyped DEF Probes, TypeOK
  <2> QED BY <2>3, <2>4, <2>5, <2>6
<1> QED BY <1>1, <1>2

(* What a restart reads of the probe's record. *)
LEMMA LoadProbeTyped ==
  ASSUME TypeOK, LoadProbe
  PROVE  /\ probe' \in Probes
         /\ probeDisk.kept => probe'.next = probeDisk.next
  BY BoundsAssumption, DelayAssumption DEF LoadProbe, Probes, TypeOK, Records

(* A call that returns is taken off the count, then recorded. *)
LEMMA AfterEffect ==
  ASSUME TypeOK, NEW c \in Callers, NEW result, After(c, result)
  PROVE  \E g \in Gates, o \in Saves, p \in Saves :
           /\ g.inFlight = IF gate.inFlight > 0 THEN gate.inFlight - 1 ELSE 0
           /\ g.rateLimited = gate.rateLimited /\ g.failures = gate.failures
           /\ g.next = gate.next
           /\ RecordRateLimit(g, o) \/ Complete(g, o)
           /\ Probed(c, result, p)
           /\ faults' \in 0..MaxFaults
<1> DEFINE n == IF gate.inFlight > 0 THEN gate.inFlight - 1 ELSE 0
           g == [gate EXCEPT !.inFlight = n]
<1>1. gate \in Gates  BY DEF TypeOK, Gates
<1>2. n \in Nat  BY <1>1 DEF Gates
<1>3. PICK o \in Saves, p \in Saves :
        /\ Spend(Cost(o) + Cost(p))
        /\ RecordRateLimit(g, o) \/ Complete(g, o)
        /\ Probed(c, result, p)
  BY <1>1 DEF After, Gates
<1>4. faults' \in 0..MaxFaults  BY <1>3, CostTyped, SpendTyped
<1> HIDE DEF n
<1>5. /\ g \in Gates /\ g.inFlight = n /\ g.rateLimited = gate.rateLimited
      /\ g.failures = gate.failures /\ g.next = gate.next
  BY <1>1, <1>2 DEF Gates
<1> HIDE DEF g
<1> QED BY <1>3, <1>4, <1>5 DEF n

(* The guard Begin puts up. *)
LEMMA GuardedTyped ==
  ASSUME TypeOK, NEW n \in Nat
  PROVE  LET g == [Guarded EXCEPT !.inFlight = n] IN
         /\ g \in Gates /\ g.inFlight = n /\ ~g.rateLimited
         /\ g.failures = gate.failures /\ g.next = now + CrashRetryDelay
         /\ Guarded.failures = gate.failures /\ Guarded.next = now + CrashRetryDelay
<1>1. gate \in Gates /\ now + CrashRetryDelay \in Nat
  BY DelayAssumption DEF TypeOK, Gates
<1>2. /\ Guarded \in Gates /\ ~Guarded.rateLimited
      /\ Guarded.failures = gate.failures /\ Guarded.next = now + CrashRetryDelay
  BY <1>1 DEF Guarded, Gates
<1> QED BY <1>2 DEF Gates


(* A restart with the gate's own record. *)
LEMMA LoadEffect ==
  ASSUME TypeOK, Load, gate = NewGate, ~gateDisk.kept => gateDisk = NoRecord
  PROVE  /\ gate' \in Gates /\ gateDisk' \in Records /\ up' \in BOOLEAN /\ probe' \in Probes
         /\ faults' \in 0..MaxFaults
         /\ gate'.inFlight = 0
         /\ up' => /\ gate'.rateLimited <=> gateDisk.failures > 0
                   /\ gate'.failures = gateDisk.failures
                   /\ LoadProbe
                   /\ ~gate'.rateLimited => gate'.next <= now + CrashRetryDelay
                   /\ gate'.next <= gateDisk.next
         /\ ~up' => gate' = NewGate /\ probe' = probe
         /\ gateDisk.failures > 0 => gateDisk' = gateDisk /\ (up' => gate'.next = gateDisk.next)
         /\ gateDisk' = gateDisk \/ gateDisk'.kept
<1> DEFINE limited == gateDisk.failures > 0
           maximum == now + CrashRetryDelay
           long    == gateDisk.kept /\ ~limited /\ gateDisk.next > maximum
           loaded  == [NewGate EXCEPT !.rateLimited = limited, !.failures = gateDisk.failures,
                                      !.next = IF long THEN maximum ELSE gateDisk.next]
<1>1. PICK o \in Saves :
        /\ Spend(Cost(o))
        /\ gateDisk' = IF long THEN Saved(o, gateDisk, loaded) ELSE gateDisk
        /\ up' = (o = "ok")
        /\ gate' = IF o = "ok" THEN loaded ELSE gate
  BY DEF Load
<1>2. IF up' THEN LoadProbe ELSE probe' = probe  BY DEF Load
<1>3. gateDisk \in Records /\ maximum \in Nat  BY DelayAssumption DEF TypeOK
<1>4. gateDisk.failures \in 0..MaxFailures /\ gateDisk.next \in Nat  BY <1>3 DEF Records
<1>5. /\ loaded.inFlight = 0 /\ loaded.rateLimited = limited
      /\ loaded.failures = gateDisk.failures
      /\ loaded.next = IF long THEN maximum ELSE gateDisk.next
  BY DEF NewGate
<1>6. loaded \in Gates
  <2>1. limited \in BOOLEAN  BY <1>4
  <2>2. (IF long THEN maximum ELSE gateDisk.next) \in Nat  BY <1>3, <1>4
  <2> QED BY <1>4, <2>1, <2>2 DEF NewGate, Gates
<1>7. NewGate \in Gates /\ NewGate.inFlight = 0  BY BoundsAssumption DEF NewGate, Gates
<1>8. faults' \in 0..MaxFaults  BY <1>1, CostTyped, SpendTyped
<1>9. limited => ~long  OBVIOUS
<1>10. gateDisk' \in Records /\ (gateDisk' = gateDisk \/ gateDisk'.kept)
  <2>1. loaded.failures \in 0..MaxFailures /\ loaded.next \in Nat  BY <1>6 DEF Gates
  <2> HIDE DEF loaded
  <2> QED BY <1>1, <1>3, <2>1, SavedTyped
<1>11. up' \in BOOLEAN /\ (up' <=> o = "ok")  BY <1>1
<1>12. probe' \in Probes  BY <1>2, <1>11, LoadProbeTyped DEF TypeOK, Probes
<1>13. CASE o = "ok"
  <2>1. gate' = loaded /\ up'  BY <1>1, <1>11, <1>13
  <2>2. gate'.next <= gateDisk.next  BY <1>3, <1>4, <1>5, <2>1
  <2>3. gate'.rateLimited <=> limited  BY <1>5, <2>1
  <2>4. ~limited => gate'.next <= maximum
    <3>1. CASE long  BY <1>3, <1>5, <2>1, <3>1
    <3>2. CASE ~long /\ gateDisk.kept  BY <1>3, <1>4, <1>5, <2>1, <3>2
    <3>3. CASE ~gateDisk.kept  BY <1>3, <1>5, <2>1, <3>3 DEF NoRecord
    <3> QED BY <3>1, <3>2, <3>3
  <2> QED BY <1>1, <1>2, <1>5, <1>6, <1>8, <1>9, <1>10, <1>11, <1>12, <2>1, <2>2, <2>3, <2>4
<1>14. CASE o # "ok"
  <2>1. gate' = NewGate /\ ~up'  BY <1>1, <1>11, <1>14
  <2> QED BY <1>1, <1>2, <1>7, <1>8, <1>9, <1>10, <1>11, <1>12, <2>1
<1> QED BY <1>13, <1>14


-----------------------------------------------------------------------------
(* The inductive invariant.                                                *)

(* Nothing runs in a process that is down. *)
Counted ==
  /\ InFlightCounted
  /\ ~up => gate = NewGate /\ \A c \in Callers : caller[c] = "idle"

(* A cooldown that is not over is held in memory, and the part of it that   *)
(* was saved on disk, where failures above zero tell it from a crash guard. *)
(* The failure count promises that the next cooldown ends no earlier.       *)
Cooling ==
  /\ up /\ now < seen.cooldown => gate.rateLimited /\ gate.next >= seen.cooldown
  /\ up /\ now < Formatted(seen.saved) =>
       /\ gate.rateLimited /\ gate.next >= Formatted(seen.saved)
       /\ gate.failures > 0 /\ seen.saved <= now + RateLimitDelay[gate.failures]
  /\ now < Formatted(seen.saved) =>
       /\ gateDisk.kept /\ gateDisk.failures > 0
       /\ gateDisk.next >= Formatted(seen.saved)
       /\ seen.saved <= now + RateLimitDelay[gateDisk.failures]

Guarding ==
  /\ seen.since <= now
  /\ CrashGuardOnDisk
  /\ GuardShort
  /\ QuietGateOpen
  /\ ~gateDisk.kept => gateDisk = NoRecord

(* A distance between probes that is not over is in memory and on disk. *)
Paced ==
  /\ seen.probeAfter <= now + FailureInterval
  /\ Formatted(seen.probeAfter) = seen.probeAfter
  /\ up /\ now < seen.probeAfter => probe.next >= seen.probeAfter
  /\ now < seen.probeAfter => probeDisk.kept /\ probeDisk.next >= seen.probeAfter

GateInv == TypeOK /\ Counted /\ Cooling /\ Guarding /\ Paced

(* The state of the gate and its callers has the types TypeOK gives. *)
LEMMA TypeStep ==
  ASSUME GateInv, Next
  PROVE  TypeOK'
<1> USE DEF GateInv
<1>1. /\ TypeOK /\ gate \in Gates /\ seen \in Times /\ probe \in Probes
      /\ now \in Nat /\ gateDisk \in Records
  BY DEF TypeOK, Gates, Times, Probes
<1>2. ASSUME NEW c \in Callers, TakeSlot(c) PROVE TypeOK'
  BY <1>1, <1>2 DEF TakeSlot, TypeOK
<1>3. ASSUME NEW c \in Callers, TurnAway(c) PROVE TypeOK'
  <2>1. PICK o \in Saves : Spend(Cost(o)) /\ Probed(c, "failed", o)  BY <1>3 DEF TurnAway
  <2>2. faults' \in 0..MaxFaults  BY <1>1, <2>1, CostTyped, SpendTyped
  <2>3. probe' \in Probes /\ probeDisk' \in Records  BY <1>1, <2>1, ProbedTyped
  <2> QED BY <1>1, <1>3, <2>2, <2>3 DEF TurnAway, TypeOK, Probes
<1>4. ASSUME NEW c \in Callers, Begin(c) PROVE TypeOK'
  <2>1. PICK o \in Saves, p \in Saves :
          /\ Spend(Cost(o) + Cost(p))
          /\ gate' = [Guarded EXCEPT !.inFlight = IF o = "ok" THEN 1 ELSE 0]
          /\ gateDisk' = Saved(o, gateDisk, Guarded)
          /\ seen' = [seen EXCEPT !.since = now, !.left = (o # "ok")]
          /\ UNCHANGED <<probe, probeDisk>> \/ Probed(c, "failed", p)
          /\ caller' = [caller EXCEPT ![c] = IF o = "ok" THEN "calling" ELSE "idle"]
    BY <1>4 DEF Begin
  <2>2. faults' \in 0..MaxFaults  BY <1>1, <2>1, CostTyped, SpendTyped
  <2>3. probe' \in Probes /\ probeDisk' \in Records
    BY <1>1, <2>1, ProbedTyped DEF TypeOK
  <2>4. gate' \in Gates  BY <1>1, <2>1, GuardedTyped
  <2>5. Guarded.failures \in 0..MaxFailures /\ Guarded.next \in Nat
    BY <1>1, GuardedTyped, DelayAssumption DEF Gates
  <2>6. gateDisk' \in Records  BY <1>1, <2>1, <2>5, SavedTyped
  <2>7. seen' \in Times  BY <1>1, <2>1 DEF Times
  <2>8. caller' \in [Callers -> {"idle", "waiting", "slot", "calling"}]
    BY <1>1, <2>1 DEF TypeOK
  <2>9. UNCHANGED <<now, up, crashes>>  BY <1>4 DEF Begin
  <2> QED BY <1>1, <2>2, <2>3, <2>4, <2>6, <2>7, <2>8, <2>9 DEF TypeOK, Gates, Times, Probes
<1>5. ASSUME NEW c \in Callers, Join(c) PROVE TypeOK'
  <2>1. gate' \in Gates  BY <1>1, <1>5 DEF Join, Gates
  <2> QED BY <1>1, <1>5, <2>1 DEF Join, TypeOK, Gates
<1>6. ASSUME NEW c \in Callers, NEW result, After(c, result) PROVE TypeOK'
  <2>1. PICK g \in Gates, o \in Saves, p \in Saves :
          /\ RecordRateLimit(g, o) \/ Complete(g, o)
          /\ Probed(c, result, p)
          /\ faults' \in 0..MaxFaults
    BY <1>1, <1>6, AfterEffect
  <2>2. gate' \in Gates /\ gateDisk' \in Records /\ seen' \in Times
    BY <1>1, <2>1, RecordRateLimitTyped, CompleteTyped
  <2>3. probe' \in Probes /\ probeDisk' \in Records  BY <1>1, <2>1, ProbedTyped
  <2> QED BY <1>1, <1>6, <2>1, <2>2, <2>3 DEF After, TypeOK, Gates, Times, Probes
<1>7. CASE CheckRegistrationAccess
  <2> DEFINE commit == [probe EXCEPT !.next = NextProbe(0, FALSE)]
  <2>1. PICK o \in Saves :
          /\ Spend(Cost(o)) /\ probe' = commit /\ probeDisk' = Saved(o, probeDisk, commit)
          /\ \/ UNCHANGED <<caller, seen>>
             \/ /\ caller' = [caller EXCEPT ![Prober] = "waiting"]
                /\ seen' = [seen EXCEPT !.probeAfter = Formatted(now + FailureInterval)]
    BY <1>7 DEF CheckRegistrationAccess
  <2>2. faults' \in 0..MaxFaults  BY <1>1, <2>1, CostTyped, SpendTyped
  <2>3. NextProbe(0, FALSE) \in Nat  BY <1>1, DelayAssumption DEF NextProbe
  <2>4. commit \in Probes  BY <1>1, <2>3 DEF Probes
  <2> HIDE DEF commit
  <2>5. probeDisk' \in Records  BY <1>1, <2>1, <2>4, SavedTyped DEF Probes, TypeOK
  <2>6. Formatted(now + FailureInterval) \in Nat  BY <1>1, DelayAssumption, FormattedTyped
  <2>7. seen' \in Times  BY <1>1, <2>1, <2>6 DEF Times
  <2>8. caller' \in [Callers -> {"idle", "waiting", "slot", "calling"}]
    BY <1>1, <2>1 DEF TypeOK
  <2>9. UNCHANGED <<now, up, gate, gateDisk, crashes>>
    BY <1>7 DEF CheckRegistrationAccess
  <2> QED BY <1>1, <2>1, <2>2, <2>4, <2>5, <2>7, <2>8, <2>9 DEF TypeOK, Times, Probes
<1>8. CASE Observe
  <2>1. PICK o \in Saves : Spend(Cost(o)) /\ RecordRateLimit(gate, o)  BY <1>8 DEF Observe
  <2>2. faults' \in 0..MaxFaults  BY <1>1, <2>1, CostTyped, SpendTyped
  <2>3. gate' \in Gates /\ gateDisk' \in Records /\ seen' \in Times
    BY <1>1, <2>1, RecordRateLimitTyped
  <2> QED BY <1>1, <1>8, <2>2, <2>3 DEF Observe, TypeOK, Gates, Times
<1>9. CASE Crash
  <2>1. NewGate \in Gates  BY BoundsAssumption DEF NewGate, Gates
  <2>2. crashes' \in 0..MaxCrashes  BY <1>1, <1>9, BoundsAssumption DEF Crash, TypeOK
  <2>3. probe' \in Probes  BY <1>9, BoundsAssumption DEF Crash, Probes
  <2>4. caller' \in [Callers -> {"idle", "waiting", "slot", "calling"}]  BY <1>9 DEF Crash
  <2>5. gate' = NewGate /\ up' = FALSE /\ UNCHANGED <<now, gateDisk, probeDisk, faults, seen>>
    BY <1>9 DEF Crash
  <2> QED BY <1>1, <2>1, <2>2, <2>3, <2>4, <2>5 DEF TypeOK, Gates, Probes
<1>10. CASE Load
  <2>1. gate = NewGate /\ (~gateDisk.kept => gateDisk = NoRecord)
    BY <1>10 DEF Load, Counted, Guarding
  <2>2. /\ gate' \in Gates /\ gateDisk' \in Records /\ up' \in BOOLEAN
        /\ probe' \in Probes /\ faults' \in 0..MaxFaults
    BY <1>1, <1>10, <2>1, LoadEffect
  <2>3. seen' = [seen EXCEPT !.cooldown = Formatted(seen.saved), !.left = gateDisk.kept]
    BY <1>10 DEF Load
  <2>4. seen.saved \in Nat /\ gateDisk.kept \in BOOLEAN  BY <1>1 DEF Times, Records
  <2>5. seen' \in Times  BY <1>1, <2>3, <2>4, FormattedTyped DEF Times
  <2>6. UNCHANGED <<now, caller, probeDisk, crashes>>  BY <1>10 DEF Load
  <2> QED BY <1>1, <2>2, <2>5, <2>6 DEF TypeOK, Gates, Times, Probes
<1>11. CASE LoadOther
  <2>1. probe' \in Probes  BY <1>1, <1>11, LoadProbeTyped DEF LoadOther
  <2>2. seen' \in Times  BY <1>1, <1>11 DEF LoadOther, Times
  <2> QED BY <1>1, <1>11, <2>1, <2>2 DEF LoadOther, TypeOK, Times, Probes
<1>12. CASE Tick  BY <1>1, <1>12 DEF Tick, TypeOK
<1> QED BY <1>2, <1>3, <1>4, <1>5, <1>6, <1>7, <1>8, <1>9, <1>10, <1>11, <1>12 DEF Next


-----------------------------------------------------------------------------
(* Calls in flight.                                                        *)

(* The goroutines are finitely many, and so are those that call. *)
LEMMA CallingFinite == IsFiniteSet(Calling) /\ Cardinality(Calling) \in Nat
  BY CallersAssumption, FS_Subset, FS_CardinalityType DEF Calling

(* A caller that starts calling adds one, one that stops takes one off. *)
LEMMA CallingChanges ==
  ASSUME NEW c
  PROVE  /\ Calling' = Calling \cup {c} /\ c \notin Calling =>
              Cardinality(Calling') = Cardinality(Calling) + 1
         /\ Calling' = Calling \ {c} /\ c \in Calling =>
              Cardinality(Calling') = Cardinality(Calling) - 1 /\ Cardinality(Calling) > 0
<1>1. CASE Calling' = Calling \cup {c} /\ c \notin Calling
  BY <1>1, CallingFinite, FS_AddElement
<1>2. CASE Calling' = Calling \ {c} /\ c \in Calling
  <2>1. Cardinality(Calling') = Cardinality(Calling) - 1
    BY <1>2, CallingFinite, FS_RemoveElement
  <2>2. Cardinality(Calling) # 0  BY <1>2, CallingFinite, FS_EmptySet
  <2> QED BY <1>2, <2>1, <2>2, CallingFinite
<1> QED BY <1>1, <1>2

(* The gate counts its calls, and a process that is down makes none. *)
LEMMA CountedStep ==
  ASSUME GateInv, Next
  PROVE  Counted'
<1>1. /\ TypeOK /\ gate \in Gates
      /\ gate.inFlight = Cardinality(Calling) /\ gate.inFlight \in Nat
  BY DEF GateInv, TypeOK, Gates, Counted, InFlightCounted
<1>2. \A c \in Callers : caller[c] # "idle" => up  BY DEF GateInv, Counted
<1>3. ASSUME NEW c \in Callers, TakeSlot(c) PROVE Counted'
  <2>1. /\ caller' = [caller EXCEPT ![c] = "slot"] /\ caller[c] # "calling"
        /\ gate' = gate /\ up' = up /\ up
    BY <1>3 DEF TakeSlot
  <2>2. Calling' = Calling  BY <1>1, <2>1 DEF Calling, TypeOK
  <2> QED BY <1>1, <2>1, <2>2 DEF Counted, InFlightCounted
<1>4. ASSUME NEW c \in Callers, TurnAway(c) PROVE Counted'
  <2>1. /\ caller' = [caller EXCEPT ![c] = "idle"] /\ caller[c] \in {"waiting", "slot"}
        /\ gate' = gate /\ up' = up
    BY <1>4 DEF TurnAway
  <2>2. Calling' = Calling  BY <1>1, <2>1 DEF Calling, TypeOK
  <2>3. up  BY <1>2, <2>1
  <2> QED BY <1>1, <2>1, <2>2, <2>3 DEF Counted, InFlightCounted
<1>5. ASSUME NEW c \in Callers, Begin(c) PROVE Counted'
  <2>1. PICK o \in Saves :
          /\ gate' = [Guarded EXCEPT !.inFlight = IF o = "ok" THEN 1 ELSE 0]
          /\ caller' = [caller EXCEPT ![c] = IF o = "ok" THEN "calling" ELSE "idle"]
    BY <1>5 DEF Begin
  <2>2. caller[c] = "slot" /\ gate.inFlight = 0 /\ up' = up  BY <1>5 DEF Begin
  <2>3. gate'.inFlight = IF o = "ok" THEN 1 ELSE 0  BY <1>1, <2>1, GuardedTyped
  <2>4. Cardinality(Calling') = IF o = "ok" THEN 1 ELSE 0
    <3>1. c \notin Calling /\ Calling' = IF o = "ok" THEN Calling \cup {c} ELSE Calling
      BY <1>1, <2>1, <2>2 DEF Calling, TypeOK
    <3>2. Cardinality(Calling) = 0  BY <1>1, <2>2
    <3>3. CASE o = "ok"
      <4>1. Calling' = Calling \cup {c}  BY <3>1, <3>3
      <4>2. Cardinality(Calling') = Cardinality(Calling) + 1  BY <3>1, <4>1, CallingChanges
      <4> QED BY <3>3, <3>2, <4>2
    <3>4. CASE o # "ok"
      <4>1. Calling' = Calling  BY <3>1, <3>4
      <4> QED BY <3>4, <3>2, <4>1
    <3> QED BY <3>3, <3>4
  <2>5. up  BY <1>2, <2>2
  <2> QED BY <2>2, <2>3, <2>4, <2>5 DEF Counted, InFlightCounted
<1>6. ASSUME NEW c \in Callers, Join(c) PROVE Counted'
  <2>1. /\ caller' = [caller EXCEPT ![c] = "calling"] /\ caller[c] = "slot"
        /\ gate' = [gate EXCEPT !.inFlight = gate.inFlight + 1] /\ up' = up
    BY <1>1, <1>6 DEF Join, Gates
  <2>2. gate'.inFlight = gate.inFlight + 1  BY <1>1, <2>1 DEF Gates
  <2>3. Cardinality(Calling') = Cardinality(Calling) + 1
    <3>1. c \notin Calling /\ Calling' = Calling \cup {c}
      BY <1>1, <2>1 DEF Calling, TypeOK
    <3> QED BY <3>1, CallingChanges
  <2>4. up  BY <1>2, <2>1
  <2> QED BY <1>1, <2>1, <2>2, <2>3, <2>4 DEF Counted, InFlightCounted
<1>7. ASSUME NEW c \in Callers, NEW result, After(c, result) PROVE Counted'
  <2>1. PICK g \in Gates, o \in Saves :
          /\ g.inFlight = IF gate.inFlight > 0 THEN gate.inFlight - 1 ELSE 0
          /\ RecordRateLimit(g, o) \/ Complete(g, o)
    BY <1>1, <1>7, AfterEffect
  <2>2. /\ caller' = [caller EXCEPT ![c] = "idle"] /\ caller[c] = "calling" /\ up' = up
    BY <1>7 DEF After
  <2>3. gate'.inFlight = g.inFlight  BY <1>1, <2>1, RecordRateLimitTyped, CompleteTyped
  <2>4. Cardinality(Calling') = Cardinality(Calling) - 1 /\ Cardinality(Calling) > 0
    <3>1. c \in Calling /\ Calling' = Calling \ {c}  BY <1>1, <2>2 DEF Calling, TypeOK
    <3> QED BY <3>1, CallingChanges
  <2>5. up  BY <1>2, <2>2
  <2> QED BY <1>1, <2>1, <2>2, <2>3, <2>4, <2>5 DEF Counted, InFlightCounted
<1>8. CASE CheckRegistrationAccess
  <2>1. /\ caller' = caller \/ caller' = [caller EXCEPT ![Prober] = "waiting"]
        /\ caller[Prober] = "idle" /\ gate' = gate /\ up /\ up' = up
    BY <1>8 DEF CheckRegistrationAccess
  <2>2. Calling' = Calling
    <3>1. CASE caller' = caller  BY <3>1 DEF Calling
    <3>2. CASE caller' = [caller EXCEPT ![Prober] = "waiting"]
      BY <1>1, <2>1, <3>2 DEF Calling, TypeOK
    <3> QED BY <2>1, <3>1, <3>2
  <2> QED BY <1>1, <2>1, <2>2 DEF Counted, InFlightCounted
<1>9. CASE Observe
  <2>1. PICK o \in Saves : RecordRateLimit(gate, o)  BY <1>9 DEF Observe
  <2>2. gate'.inFlight = gate.inFlight  BY <1>1, <2>1, RecordRateLimitTyped
  <2>3. up /\ up' = up /\ caller' = caller  BY <1>9 DEF Observe
  <2>4. Calling' = Calling  BY <2>3 DEF Calling
  <2> QED BY <1>1, <2>2, <2>3, <2>4 DEF Counted, InFlightCounted
<1>10. CASE Crash
  <2>1. gate' = NewGate /\ \A c \in Callers : caller'[c] = "idle"  BY <1>10 DEF Crash
  <2>2. Calling' = {}  BY <2>1 DEF Calling
  <2>3. gate'.inFlight = 0  BY <2>1 DEF NewGate
  <2> QED BY <2>1, <2>2, <2>3, FS_EmptySet DEF Counted, InFlightCounted
<1>11. CASE Load
  <2>1. ~up /\ caller' = caller  BY <1>11 DEF Load
  <2>2. gate = NewGate /\ (~gateDisk.kept => gateDisk = NoRecord)
    BY <2>1 DEF GateInv, Counted, Guarding
  <2>3. gate'.inFlight = 0 /\ (~up' => gate' = NewGate)  BY <1>1, <1>11, <2>2, LoadEffect
  <2>4. Calling' = Calling /\ gate.inFlight = 0  BY <2>1, <2>2 DEF Calling, NewGate
  <2> QED BY <1>1, <2>1, <2>3, <2>4 DEF GateInv, Counted, InFlightCounted
<1>12. CASE LoadOther
  <2>1. up' /\ caller' = caller /\ gate' = gate  BY <1>12 DEF LoadOther
  <2>2. Calling' = Calling  BY <2>1 DEF Calling
  <2> QED BY <1>1, <2>1, <2>2 DEF Counted, InFlightCounted
<1>13. CASE Tick
  <2>1. caller' = caller /\ gate' = gate /\ up' = up  BY <1>13 DEF Tick
  <2>2. Calling' = Calling  BY <2>1 DEF Calling
  <2> QED BY <1>1, <2>1, <2>2 DEF GateInv, Counted, InFlightCounted
<1> QED BY <1>3, <1>4, <1>5, <1>6, <1>7, <1>8, <1>9, <1>10, <1>11, <1>12, <1>13 DEF Next


-----------------------------------------------------------------------------
(* Cooldowns.                                                              *)

(* A step that leaves the cooldown's traces alone keeps it. *)
LEMMA SameCooling ==
  ASSUME Cooling, now' = now, up' => up,
         seen'.cooldown = seen.cooldown, seen'.saved = seen.saved, gateDisk' = gateDisk,
         up' => /\ gate'.rateLimited = gate.rateLimited /\ gate'.next = gate.next
                /\ gate'.failures = gate.failures
  PROVE  Cooling'
  BY DEF Cooling, Formatted

(* A step of a gate that is not cooling down, which leaves the last deadlines *)
(* in the past.                                                               *)
LEMMA CooledOff ==
  ASSUME NEW t, t = now', ~(t < seen'.cooldown), ~(t < Formatted(seen'.saved))
  PROVE  Cooling'
  BY DEF Cooling, Formatted

(* A rate limit never shortens a cooldown, saved or not. *)
LEMMA RateLimitCools ==
  ASSUME TypeOK, Cooling, up, NEW g \in Gates, g.failures = gate.failures,
         NEW o \in Saves, RecordRateLimit(g, o), now' = now, up' = up
  PROVE  Cooling'
<1> DEFINE f == Capped(gate.failures)
           n == now + RateLimitDelay[f]
<1>1. /\ gate'.rateLimited /\ gate'.failures = f /\ gate'.next = n
      /\ gateDisk' = Saved(o, gateDisk, gate') /\ gate' \in Gates
      /\ seen'.cooldown = n
      /\ seen'.saved = IF o = "failed" THEN seen.saved ELSE n
  BY RecordRateLimitTyped
<1>2. gate.failures \in 0..MaxFailures /\ now \in Nat /\ seen.saved \in Nat
  BY DEF TypeOK
<1>3. /\ f \in 1..MaxFailures /\ RateLimitDelay[f] \in Nat
      /\ gate.failures > 0 => /\ RateLimitDelay[gate.failures] \in Nat
                              /\ RateLimitDelay[gate.failures] <= RateLimitDelay[f]
  BY <1>2, CappedTyped
<1> HIDE DEF f
<1>4. n \in Nat /\ f > 0  BY <1>2, <1>3
<1>5. Formatted(n) \in Nat /\ Formatted(n) <= n  BY <1>4, FormattedTyped
<1>6. Formatted(seen.saved) \in Nat /\ Formatted(seen.saved) <= seen.saved
  BY <1>2, FormattedTyped
<1>7. CASE o # "failed"
  <2>1. gateDisk'.kept /\ gateDisk'.failures = f /\ gateDisk'.next = Formatted(n)
    BY <1>1, <1>7, SavedTyped DEF Gates, TypeOK
  <2>2. seen'.saved = n /\ n <= now + RateLimitDelay[f]  BY <1>1, <1>4, <1>7
  <2>3. Formatted(seen'.saved) = Formatted(n)  BY <2>2
  <2> HIDE DEF n
  <2> QED BY <1>1, <1>2, <1>4, <1>5, <2>1, <2>2, <2>3 DEF Cooling, Formatted
<1>8. CASE o = "failed"
  <2>1. gateDisk' = gateDisk /\ seen'.saved = seen.saved
    BY <1>1, <1>8, SavedTyped DEF Gates, TypeOK
  <2>2. now < Formatted(seen.saved) =>
          /\ gate.failures > 0 /\ seen.saved <= now + RateLimitDelay[gate.failures]
          /\ gateDisk.kept /\ gateDisk.failures > 0
          /\ gateDisk.next >= Formatted(seen.saved)
          /\ seen.saved <= now + RateLimitDelay[gateDisk.failures]
    BY DEF Cooling
  <2>3. now < Formatted(seen.saved) => seen.saved <= n  BY <1>2, <1>3, <2>2
  <2>4. Formatted(seen'.saved) = Formatted(seen.saved)  BY <2>1
  <2>5. now < Formatted(seen.saved) => n >= Formatted(seen.saved) /\ seen.saved <= n
    BY <1>2, <1>4, <1>6, <2>3
  <2>6. gate'.next = n /\ seen'.cooldown = n /\ n = now + RateLimitDelay[gate'.failures]
    BY <1>1
  <2> HIDE DEF n
  <2> QED BY <1>1, <1>4, <2>1, <2>2, <2>4, <2>5, <2>6 DEF Cooling, Formatted
<1> QED BY <1>7, <1>8


(* A running gate that holds nobody back is not cooling down. *)
LEMMA NotCooling ==
  ASSUME TypeOK, Cooling, up, ~gate.rateLimited \/ now >= gate.next
  PROVE  ~(now < seen.cooldown) /\ ~(now < Formatted(seen.saved))
<1>1. /\ now \in Nat /\ gate.next \in Nat /\ seen.cooldown \in Nat /\ seen.saved \in Nat
  BY DEF TypeOK
<1>2. Formatted(seen.saved) \in Nat  BY <1>1, FormattedTyped
<1> QED BY <1>1, <1>2 DEF Cooling

(* Cooldowns are held. *)
LEMMA CoolingStep ==
  ASSUME GateInv, Next
  PROVE  Cooling'
<1>1. /\ TypeOK /\ Cooling /\ gate \in Gates /\ seen \in Times /\ now \in Nat
      /\ gateDisk \in Records
  BY DEF GateInv, TypeOK, Gates, Times
<1>2. \A c \in Callers : caller[c] # "idle" => up  BY DEF GateInv, Counted
<1>3. ASSUME NEW c \in Callers, TakeSlot(c) \/ TurnAway(c) PROVE Cooling'
  BY <1>1, <1>3, SameCooling DEF TakeSlot, TurnAway
<1>4. ASSUME NEW c \in Callers, Begin(c) PROVE Cooling'
  <2>1. up /\ now >= gate.next /\ now' = now
    BY <1>1, <1>2, <1>4 DEF Begin, Waits, Gates
  <2>2. PICK o \in Saves : seen' = [seen EXCEPT !.since = now, !.left = (o # "ok")]
    BY <1>4 DEF Begin
  <2>3. seen'.cooldown = seen.cooldown /\ seen'.saved = seen.saved  BY <1>1, <2>2 DEF Times
  <2>4. ~(now < seen.cooldown) /\ ~(now < Formatted(seen.saved))  BY <1>1, <2>1, NotCooling
  <2> QED BY <2>1, <2>3, <2>4, CooledOff
<1>5. ASSUME NEW c \in Callers, Join(c) PROVE Cooling'
  <2>1. /\ gate'.rateLimited = gate.rateLimited /\ gate'.next = gate.next
        /\ gate'.failures = gate.failures
    BY <1>1, <1>5 DEF Join, Gates
  <2> QED BY <1>1, <1>5, <2>1, SameCooling DEF Join
<1>6. ASSUME NEW c \in Callers, NEW result, After(c, result) PROVE Cooling'
  <2>1. PICK g \in Gates, o \in Saves :
          /\ g.rateLimited = gate.rateLimited /\ g.failures = gate.failures
          /\ g.next = gate.next
          /\ RecordRateLimit(g, o) \/ Complete(g, o)
    BY <1>1, <1>6, AfterEffect
  <2>2. up /\ now' = now /\ up' = up  BY <1>2, <1>6 DEF After
  <2>3. CASE RecordRateLimit(g, o)  BY <1>1, <2>1, <2>2, <2>3, RateLimitCools
  <2>4. CASE Complete(g, o)
    <3>1. /\ gate' = g \/ ~gate.rateLimited
          /\ gateDisk' = gateDisk \/ ~gate.rateLimited
          /\ seen'.cooldown = seen.cooldown /\ seen'.saved = seen.saved
      BY <1>1, <2>1, <2>4, CompleteTyped
    <3>2. CASE gate' = g /\ gateDisk' = gateDisk
      BY <1>1, <2>1, <2>2, <3>1, <3>2, SameCooling
    <3>3. CASE ~gate.rateLimited
      <4>1. ~(now < seen.cooldown) /\ ~(now < Formatted(seen.saved))
        BY <1>1, <2>2, <3>3, NotCooling
      <4> QED BY <2>2, <3>1, <4>1, CooledOff
    <3> QED BY <3>1, <3>2, <3>3
  <2> QED BY <2>1, <2>3, <2>4
<1>7. CASE CheckRegistrationAccess
  <2>1. seen' = seen \/ seen' = [seen EXCEPT !.probeAfter = Formatted(now + FailureInterval)]
    BY <1>7 DEF CheckRegistrationAccess
  <2>2. seen'.cooldown = seen.cooldown /\ seen'.saved = seen.saved  BY <1>1, <2>1 DEF Times
  <2> QED BY <1>1, <1>7, <2>2, SameCooling DEF CheckRegistrationAccess
<1>8. CASE Observe
  <2>1. PICK o \in Saves : RecordRateLimit(gate, o)  BY <1>8 DEF Observe
  <2>2. up /\ now' = now /\ up' = up  BY <1>8 DEF Observe
  <2> QED BY <1>1, <2>1, <2>2, RateLimitCools
<1>9. CASE Crash  BY <1>1, <1>9, SameCooling DEF Crash
<1>10. CASE Load
  <2>1. gate = NewGate /\ (~gateDisk.kept => gateDisk = NoRecord)
    BY <1>10 DEF GateInv, Load, Counted, Guarding
  <2>2. now' = now /\ seen' = [seen EXCEPT !.cooldown = Formatted(seen.saved),
                                           !.left = gateDisk.kept]
    BY <1>10 DEF Load
  <2>3. seen'.cooldown = Formatted(seen.saved) /\ seen'.saved = seen.saved
    BY <1>1, <2>2 DEF Times
  <2>4. CASE ~(now < Formatted(seen.saved))  BY <2>2, <2>3, <2>4, CooledOff
  <2>5. CASE now < Formatted(seen.saved)
    <3>1. /\ gateDisk.kept /\ gateDisk.failures > 0
          /\ gateDisk.next >= Formatted(seen.saved)
          /\ seen.saved <= now + RateLimitDelay[gateDisk.failures]
      BY <1>1, <2>5 DEF Cooling
    <3>2. /\ gateDisk' = gateDisk
          /\ up' => /\ gate'.rateLimited /\ gate'.failures = gateDisk.failures
                    /\ gate'.next = gateDisk.next
      BY <1>1, <1>10, <2>1, <3>1, LoadEffect
    <3>3. Formatted(seen'.saved) = Formatted(seen.saved)  BY <2>3
    <3> QED BY <2>2, <2>3, <3>1, <3>2, <3>3 DEF Cooling, Formatted
  <2> QED BY <2>4, <2>5
<1>11. CASE LoadOther
  <2>1. now' = now /\ seen'.cooldown = 0 /\ seen'.saved = 0
    BY <1>1, <1>11 DEF LoadOther, Times
  <2>2. Formatted(0) \in Nat /\ Formatted(0) <= 0  BY FormattedTyped
  <2>3. ~(now < 0) /\ ~(now < Formatted(0))  BY <1>1, <2>2
  <2> QED BY <2>1, <2>3, CooledOff
<1>12. CASE Tick
  <2>1. now' = now + 1 /\ UNCHANGED <<up, gate, gateDisk, seen>>  BY <1>12 DEF Tick
  <2>2. seen.cooldown \in Nat /\ seen.saved \in Nat /\ Formatted(seen.saved) \in Nat
    BY <1>1, FormattedTyped DEF Times
  <2>3. \A t : (now' < t /\ t \in Nat) => now < t  BY <1>1, <2>1
  <2>4. /\ gate.failures > 0 => RateLimitDelay[gate.failures] \in Nat
        /\ gateDisk.failures > 0 => RateLimitDelay[gateDisk.failures] \in Nat
    BY <1>1, DelayAssumption DEF Gates, Records
  <2>5. \A d \in Nat : seen.saved <= now + d => seen.saved <= now' + d
    BY <1>1, <2>1, <2>2
  <2>6. Formatted(seen'.saved) = Formatted(seen.saved)  BY <2>1
  <2>7. /\ up' /\ now' < seen'.cooldown => gate'.rateLimited /\ gate'.next >= seen'.cooldown
    BY <1>1, <2>1, <2>2, <2>3 DEF Cooling
  <2>8. /\ up' /\ now' < Formatted(seen'.saved) =>
             /\ gate'.rateLimited /\ gate'.next >= Formatted(seen'.saved)
             /\ gate'.failures > 0 /\ seen'.saved <= now' + RateLimitDelay[gate'.failures]
        /\ now' < Formatted(seen'.saved) =>
             /\ gateDisk'.kept /\ gateDisk'.failures > 0
             /\ gateDisk'.next >= Formatted(seen'.saved)
             /\ seen'.saved <= now' + RateLimitDelay[gateDisk'.failures]
    BY <1>1, <2>1, <2>2, <2>3, <2>4, <2>5, <2>6 DEF Cooling
  <2> QED BY <2>7, <2>8 DEF Cooling, Formatted
<1> QED BY <1>3, <1>4, <1>5, <1>6, <1>7, <1>8, <1>9, <1>10, <1>11, <1>12 DEF Next


-----------------------------------------------------------------------------
(* The crash guard.                                                        *)

(* Leaving calls and the disk alone keeps the guard on disk. *)
LEMMA SameGuard ==
  ASSUME CrashGuardOnDisk, Calling' \subseteq Calling, gateDisk' = gateDisk,
         seen'.since = seen.since
  PROVE  CrashGuardOnDisk'
  BY DEF CrashGuardOnDisk, Formatted

(* A cooldown reaches at least as far as the guard it replaces. *)
LEMMA RateLimitGuards ==
  ASSUME TypeOK, Guarding, NEW g \in Gates, NEW o \in Saves, RecordRateLimit(g, o),
         Calling' \subseteq Calling, now' = now
  PROVE  Guarding'
<1> DEFINE f == Capped(g.failures)
           n == now + RateLimitDelay[f]
<1>1. /\ gate'.rateLimited /\ gate'.next = n /\ gate' \in Gates
      /\ gateDisk' = Saved(o, gateDisk, gate')
      /\ seen'.since = seen.since
  BY RecordRateLimitTyped
<1>2. now \in Nat /\ seen.since \in Nat /\ g.failures \in 0..MaxFailures
  BY DEF TypeOK, Gates
<1>3. RateLimitDelay[f] \in Nat /\ CrashRetryDelay <= RateLimitDelay[f]
  BY <1>2, CappedTyped, DelayAssumption
<1> HIDE DEF f
<1>4. /\ n \in Nat /\ seen.since + CrashRetryDelay \in Nat
      /\ seen.since + CrashRetryDelay <= n
  BY <1>2, <1>3, DelayAssumption DEF Guarding
<1>5. Formatted(seen.since + CrashRetryDelay) <= Formatted(n)  BY <1>4, FormattedMonotone
<1>6. CASE o # "failed"
  <2>1. gateDisk'.kept /\ gateDisk'.next = Formatted(n)
    BY <1>1, <1>6, SavedTyped DEF Gates, TypeOK
  <2>2. Formatted(seen'.since + CrashRetryDelay) <= Formatted(n)  BY <1>1, <1>5
  <2>3. Formatted(n) \in Nat /\ Formatted(seen'.since + CrashRetryDelay) \in Nat
    BY <1>1, <1>4, FormattedTyped
  <2> HIDE DEF n
  <2>4. gateDisk'.next >= Formatted(seen'.since + CrashRetryDelay)  BY <2>1, <2>2, <2>3
  <2> QED BY <1>1, <2>1, <2>4
          DEF Guarding, CrashGuardOnDisk, GuardShort, QuietGateOpen, Formatted
<1>7. CASE o = "failed"
  <2>1. gateDisk' = gateDisk  BY <1>1, <1>7, SavedTyped DEF Gates, TypeOK
  <2>2. CrashGuardOnDisk'  BY <1>1, <2>1, SameGuard DEF Guarding
  <2> QED BY <1>1, <2>1, <2>2 DEF Guarding, GuardShort, QuietGateOpen
<1> QED BY <1>6, <1>7

(* The guard is on disk while calls are in flight, never reaches far, and *)
(* nothing is left of it when nothing happened.                           *)
LEMMA GuardingStep ==
  ASSUME GateInv, Next
  PROVE  Guarding'
<1>1. /\ TypeOK /\ Guarding /\ gate \in Gates /\ seen \in Times /\ now \in Nat
      /\ gateDisk \in Records /\ CrashGuardOnDisk
  BY DEF GateInv, TypeOK, Gates, Times, Guarding
<1>2. \A c \in Callers : caller[c] # "idle" => up  BY DEF GateInv, Counted
<1>3. ~up => Calling = {} /\ gate = NewGate  BY DEF GateInv, Counted, Calling
<1>4. ASSUME Calling' \subseteq Calling,
             UNCHANGED <<now, up, gate, gateDisk>>, seen'.since = seen.since,
             seen'.left = seen.left
      PROVE  Guarding'
  <2>1. CrashGuardOnDisk'  BY <1>1, <1>4, SameGuard
  <2> QED BY <1>1, <1>4, <2>1 DEF Guarding, GuardShort, QuietGateOpen
<1>5. ASSUME NEW c \in Callers, TakeSlot(c) PROVE Guarding'
  <2>1. Calling' \subseteq Calling  BY <1>1, <1>5 DEF TakeSlot, Calling, TypeOK
  <2> QED BY <1>4, <1>5, <2>1 DEF TakeSlot
<1>6. ASSUME NEW c \in Callers, TurnAway(c) PROVE Guarding'
  <2>1. Calling' \subseteq Calling  BY <1>1, <1>6 DEF TurnAway, Calling, TypeOK
  <2> QED BY <1>4, <1>6, <2>1 DEF TurnAway
<1>7. ASSUME NEW c \in Callers, Begin(c) PROVE Guarding'
  <2>1. PICK o \in Saves :
          /\ gate' = [Guarded EXCEPT !.inFlight = IF o = "ok" THEN 1 ELSE 0]
          /\ gateDisk' = Saved(o, gateDisk, Guarded)
          /\ seen' = [seen EXCEPT !.since = now, !.left = (o # "ok")]
          /\ caller' = [caller EXCEPT ![c] = IF o = "ok" THEN "calling" ELSE "idle"]
    BY <1>7 DEF Begin
  <2>2. caller[c] = "slot" /\ gate.inFlight = 0 /\ now' = now /\ up' = up  BY <1>7 DEF Begin
  <2>3. /\ gate'.inFlight = IF o = "ok" THEN 1 ELSE 0
        /\ ~gate'.rateLimited /\ gate'.next = now + CrashRetryDelay
        /\ Guarded.failures = gate.failures /\ Guarded.next = now + CrashRetryDelay
    BY <1>1, <2>1, GuardedTyped
  <2>4. now + CrashRetryDelay \in Nat /\ gate.failures \in 0..MaxFailures
    BY <1>1, DelayAssumption DEF Gates
  <2>5. /\ o # "failed" => gateDisk'.kept /\ gateDisk'.next = Formatted(now + CrashRetryDelay)
        /\ o = "failed" => gateDisk' = gateDisk
    BY <1>1, <2>1, <2>3, <2>4, SavedTyped
  <2>6. seen'.since = now  BY <1>1, <2>1 DEF Times
  <2>7. o # "ok" => seen'.left  BY <1>1, <2>1 DEF Times
  <2>8. CrashGuardOnDisk'
    <3>1. CASE o = "ok"
      <4>1. Formatted(seen'.since + CrashRetryDelay) = Formatted(now + CrashRetryDelay)
        BY <2>6
      <4>2. Formatted(now + CrashRetryDelay) \in Nat  BY <2>4, FormattedTyped
      <4> QED BY <2>5, <3>1, <4>1, <4>2 DEF CrashGuardOnDisk, Formatted
    <3>2. CASE o # "ok"
      <4>1. Calling = {}
        <5>1. Cardinality(Calling) = 0  BY <2>2 DEF GateInv, Counted, InFlightCounted
        <5> QED BY <5>1, CallingFinite, FS_EmptySet
      <4>2. Calling' = {}  BY <1>1, <2>1, <3>2, <4>1 DEF Calling, TypeOK
      <4> QED BY <4>2 DEF CrashGuardOnDisk
    <3> QED BY <3>1, <3>2
  <2>9. ~gateDisk'.kept => gateDisk' = NoRecord  BY <1>1, <2>5 DEF Guarding
  <2>10. GuardShort'  BY <2>2, <2>3, <2>4 DEF GuardShort
  <2>11. QuietGateOpen'  BY <2>3, <2>7 DEF QuietGateOpen
  <2>12. seen'.since <= now'  BY <1>1, <2>2, <2>6
  <2> QED BY <2>8, <2>9, <2>10, <2>11, <2>12 DEF Guarding
<1>8. ASSUME NEW c \in Callers, Join(c) PROVE Guarding'
  <2>1. /\ gate' = [gate EXCEPT !.inFlight = gate.inFlight + 1] /\ gate.inFlight > 0
        /\ UNCHANGED <<now, up, gateDisk, seen>>
    BY <1>1, <1>8 DEF Join, Gates
  <2>2. gate'.rateLimited = gate.rateLimited /\ gate'.next = gate.next /\ gate'.inFlight > 0
    BY <1>1, <2>1 DEF Gates
  <2>3. Calling # {}
    <3>1. Cardinality(Calling) # 0  BY <2>1 DEF GateInv, Counted, InFlightCounted
    <3> QED BY <3>1, FS_EmptySet
  <2>4. CrashGuardOnDisk'  BY <1>1, <2>1, <2>3 DEF CrashGuardOnDisk, Formatted
  <2> QED BY <1>1, <2>1, <2>2, <2>4 DEF Guarding, GuardShort, QuietGateOpen
<1>9. ASSUME NEW c \in Callers, NEW result, After(c, result) PROVE Guarding'
  <2>1. PICK g \in Gates, o \in Saves :
          /\ g.rateLimited = gate.rateLimited /\ g.next = gate.next
          /\ RecordRateLimit(g, o) \/ Complete(g, o)
    BY <1>1, <1>9, AfterEffect
  <2>2. now' = now /\ up' = up /\ Calling' \subseteq Calling
    BY <1>1, <1>9 DEF After, Calling, TypeOK
  <2>3. CASE RecordRateLimit(g, o)  BY <1>1, <2>1, <2>2, <2>3, RateLimitGuards
  <2>4. CASE Complete(g, o)
    <3>1. /\ gate'.inFlight = g.inFlight
          /\ gate' = g \/ (gate' = NewGate /\ ~g.rateLimited)
          /\ gateDisk' = gateDisk \/ (gateDisk' = NoRecord /\ g.inFlight = 0)
          /\ g.inFlight = 0 /\ ~g.rateLimited => gate' = NewGate \/ seen'.left
          /\ seen'.since = seen.since
      BY <1>1, <2>1, <2>4, CompleteTyped
    <3>2. CrashGuardOnDisk'
      <4>1. CASE gateDisk' = gateDisk  BY <1>1, <2>2, <3>1, <4>1, SameGuard
      <4>2. CASE g.inFlight = 0
        <5>1. Counted'  BY CountedStep
        <5>2. Cardinality(Calling') = 0  BY <3>1, <4>2, <5>1 DEF Counted, InFlightCounted
        <5>3. IsFiniteSet(Calling')
          BY <2>2, CallingFinite, FS_Subset
        <5>4. Calling' = {}  BY <5>2, <5>3, FS_EmptySet
        <5> QED BY <5>4 DEF CrashGuardOnDisk
      <4> QED BY <3>1, <4>1, <4>2
    <3>3. NewGate.next = 0 /\ 0 <= now + CrashRetryDelay /\ ~(now < 0)
      BY <1>1, DelayAssumption DEF NewGate
    <3>4. GuardShort'  BY <1>1, <2>1, <2>2, <3>1, <3>3 DEF GuardShort, Guarding
    <3>5. QuietGateOpen'  BY <2>2, <3>1, <3>3 DEF QuietGateOpen
    <3> QED BY <1>1, <2>2, <3>1, <3>2, <3>4, <3>5 DEF Guarding
  <2> QED BY <2>1, <2>3, <2>4
<1>10. CASE CheckRegistrationAccess
  <2>1. seen' = seen \/ seen' = [seen EXCEPT !.probeAfter = Formatted(now + FailureInterval)]
    BY <1>10 DEF CheckRegistrationAccess
  <2>2. seen'.since = seen.since /\ seen'.left = seen.left  BY <1>1, <2>1 DEF Times
  <2>3. Calling' \subseteq Calling
    BY <1>1, <1>10 DEF CheckRegistrationAccess, Calling, TypeOK
  <2> QED BY <1>4, <1>10, <2>2, <2>3 DEF CheckRegistrationAccess
<1>11. CASE Observe
  <2>1. PICK o \in Saves : RecordRateLimit(gate, o)  BY <1>11 DEF Observe
  <2>2. now' = now /\ Calling' \subseteq Calling  BY <1>11 DEF Observe, Calling
  <2> QED BY <1>1, <2>1, <2>2, RateLimitGuards
<1>12. CASE Crash
  <2>1. Calling' = {} /\ ~up' /\ UNCHANGED <<now, gateDisk, seen>>
    BY <1>12 DEF Crash, Calling
  <2> QED BY <1>1, <2>1 DEF Guarding, CrashGuardOnDisk, GuardShort, QuietGateOpen
<1>13. CASE Load
  <2>1. ~up /\ caller' = caller /\ now' = now  BY <1>13 DEF Load
  <2>2. gate = NewGate /\ (~gateDisk.kept => gateDisk = NoRecord)  BY <1>1, <1>3, <2>1 DEF Guarding
  <2>3. /\ up' => /\ ~gate'.rateLimited => gate'.next <= now + CrashRetryDelay
                  /\ gate'.next <= gateDisk.next
        /\ gateDisk' = gateDisk \/ gateDisk'.kept
        /\ gate' \in Gates
    BY <1>1, <1>13, <2>2, LoadEffect
  <2>4. seen' = [seen EXCEPT !.cooldown = Formatted(seen.saved), !.left = gateDisk.kept]
    BY <1>13 DEF Load
  <2>5. seen'.since = seen.since /\ seen'.left = gateDisk.kept  BY <1>1, <2>4 DEF Times
  <2>6. Calling' = {}  BY <1>3, <2>1 DEF Calling
  <2>7. QuietGateOpen'
    <3>1. CASE gateDisk.kept  BY <2>5, <3>1 DEF QuietGateOpen
    <3>2. CASE ~gateDisk.kept
      <4>1. gateDisk.next = 0  BY <2>2, <3>2 DEF NoRecord
      <4>2. up' => ~(now' < gate'.next)  BY <1>1, <2>1, <2>3, <4>1 DEF Gates
      <4> QED BY <4>2 DEF QuietGateOpen
    <3> QED BY <3>1, <3>2
  <2>8. GuardShort'  BY <2>1, <2>3 DEF GuardShort
  <2>9. CrashGuardOnDisk'  BY <2>6 DEF CrashGuardOnDisk
  <2> QED BY <1>1, <2>1, <2>2, <2>3, <2>5, <2>7, <2>8, <2>9 DEF Guarding
<1>14. CASE LoadOther
  <2>1. ~up /\ UNCHANGED <<now, caller, gate, gateDisk>>  BY <1>14 DEF LoadOther
  <2>2. gate = NewGate /\ Calling' = {}  BY <1>3, <2>1 DEF Calling
  <2>3. seen'.since = seen.since  BY <1>1, <1>14 DEF LoadOther, Times
  <2>4. NewGate.next = 0 /\ 0 <= now + CrashRetryDelay /\ ~(now < 0)
    BY <1>1, DelayAssumption DEF NewGate
  <2>5. GuardShort' /\ QuietGateOpen'  BY <2>1, <2>2, <2>4 DEF GuardShort, QuietGateOpen
  <2>6. CrashGuardOnDisk'  BY <2>2 DEF CrashGuardOnDisk
  <2> QED BY <1>1, <2>1, <2>3, <2>5, <2>6 DEF Guarding
<1>15. CASE Tick
  <2>1. now' = now + 1 /\ UNCHANGED <<up, caller, gate, gateDisk, seen>>  BY <1>15 DEF Tick
  <2>2. CrashGuardOnDisk'  BY <1>1, <2>1, SameGuard DEF Calling
  <2>3. gate.next \in Nat /\ seen.since \in Nat  BY <1>1 DEF Gates, Times
  <2>4. GuardShort'  BY <1>1, <2>1, <2>3, DelayAssumption DEF Guarding, GuardShort
  <2>5. QuietGateOpen'  BY <1>1, <2>1, <2>3 DEF Guarding, QuietGateOpen
  <2> QED BY <1>1, <2>1, <2>2, <2>3, <2>4, <2>5 DEF Guarding
<1> QED BY <1>5, <1>6, <1>7, <1>8, <1>9, <1>10, <1>11, <1>12, <1>13, <1>14, <1>15 DEF Next


-----------------------------------------------------------------------------
(* The credential probe.                                                   *)

(* The end of a probe moves its deadline past the distance to keep. *)
LEMMA ProbedPaces ==
  ASSUME TypeOK, Paced, NEW c, NEW result, NEW o, Probed(c, result, o),
         now' = now, up' = up, seen'.probeAfter = seen.probeAfter
  PROVE  Paced'
<1>1. /\ probe' \in Probes
      /\ \/ probe' = probe /\ probeDisk' = probeDisk
         \/ /\ probe'.next >= now + FailureInterval
            /\ probeDisk' = Saved(o, probeDisk, probe')
  BY ProbedTyped
<1>2. now \in Nat /\ seen.probeAfter \in Nat /\ probeDisk \in Records  BY DEF TypeOK
<1>3. CASE probe' = probe /\ probeDisk' = probeDisk  BY <1>3 DEF Paced, Formatted
<1>4. CASE /\ probe'.next >= now + FailureInterval
           /\ probeDisk' = Saved(o, probeDisk, probe')
  <2>1. probe'.next \in Nat /\ probe'.failures \in 0..MaxFailures  BY <1>1 DEF Probes
  <2>2. probe'.next >= seen.probeAfter
    BY <1>2, <1>4, <2>1, DelayAssumption DEF Paced
  <2>3. Formatted(probe'.next) >= seen.probeAfter
    <3>1. Formatted(seen.probeAfter) = seen.probeAfter  BY DEF Paced
    <3>2. Formatted(seen.probeAfter) <= probe'.next  BY <1>2, <2>1, <2>2, <3>1
    <3>3. Formatted(seen.probeAfter) <= Formatted(probe'.next)
      BY <1>2, <2>1, <3>2, FormattedTwice
    <3>4. Formatted(probe'.next) \in Nat  BY <2>1, FormattedTyped
    <3> HIDE DEF Formatted
    <3> QED BY <1>2, <3>1, <3>3, <3>4
  <2>4. \/ probeDisk' = probeDisk
        \/ probeDisk'.kept /\ probeDisk'.next = Formatted(probe'.next)
    BY <1>2, <1>4, <2>1, SavedTyped
  <2>5. now < seen.probeAfter => probeDisk'.kept /\ probeDisk'.next >= seen.probeAfter
    BY <2>3, <2>4 DEF Paced
  <2>6. Formatted(seen'.probeAfter) = seen'.probeAfter  BY DEF Paced
  <2> QED BY <2>2, <2>5, <2>6 DEF Paced
<1> QED BY <1>1, <1>3, <1>4

(* What leaves the probe alone leaves its distance alone. *)
LEMMA SamePace ==
  ASSUME TypeOK, Paced, seen'.probeAfter = seen.probeAfter, UNCHANGED <<now, probe, probeDisk>>,
         up' => up
  PROVE  Paced'
<1>1. Formatted(seen'.probeAfter) = seen'.probeAfter  BY DEF Paced
<1> QED BY <1>1 DEF Paced

(* Probes keep their distance. *)
LEMMA PacedStep ==
  ASSUME GateInv, Next
  PROVE  Paced'
<1>1. /\ TypeOK /\ Paced /\ gate \in Gates /\ seen \in Times /\ now \in Nat
      /\ probe \in Probes /\ probeDisk \in Records
  BY DEF GateInv, TypeOK, Gates, Times, Probes
<1>2. ASSUME NEW c \in Callers, TakeSlot(c) PROVE Paced'
  BY <1>1, <1>2, SamePace DEF TakeSlot
<1>3. ASSUME NEW c \in Callers, TurnAway(c) PROVE Paced'
  <2>1. PICK o \in Saves : Probed(c, "failed", o)  BY <1>3 DEF TurnAway
  <2>2. now' = now /\ up' = up /\ seen' = seen  BY <1>3 DEF TurnAway
  <2> QED BY <1>1, <2>1, <2>2, ProbedPaces
<1>4. ASSUME NEW c \in Callers, Begin(c) PROVE Paced'
  <2>1. PICK o \in Saves, p \in Saves :
          /\ seen' = [seen EXCEPT !.since = now, !.left = (o # "ok")]
          /\ UNCHANGED <<probe, probeDisk>> \/ Probed(c, "failed", p)
    BY <1>4 DEF Begin
  <2>2. now' = now /\ up' = up  BY <1>4 DEF Begin
  <2>3. seen'.probeAfter = seen.probeAfter  BY <1>1, <2>1 DEF Times
  <2>4. CASE UNCHANGED <<probe, probeDisk>>  BY <1>1, <2>2, <2>3, <2>4, SamePace
  <2>5. CASE Probed(c, "failed", p)  BY <1>1, <2>2, <2>3, <2>5, ProbedPaces
  <2> QED BY <2>1, <2>4, <2>5
<1>5. ASSUME NEW c \in Callers, Join(c) PROVE Paced'
  BY <1>1, <1>5, SamePace DEF Join
<1>6. ASSUME NEW c \in Callers, NEW result, After(c, result) PROVE Paced'
  <2>1. PICK g \in Gates, o \in Saves, p \in Saves :
          /\ RecordRateLimit(g, o) \/ Complete(g, o)
          /\ Probed(c, result, p)
    BY <1>1, <1>6, AfterEffect
  <2>2. now' = now /\ up' = up  BY <1>6 DEF After
  <2>3. seen'.probeAfter = seen.probeAfter
    BY <1>1, <2>1, RecordRateLimitTyped, CompleteTyped
  <2> QED BY <1>1, <2>1, <2>2, <2>3, ProbedPaces
<1>7. CASE CheckRegistrationAccess
  <2> DEFINE commit == [probe EXCEPT !.next = NextProbe(0, FALSE)]
             t == now + FailureInterval
  <2>1. PICK o \in Saves :
          /\ probe' = commit
          /\ probeDisk' = Saved(o, probeDisk, commit)
          /\ IF o = "ok" THEN seen' = [seen EXCEPT !.probeAfter = Formatted(t)]
             ELSE seen' = seen
    BY <1>7 DEF CheckRegistrationAccess
  <2>2. now' = now /\ up' = up /\ up /\ now >= probe.next
    BY <1>7 DEF CheckRegistrationAccess
  <2>3. now + SuccessInterval \in Nat /\ t \in Nat /\ t <= now + SuccessInterval
    BY <1>1, DelayAssumption
  <2>4. NextProbe(0, FALSE) = now + SuccessInterval  BY DEF NextProbe
  <2>5. probe' \in Probes /\ probe'.next = now + SuccessInterval
    BY <1>1, <2>1, <2>3, <2>4 DEF Probes
  <2>6. seen.probeAfter \in Nat /\ probe.next \in Nat  BY <1>1 DEF Times, Probes
  <2>7. ~(now < seen.probeAfter)  BY <1>1, <2>2, <2>6 DEF Paced
  <2>8. CASE o # "ok"
    <3>1. seen' = seen  BY <2>1, <2>8
    <3>2. Formatted(seen'.probeAfter) = seen'.probeAfter  BY <1>1, <3>1 DEF Paced
    <3> QED BY <1>1, <2>2, <2>7, <3>1, <3>2 DEF Paced
  <2>9. CASE o = "ok"
    <3>1. seen'.probeAfter = Formatted(t)  BY <1>1, <2>1, <2>9 DEF Times
    <3>2. /\ Formatted(t) \in Nat /\ Formatted(t) <= t
          /\ Formatted(Formatted(t)) \in Nat /\ Formatted(Formatted(t)) <= Formatted(t)
      BY <2>3, FormattedTyped
    <3>3. Formatted(t) <= Formatted(Formatted(t))
      <4>1. Formatted(t) <= Formatted(t)  BY <3>2
      <4> QED BY <2>3, <3>2, <4>1, FormattedTwice
    <3>4. Formatted(Formatted(t)) = Formatted(t)
      <4> HIDE DEF Formatted
      <4> QED BY <3>2, <3>3
    <3>5. Formatted(t) <= Formatted(now + SuccessInterval) /\ Formatted(now + SuccessInterval) \in Nat
      BY <2>3, FormattedMonotone, FormattedTyped
    <3>6. probeDisk'.kept /\ probeDisk'.next = Formatted(now + SuccessInterval)
      <4>1. probeDisk' = Saved(o, probeDisk, probe')  BY <2>1
      <4>2. probe'.next \in Nat /\ probe'.failures \in 0..MaxFailures  BY <2>5 DEF Probes
      <4>3. probeDisk'.kept /\ probeDisk'.next = Formatted(probe'.next)
        BY <1>1, <2>9, <4>1, <4>2, SavedTyped
      <4> QED BY <2>5, <4>3
    <3>7. seen'.probeAfter <= now' + FailureInterval  BY <2>2, <3>1, <3>2
    <3>8. Formatted(seen'.probeAfter) = seen'.probeAfter  BY <3>1, <3>4
    <3> HIDE DEF t
    <3>9. probe'.next >= seen'.probeAfter  BY <2>3, <2>5, <3>1, <3>2
    <3>10. probeDisk'.next >= seen'.probeAfter  BY <3>1, <3>2, <3>5, <3>6
    <3> QED BY <3>6, <3>7, <3>8, <3>9, <3>10 DEF Paced
  <2> QED BY <2>8, <2>9
<1>8. CASE Observe
  <2>1. PICK o \in Saves : RecordRateLimit(gate, o)  BY <1>8 DEF Observe
  <2>2. seen'.probeAfter = seen.probeAfter  BY <1>1, <2>1, RecordRateLimitTyped
  <2> QED BY <1>1, <1>8, <2>2, SamePace DEF Observe
<1>9. CASE Crash
  <2>1. ~up' /\ UNCHANGED <<now, probeDisk, seen>>  BY <1>9 DEF Crash
  <2>2. Formatted(seen'.probeAfter) = seen'.probeAfter  BY <1>1, <2>1 DEF Paced
  <2> QED BY <1>1, <2>1, <2>2 DEF Paced
<1>10. ASSUME UNCHANGED <<now, probeDisk>>, seen'.probeAfter = seen.probeAfter,
              up' => LoadProbe
       PROVE  Paced'
  <2>1. Formatted(seen'.probeAfter) = seen'.probeAfter  BY <1>1, <1>10 DEF Paced
  <2>2. up' => (probeDisk.kept => probe'.next = probeDisk.next)
    BY <1>1, <1>10, LoadProbeTyped
  <2> QED BY <1>1, <1>10, <2>1, <2>2 DEF Paced
<1>11. CASE Load
  <2>1. up' => LoadProbe  BY <1>11 DEF Load
  <2>2. seen'.probeAfter = seen.probeAfter  BY <1>1, <1>11 DEF Load, Times
  <2> QED BY <1>10, <1>11, <2>1, <2>2 DEF Load
<1>12. CASE LoadOther
  <2>1. seen'.probeAfter = seen.probeAfter  BY <1>1, <1>12 DEF LoadOther, Times
  <2> QED BY <1>10, <1>12, <2>1 DEF LoadOther
<1>13. CASE Tick
  <2>1. now' = now + 1 /\ UNCHANGED <<up, probe, probeDisk, seen>>  BY <1>13 DEF Tick
  <2>2. Formatted(seen'.probeAfter) = seen'.probeAfter  BY <1>1, <2>1 DEF Paced
  <2>3. seen.probeAfter \in Nat  BY <1>1 DEF Times
  <2> QED BY <1>1, <2>1, <2>2, <2>3, DelayAssumption DEF Paced
<1> QED BY <1>2, <1>3, <1>4, <1>5, <1>6, <1>7, <1>8, <1>9, <1>11, <1>12, <1>13 DEF Next

-----------------------------------------------------------------------------
(* What the gate promises.                                                 *)

(* The invariant holds before the first start. *)
LEMMA InitInv == Init => GateInv
<1> SUFFICES ASSUME Init PROVE GateInv  OBVIOUS
<1>1. Formatted(SuccessInterval) \in Nat /\ Formatted(0) = 0
  <2>1. Formatted(0) \in Nat /\ Formatted(0) <= 0  BY FormattedTyped
  <2>2. Formatted(SuccessInterval) \in Nat  BY FormattedTyped, DelayAssumption
  <2> QED BY <2>1, <2>2
<1>2. TypeOK
  <2>1. 0 \in Nat /\ 0 \in 0..MaxFailures /\ 0 \in 0..MaxFaults /\ 0 \in 0..MaxCrashes
    BY BoundsAssumption
  <2>2. NoRecord \in Records /\ OldGuard \in Records
    BY <1>1, <2>1 DEF NoRecord, OldGuard, Records
  <2>3. /\ gate \in Gates /\ probe \in Probes /\ seen \in Times
        /\ gateDisk \in Records /\ probeDisk \in Records
    BY <2>1, <2>2 DEF Init, Gates, Probes, Times, NewGate, NothingSeen
  <2>4. caller \in [Callers -> {"idle", "waiting", "slot", "calling"}]  BY DEF Init
  <2> QED BY <2>1, <2>3, <2>4 DEF Init, TypeOK, Gates, Probes, Times
<1>3. Calling = {}  BY DEF Init, Calling
<1>4. Counted  BY <1>3, FS_EmptySet DEF Init, Counted, InFlightCounted, NewGate
<1>5. Cooling  BY <1>1 DEF Init, Cooling, NothingSeen
<1>6. Guarding
  BY <1>3 DEF Init, Guarding, CrashGuardOnDisk, GuardShort, QuietGateOpen, NothingSeen, OldGuard
<1>7. Paced  BY <1>1, DelayAssumption DEF Init, Paced, NothingSeen
<1> QED BY <1>2, <1>4, <1>5, <1>6, <1>7 DEF GateInv

(* Every step of the gate keeps the invariant. *)
LEMMA NextInv == GateInv /\ [Next]_vars => GateInv'
<1>1. ASSUME GateInv, Next PROVE GateInv'
  BY <1>1, TypeStep, CountedStep, CoolingStep, GuardingStep, PacedStep DEF GateInv
<1>2. ASSUME GateInv, UNCHANGED vars PROVE GateInv'
  BY <1>2 DEF GateInv, TypeOK, Counted, Cooling, Guarding, Paced, InFlightCounted,
              CrashGuardOnDisk, GuardShort, QuietGateOpen, Calling, Formatted, vars
<1> QED BY <1>1, <1>2

(* The invariant holds throughout. *)
LEMMA AlwaysGateInv == Spec => []GateInv
  BY InitInv, NextInv, PTL DEF Spec

(* The gate's fields, its record and the probe's stay what the code          *)
(* declares them to be: no deadline is negative, no failure count above the  *)
(* cap.                                                                      *)
THEOREM GateTyped == Spec => []TypeOK
<1>1. GateInv => TypeOK  BY DEF GateInv
<1> QED BY <1>1, AlwaysGateInv, PTL

(* inFlight counts the calls in flight: before() and after() pair up. *)
THEOREM GateCounts == Spec => []InFlightCounted
<1>1. GateInv => InFlightCounted  BY DEF GateInv, Counted
<1> QED BY <1>1, AlwaysGateInv, PTL

(* While calls are in flight the disk holds a deadline a restart waits for. *)
THEOREM GateGuardsCalls == Spec => []CrashGuardOnDisk
<1>1. GateInv => CrashGuardOnDisk  BY DEF GateInv, Guarding
<1> QED BY <1>1, AlwaysGateInv, PTL

(* Without a rate limit the gate waits for the crash guard at the longest. *)
THEOREM GateGuardsShortly == Spec => []GuardShort
<1>1. GateInv => GuardShort  BY DEF GateInv, Guarding
<1> QED BY <1>1, AlwaysGateInv, PTL

(* The gate closes for a rate limit, calls in flight, or what a crash or a  *)
(* failed save left, and for nothing else.                                  *)
THEOREM GateOpensAtRest == Spec => []QuietGateOpen
<1>1. GateInv => QuietGateOpen  BY DEF GateInv, Guarding
<1> QED BY <1>1, AlwaysGateInv, PTL

(* before() lets no call through during a cooldown after() or observe()     *)
(* recorded, however calls overlap, saves fail and the manager restarts.    *)
THEOREM GateHoldsCooldown == Spec => NoCallDuringCooldown
<1> DEFINE P == \A c \in Callers : caller[c] # "calling" /\ caller'[c] = "calling"
                                     => now >= seen.cooldown
<1>1. ASSUME GateInv, Next PROVE P
  <2> SUFFICES ASSUME NEW d \in Callers, caller[d] # "calling", caller'[d] = "calling"
               PROVE  now >= seen.cooldown
    OBVIOUS
  <2>1. TypeOK /\ Cooling /\ Counted  BY <1>1 DEF GateInv
  <2>2. caller \in [Callers -> {"idle", "waiting", "slot", "calling"}]  BY <2>1 DEF TypeOK
  <2>3. now \in Nat /\ gate.next \in Nat /\ gate.inFlight \in Nat /\ seen.cooldown \in Nat
    BY <2>1 DEF TypeOK
  <2>4. ASSUME NEW c \in Callers, caller[c] = "slot", ~Waits(gate)
        PROVE  now >= seen.cooldown
    <3>1. up  BY <2>1, <2>4 DEF Counted
    <3>2. ~gate.rateLimited \/ now >= gate.next  BY <2>3, <2>4 DEF Waits
    <3> QED BY <2>1, <2>3, <3>1, <3>2, NotCooling
  <2>5. ASSUME NEW c \in Callers, TakeSlot(c) PROVE FALSE  BY <2>2, <2>5 DEF TakeSlot
  <2>6. ASSUME NEW c \in Callers, TurnAway(c) PROVE FALSE  BY <2>2, <2>6 DEF TurnAway
  <2>7. ASSUME NEW c \in Callers, Begin(c) PROVE now >= seen.cooldown
    BY <2>4, <2>7 DEF Begin
  <2>8. ASSUME NEW c \in Callers, Join(c) PROVE now >= seen.cooldown
    BY <2>4, <2>8 DEF Join
  <2>9. ASSUME NEW c \in Callers, NEW result, After(c, result) PROVE FALSE
    BY <2>2, <2>9 DEF After
  <2>10. CASE CheckRegistrationAccess  BY <2>2, <2>10 DEF CheckRegistrationAccess
  <2>11. CASE Observe \/ Load \/ LoadOther \/ Tick
    BY <2>11 DEF Observe, Load, LoadOther, Tick
  <2>12. CASE Crash  BY <2>12 DEF Crash
  <2> QED BY <1>1, <2>5, <2>6, <2>7, <2>8, <2>9, <2>10, <2>11, <2>12 DEF Next
<1>2. GateInv /\ [Next]_vars => [P]_vars  BY <1>1
<1> QED BY <1>2, AlwaysGateInv, PTL DEF Spec, NoCallDuringCooldown

(* checkRegistrationAccessIfDue commits the next deadline before it probes:  *)
(* a crash at any moment does not bring two probes closer together than      *)
(* FailureInterval, to the second.                                           *)
THEOREM GatePacesProbes == Spec => ProbesPaced
<1> DEFINE P == caller[Prober] = "idle" /\ caller'[Prober] # "idle" => now >= seen.probeAfter
<1>1. ASSUME GateInv, Next, caller[Prober] = "idle", caller'[Prober] # "idle"
      PROVE  now >= seen.probeAfter
  <2>1. TypeOK /\ Paced /\ Prober \in Callers  BY <1>1, CallersAssumption DEF GateInv
  <2>2. caller \in [Callers -> {"idle", "waiting", "slot", "calling"}]  BY <2>1 DEF TypeOK
  <2>3. now \in Nat /\ probe.next \in Nat /\ seen.probeAfter \in Nat  BY <2>1 DEF TypeOK
  <2>4. ASSUME NEW c \in Callers, TakeSlot(c) PROVE FALSE
    BY <1>1, <2>1, <2>2, <2>4 DEF TakeSlot
  <2>5. ASSUME NEW c \in Callers, TurnAway(c) PROVE FALSE
    BY <1>1, <2>1, <2>2, <2>5 DEF TurnAway
  <2>6. ASSUME NEW c \in Callers, Begin(c) PROVE FALSE
    BY <1>1, <2>1, <2>2, <2>6 DEF Begin
  <2>7. ASSUME NEW c \in Callers, Join(c) PROVE FALSE
    BY <1>1, <2>1, <2>2, <2>7 DEF Join
  <2>8. ASSUME NEW c \in Callers, NEW result, After(c, result) PROVE FALSE
    BY <1>1, <2>1, <2>2, <2>8 DEF After
  <2>9. CASE CheckRegistrationAccess
    <3>1. up /\ now >= probe.next  BY <2>9 DEF CheckRegistrationAccess
    <3> QED BY <2>1, <2>3, <3>1 DEF Paced
  <2>10. CASE Observe \/ Load \/ LoadOther \/ Tick
    BY <1>1, <2>10 DEF Observe, Load, LoadOther, Tick
  <2>11. CASE Crash  BY <1>1, <2>1, <2>11 DEF Crash
  <2> QED BY <1>1, <2>4, <2>5, <2>6, <2>7, <2>8, <2>9, <2>10, <2>11 DEF Next
<1>2. GateInv /\ [Next]_vars => [P]_vars  BY <1>1
<1> QED BY <1>2, AlwaysGateInv, PTL DEF Spec, ProbesPaced


=============================================================================
