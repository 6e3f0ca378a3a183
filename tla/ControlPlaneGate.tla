--------------------------- MODULE ControlPlaneGate ---------------------------
(***************************************************************************)
(* The rate gate every GitHub control-plane call of a profile passes       *)
(* (manager/autoscaler/control_plane_gate.go) and the credential probe     *)
(* that goes through it (checkRegistrationAccessIfDue in manager.go), each *)
(* with the retry record it keeps on disk.                                 *)
(*                                                                         *)
(* Callers are goroutines; one of them, Prober, makes the credential       *)
(* probes.  A critical section of the gate's mutex is one step.  Time is   *)
(* counted in ticks, Second of them a second: deadlines in memory have the *)
(* precision of the clock, deadlines on disk that of RFC 3339.             *)
(***************************************************************************)
EXTENDS Integers, FiniteSets

CONSTANTS
  Callers,          \* goroutines that call GitHub
  Prober,           \* the one that probes the credential
  Slots,            \* calls at a time (registrationAccessMaxConcurrency)
  CrashRetryDelay,  \* the crash guard
  RateLimitDelay,   \* the cooldown after the n-th rate limit in a row
  SuccessInterval,  \* between credential probes
  FailureInterval,  \* between credential probes while they fail
  FirstCheckDelay,  \* before the first credential probe
  Second,           \* ticks in a second
  MaxFailures,      \* cap of the failure count (maxRegistrationCleanupAttempts)
  MaxTime,          \* bound: ticks in one behaviour
  MaxFaults,        \* bound: failed saves in one behaviour
  MaxCrashes        \* bound: crashes in one behaviour

ASSUME CallersAssumption == IsFiniteSet(Callers) /\ Prober \in Callers
ASSUME BoundsAssumption == /\ Slots \in Nat \ {0} /\ MaxFailures \in Nat \ {0}
                           /\ MaxTime \in Nat /\ MaxFaults \in Nat /\ MaxCrashes \in Nat
ASSUME DelayAssumption ==
  /\ Second \in Nat \ {0}
  /\ CrashRetryDelay \in Nat
  /\ RateLimitDelay \in [1..MaxFailures -> Nat]
  /\ \A m, n \in 1..MaxFailures : m <= n => RateLimitDelay[m] <= RateLimitDelay[n]
  /\ \A n \in 1..MaxFailures : CrashRetryDelay <= RateLimitDelay[n]
  /\ FailureInterval \in Nat /\ SuccessInterval \in Nat /\ FirstCheckDelay \in Nat
  /\ FailureInterval <= SuccessInterval
  /\ \A n \in 1..MaxFailures : FailureInterval <= RateLimitDelay[n]

VARIABLES
  now,       \* the clock
  up,        \* whether the manager process runs
  caller,    \* where each goroutine is in pacedScaleSetService.run
  gate,      \* the gate's fields
  gateDisk,  \* its retry record on disk
  probe,     \* registrationAccessHealth: failures in a row and the next check
  probeDisk, \* its retry record on disk
  faults, crashes,
  seen       \* history: see below

vars == <<now, up, caller, gate, gateDisk, probe, probeDisk, faults, crashes, seen>>

NoRecord == [kept |-> FALSE, failures |-> 0, next |-> 0]

NewGate == [inFlight |-> 0, rateLimited |-> FALSE, failures |-> 0, next |-> 0]

Calling == {c \in Callers : caller[c] = "calling"}

(* What the properties remember: the deadline of the last rate limit the   *)
(* gate was told of, the deadline of the last one whose save took effect,  *)
(* when the first of the calls in flight began, whether the guard now held *)
(* was left by a crash or a failed save, and the earliest time of the next *)
(* probe.                                                                  *)
NothingSeen == [cooldown |-> 0, saved |-> 0, since |-> 0, left |-> FALSE, probeAfter |-> 0]

Records == [kept : BOOLEAN, failures : 0..MaxFailures, next : Nat]

TypeOK ==
  /\ now \in Nat
  /\ up \in BOOLEAN
  /\ caller \in [Callers -> {"idle", "waiting", "slot", "calling"}]
  /\ gate \in [inFlight : Nat, rateLimited : BOOLEAN, failures : 0..MaxFailures, next : Nat]
  /\ gateDisk \in Records
  /\ probe \in [failures : 0..MaxFailures, next : Nat]
  /\ probeDisk \in Records
  /\ faults \in 0..MaxFaults /\ crashes \in 0..MaxCrashes
  /\ seen \in [cooldown : Nat, saved : Nat, since : Nat, left : BOOLEAN, probeAfter : Nat]

-----------------------------------------------------------------------------
(* Deadlines.  RFC 3339 without fractions drops what is below a second.    *)

Formatted(t) == t - (t % Second)

(* boundedExponentialBackoff: doubles from base up to maximum.             *)
BoundedExponentialBackoff(base, maximum, n) ==
  LET delay[i \in 1..n] ==
        IF i = 1 THEN base
        ELSE IF delay[i - 1] > maximum \div 2 THEN maximum
        ELSE 2 * delay[i - 1]
  IN  IF base <= 0 \/ n <= 0 THEN 0
      ELSE IF maximum <= 0 THEN base
      ELSE IF base >= maximum THEN maximum
      ELSE delay[n]

Capped(n) == IF n < MaxFailures THEN n + 1 ELSE n

(* A save fails, or takes effect although the directory sync reports an    *)
(* error, or succeeds.                                                     *)
Saves == {"ok", "lost", "failed"}

Spend(n) == faults + n <= MaxFaults /\ faults' = faults + n

Cost(o) == IF o = "ok" THEN 0 ELSE 1

Record(r) == [kept |-> TRUE, failures |-> r.failures, next |-> Formatted(r.next)]

Saved(o, disk, r) == IF o = "failed" THEN disk ELSE Record(r)

-----------------------------------------------------------------------------
(* The critical sections of the gate.                                      *)

(* Wrong: a rate limit holds nobody back while calls are in flight. *)
WaitsOnlyAlone(g) == g.inFlight = 0 /\ now < g.next

(* before() turns a caller away. *)
Waits(g) == (g.rateLimited \/ g.inFlight = 0) /\ now < g.next

Guarded == [gate EXCEPT !.rateLimited = FALSE, !.next = now + CrashRetryDelay]

(* recordRateLimitLocked, by g the gate it finds. *)
RecordRateLimit(g, o) ==
  LET failures == Capped(g.failures)
      limited  == [g EXCEPT !.rateLimited = TRUE, !.failures = failures,
                            !.next = now + RateLimitDelay[failures]]
  IN  /\ gate' = limited
      /\ gateDisk' = Saved(o, gateDisk, limited)
      /\ seen' = [seen EXCEPT !.cooldown = limited.next,
                              !.saved = IF o = "failed" THEN @ ELSE limited.next]

(* Wrong: every call that ends clears the record, whoever is in flight. *)
CompleteEach(g, o) ==
  IF g.rateLimited
  THEN gate' = g /\ UNCHANGED <<gateDisk, seen>>
  ELSE /\ gate' = IF o = "ok" THEN [NewGate EXCEPT !.inFlight = g.inFlight] ELSE g
       /\ gateDisk' = IF o = "ok" THEN NoRecord ELSE gateDisk
       /\ seen' = [seen EXCEPT !.left = o # "ok"]

(* Wrong: the guard is cleared on disk and stays in memory. *)
CompleteOnDisk(g, o) ==
  IF g.inFlight > 0 \/ g.rateLimited
  THEN gate' = g /\ UNCHANGED <<gateDisk, seen>>
  ELSE /\ gate' = g
       /\ gateDisk' = IF o = "ok" THEN NoRecord ELSE gateDisk
       /\ seen' = [seen EXCEPT !.left = o # "ok"]

(* after() without a rate limit: the last call clears the record, and the  *)
(* guard if that succeeds.                                                 *)
Complete(g, o) ==
  IF g.inFlight > 0 \/ g.rateLimited
  THEN gate' = g /\ UNCHANGED <<gateDisk, seen>>
  ELSE /\ gate' = IF o = "ok" THEN NewGate ELSE g
       /\ gateDisk' = IF o = "ok" THEN NoRecord ELSE gateDisk
       /\ seen' = [seen EXCEPT !.left = o # "ok"]

-----------------------------------------------------------------------------
(* The credential probe.                                                   *)

NextProbe(failures, limited) ==
  now + IF failures = 0 THEN SuccessInterval
        ELSE IF limited THEN RateLimitDelay[failures]
        ELSE FailureInterval

(* The end of a probe that went well, was turned away or failed.  A failed *)
(* save is only reported.                                                  *)
Probed(c, result, o) ==
  IF c # Prober THEN o = "ok" /\ UNCHANGED <<probe, probeDisk>>
  ELSE LET failures == IF result = "ok" THEN 0 ELSE Capped(probe.failures)
           after    == [failures |-> failures,
                        next     |-> NextProbe(failures, result = "limited")]
       IN  probe' = after /\ probeDisk' = Saved(o, probeDisk, after)

(* Wrong: the deadline is saved only after the probe. *)
CheckRegistrationAccessFirst ==
  /\ up /\ caller[Prober] = "idle" /\ now >= probe.next
  /\ caller' = [caller EXCEPT ![Prober] = "waiting"]
  /\ seen' = [seen EXCEPT !.probeAfter = Formatted(now + FailureInterval)]
  /\ UNCHANGED <<now, up, gate, gateDisk, probe, probeDisk, faults, crashes>>

(* A probe that is due commits its next deadline before it calls. *)
CheckRegistrationAccess ==
  /\ up /\ caller[Prober] = "idle" /\ now >= probe.next
  /\ \E o \in Saves :
       LET commit == [probe EXCEPT !.next = NextProbe(0, FALSE)]
       IN  /\ Spend(Cost(o))
           /\ probe' = commit
           /\ probeDisk' = Saved(o, probeDisk, commit)
           /\ IF o = "ok"
              THEN /\ caller' = [caller EXCEPT ![Prober] = "waiting"]
                   /\ seen' = [seen EXCEPT !.probeAfter = Formatted(now + FailureInterval)]
              ELSE UNCHANGED <<caller, seen>>
  /\ UNCHANGED <<now, up, gate, gateDisk, crashes>>

-----------------------------------------------------------------------------
(* The callers.                                                            *)

TakeSlot(c) ==
  /\ up /\ caller[c] = IF c = Prober THEN "waiting" ELSE "idle"
  /\ Cardinality({d \in Callers : caller[d] \in {"slot", "calling"}}) < Slots
  /\ caller' = [caller EXCEPT ![c] = "slot"]
  /\ UNCHANGED <<now, up, gate, gateDisk, probe, probeDisk, faults, crashes, seen>>

(* The caller's context ends before the call, or the gate turns it away. *)
TurnAway(c) ==
  /\ caller[c] \in {"waiting", "slot"}
  /\ \E o \in Saves : Spend(Cost(o)) /\ Probed(c, "failed", o)
  /\ caller' = [caller EXCEPT ![c] = "idle"]
  /\ UNCHANGED <<now, up, gate, gateDisk, crashes, seen>>

(* The first of several calls: the guard is saved before it is made. *)
Begin(c) ==
  /\ caller[c] = "slot" /\ ~Waits(gate) /\ gate.inFlight = 0
  /\ \E o \in Saves, p \in Saves :
       /\ Spend(Cost(o) + Cost(p))
       /\ gate' = [Guarded EXCEPT !.inFlight = IF o = "ok" THEN 1 ELSE 0]
       /\ gateDisk' = Saved(o, gateDisk, Guarded)
       /\ seen' = [seen EXCEPT !.since = now, !.left = o # "ok"]
       /\ IF o = "ok" THEN p = "ok" /\ UNCHANGED <<probe, probeDisk>>
          ELSE Probed(c, "failed", p)
       /\ caller' = [caller EXCEPT ![c] = IF o = "ok" THEN "calling" ELSE "idle"]
  /\ UNCHANGED <<now, up, crashes>>

(* A call that overlaps others needs no guard of its own. *)
Join(c) ==
  /\ caller[c] = "slot" /\ ~Waits(gate) /\ gate.inFlight > 0
  /\ gate' = [gate EXCEPT !.inFlight = @ + 1]
  /\ caller' = [caller EXCEPT ![c] = "calling"]
  /\ UNCHANGED <<now, up, gateDisk, probe, probeDisk, faults, crashes, seen>>

(* The call returns. *)
After(c, result) ==
  LET g == [gate EXCEPT !.inFlight = IF @ > 0 THEN @ - 1 ELSE 0]
  IN  /\ caller[c] = "calling"
      /\ \E o \in Saves, p \in Saves :
           /\ result # "limited" => o # "lost"
           /\ Spend(Cost(o) + Cost(p))
           /\ IF result = "limited" THEN RecordRateLimit(g, o) ELSE Complete(g, o)
           /\ Probed(c, result, p)
      /\ caller' = [caller EXCEPT ![c] = "idle"]
      /\ UNCHANGED <<now, up, crashes>>

(* A message session meets a rate limit; it holds no slot. *)
Observe ==
  /\ up
  /\ \E o \in Saves : Spend(Cost(o)) /\ RecordRateLimit(gate, o)
  /\ UNCHANGED <<now, up, caller, probe, probeDisk, crashes>>

-----------------------------------------------------------------------------
(* The process dies and starts again.                                      *)

Crash ==
  /\ up /\ crashes < MaxCrashes
  /\ crashes' = crashes + 1
  /\ up' = FALSE
  /\ caller' = [c \in Callers |-> "idle"]
  /\ gate' = NewGate
  /\ probe' = [failures |-> 0, next |-> 0]
  /\ UNCHANGED <<now, gateDisk, probeDisk, faults, seen>>

LoadProbe ==
  probe' = IF probeDisk.kept THEN [failures |-> probeDisk.failures, next |-> probeDisk.next]
           ELSE [failures |-> 0, next |-> now + FirstCheckDelay]

(* The record of another credential is ignored. *)
LoadOther ==
  /\ ~up
  /\ up' = TRUE
  /\ LoadProbe
  /\ seen' = [seen EXCEPT !.cooldown = 0, !.saved = 0, !.left = FALSE]
  /\ UNCHANGED <<now, caller, gate, gateDisk, probeDisk, faults, crashes>>

(* Wrong: a guard is kept however far it reaches. *)
LoadUnclamped ==
  /\ ~up
  /\ up' = TRUE
  /\ gate' = [NewGate EXCEPT !.rateLimited = gateDisk.failures > 0,
                             !.failures = gateDisk.failures, !.next = gateDisk.next]
  /\ LoadProbe
  /\ seen' = [seen EXCEPT !.cooldown = Formatted(seen.saved), !.left = gateDisk.kept]
  /\ UNCHANGED <<now, caller, gateDisk, probeDisk, faults, crashes>>

(* A crash guard that reaches too far is shortened and saved; if that      *)
(* fails the manager does not start.                                       *)
Load ==
  /\ ~up
  /\ LET limited == gateDisk.failures > 0
         maximum == now + CrashRetryDelay
         long    == gateDisk.kept /\ ~limited /\ gateDisk.next > maximum
         loaded  == [NewGate EXCEPT !.rateLimited = limited, !.failures = gateDisk.failures,
                                    !.next = IF long THEN maximum ELSE gateDisk.next]
     IN  \E o \in Saves :
           /\ ~long => o = "ok"
           /\ Spend(Cost(o))
           /\ gateDisk' = IF long THEN Saved(o, gateDisk, loaded) ELSE gateDisk
           /\ up' = (o = "ok")
           /\ gate' = IF o = "ok" THEN loaded ELSE gate
  /\ IF up' THEN LoadProbe ELSE UNCHANGED probe
  /\ seen' = [seen EXCEPT !.cooldown = Formatted(seen.saved), !.left = gateDisk.kept]
  /\ UNCHANGED <<now, caller, probeDisk, crashes>>

Tick ==
  /\ now < MaxTime
  /\ now' = now + 1
  /\ UNCHANGED <<up, caller, gate, gateDisk, probe, probeDisk, faults, crashes, seen>>

(* A disk may hold the long guard an older manager wrote. *)
OldGuard == [kept |-> TRUE, failures |-> 0, next |-> Formatted(SuccessInterval)]

Init ==
  /\ now = 0 /\ up = FALSE
  /\ caller = [c \in Callers |-> "idle"]
  /\ gate = NewGate /\ gateDisk \in {NoRecord, OldGuard}
  /\ probe = [failures |-> 0, next |-> 0] /\ probeDisk = NoRecord
  /\ faults = 0 /\ crashes = 0
  /\ seen = NothingSeen

Next ==
  \/ \E c \in Callers : \/ TakeSlot(c) \/ TurnAway(c) \/ Begin(c) \/ Join(c)
                         \/ \E result \in {"ok", "failed", "limited"} : After(c, result)
  \/ CheckRegistrationAccess \/ Observe \/ Crash \/ Load \/ LoadOther \/ Tick

Spec == Init /\ [][Next]_vars

-----------------------------------------------------------------------------
(* Properties.                                                             *)

(* The gate's counter is the number of calls in flight. *)
InFlightCounted == gate.inFlight = Cardinality(Calling)

(* No call begins during the cooldown of the last rate limit: no overlap   *)
(* of calls, no failure and no restart shortens it by more than the        *)
(* fraction of a second the disk does not hold.                            *)
NoCallDuringCooldown ==
  [][\A c \in Callers : caller[c] # "calling" /\ caller'[c] = "calling"
                           => now >= seen.cooldown]_vars

(* While calls are in flight the disk holds the crash guard of the first   *)
(* of them, or a later deadline: a restart in the middle waits for it.     *)
CrashGuardOnDisk ==
  Calling # {} => gateDisk.kept /\ gateDisk.next >= Formatted(seen.since + CrashRetryDelay)

(* Without a rate limit nobody waits longer than the crash guard, not even *)
(* after an upgrade from a manager that guarded for an hour.               *)
GuardShort == up /\ ~gate.rateLimited => gate.next <= now + CrashRetryDelay

(* A gate at rest that saw no rate limit keeps nobody waiting, unless a    *)
(* crash or a failed save left the guard behind.                           *)
QuietGateOpen ==
  up /\ gate.inFlight = 0 /\ ~gate.rateLimited /\ now < gate.next => seen.left

(* Credential probes keep their distance, whatever crashes in between.     *)
ProbesPaced ==
  [][caller[Prober] = "idle" /\ caller'[Prober] # "idle" => now >= seen.probeAfter]_vars

=============================================================================
