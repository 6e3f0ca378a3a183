-------------------------- MODULE MCControlPlaneGate --------------------------
(* A small instance of ControlPlaneGate for TLC.                           *)
EXTENDS ControlPlaneGate, TLC

CONSTANTS c1, c2, probe1

MCCallers == {c1, c2, probe1}

(* The callers other than the prober are alike. *)
Alike == Permutations({c1, c2})

MCRateLimitDelay == [n \in 1..MaxFailures |-> BoundedExponentialBackoff(2, 3, n) + 1]

(* boundedExponentialBackoff is the doubled base, cut at the maximum. *)
ASSUME BackoffAgrees ==
  \A base \in 0..5, maximum \in 0..12, n \in 0..5 :
    BoundedExponentialBackoff(base, maximum, n) =
      IF base = 0 \/ n = 0 THEN 0
      ELSE IF maximum = 0 THEN base
      ELSE IF base * 2^(n - 1) > maximum THEN maximum
      ELSE base * 2^(n - 1)

=============================================================================
