------------------------------ MODULE MCScaler ------------------------------
(* Instances of Scaler for TLC. *)
EXTENDS Scaler

MCRunners == 1..2

MCOneRunner == 1..1

MCFaultKinds == {"github", "coordinator", "worker", "disk"}

=============================================================================
