--------------------------- MODULE MCTargetManager ---------------------------
(***************************************************************************)
(* TargetManager on one and two targets.                                   *)
(***************************************************************************)
EXTENDS TargetManager

MCKeys == 1..2
MCOneKey == 1..1

(* The first target stays; the second comes and goes. *)
MCSecond == {{1}, {1, 2}}
MCAll == SUBSET MCOneKey

=============================================================================
