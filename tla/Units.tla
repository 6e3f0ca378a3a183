------------------------------- MODULE Units -------------------------------
(***************************************************************************)
(* Integer helpers shared by the two admission models.                     *)
(*                                                                         *)
(* A sum is written as the size of a set of unit tokens (Total).  That is  *)
(* the same number, in the form the finite-set theorems speak about.       *)
(***************************************************************************)
EXTENDS Integers, FiniteSets

Larger(a, b) == IF a >= b THEN a ELSE b

Smaller(a, b) == IF a <= b THEN a ELSE b

(* The sum of f[x] over the domain of f, counted unit by unit. *)
Total(f) == Cardinality(UNION {{x} \X (1..f[x]) : x \in DOMAIN f})

(* Go's %, which truncates toward zero and keeps the dividend's sign. *)
GoMod(a, b) == IF a >= 0 THEN a % b ELSE -((-a) % b)
=============================================================================
