----------------------------- MODULE PowersOfTwo ------------------------------
(***************************************************************************)
(* 2^n, as a recursive function: the provers know no law of exponents.     *)
(***************************************************************************)
EXTENDS Naturals

Pow2[n \in Nat] == IF n = 0 THEN 1 ELSE 2 * Pow2[n - 1]
=============================================================================
