---------------------------- MODULE PowersOfTwo ----------------------------
(***************************************************************************)
(* The powers of two, 1 << n in the code, by the recursion that proofs     *)
(* unfold: the provers know nothing of exponentiation.                     *)
(***************************************************************************)
EXTENDS Integers

Pow2[n \in Nat] == IF n = 0 THEN 1 ELSE 2 * Pow2[n - 1]
=============================================================================
