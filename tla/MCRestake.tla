------------------------------ MODULE MCRestake ------------------------------
(* A small instance of Restake.                                             *)
EXTENDS Restake, TLC

CONSTANTS s1, s2, k1, bad

Symmetry == Permutations(Slots)
=============================================================================
