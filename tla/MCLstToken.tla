----------------------------- MODULE MCLstToken -----------------------------
(* A small instance of LstToken.                                            *)
EXTENDS LstToken, TLC

CONSTANTS u1, u2, s1, s2

Symmetry == Permutations(Slots) \cup Permutations(Users)
=============================================================================
