---------------------------- MODULE MCStakePool ----------------------------
(* Small instances of StakePool.                                            *)
EXTENDS StakePool, TLC

CONSTANTS u1, s1, s2, s3

SlotSymmetry == Permutations(Slots)

AllMessages == [native : BOOLEAN, storage : BOOLEAN, notify : BOOLEAN]

PlainNative == [native : {TRUE}, storage : {FALSE}, notify : {FALSE}]
WithStorage == [native : BOOLEAN, storage : BOOLEAN, notify : {FALSE}]
=============================================================================
