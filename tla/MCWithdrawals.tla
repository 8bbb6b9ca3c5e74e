--------------------------- MODULE MCWithdrawals ---------------------------
(* Small instances of Withdrawals.                                          *)
EXTENDS WithdrawalClaims, TLC

CONSTANTS h1, h2, h3, s1, s2

AllCall      == [h \in Hashes |-> "call"]
AllNative    == [h \in Hashes |-> "native"]
CallTransfer == [h \in Hashes |-> IF h = h1 THEN "call" ELSE "transfer"]
CallNativeSelf ==
  [h \in Hashes |-> CASE h = h1 -> "call" [] h = h2 -> "native" [] OTHER -> "self"]

AllStorage   == [h \in Hashes |-> TRUE]
NoStorage    == [h \in Hashes |-> FALSE]
FirstStorage == [h \in Hashes |-> h = h1]

SlotSymmetry == Permutations(Slots)
=============================================================================
