-------------------------- MODULE WithdrawalClaims --------------------------
(***************************************************************************)
(* What Withdrawals promises to a single hash: its tranches, through every  *)
(* delivery, callback, panic, reward sync and release, and whatever happens *)
(* to other hashes meanwhile, are a ClaimQueue.                             *)
(***************************************************************************)
EXTENDS Withdrawals

Claims(h) == INSTANCE ClaimQueue WITH
  cooling  <- [e \in 0..MaxEpoch |-> CoolingFrom(queue[h], e)],
  ready    <- ClaimOf(Matured(queue[h])),
  inflight <- ClaimOf(Locked(queue[h]))

(* A withdrawal takes all that has cooled down and nothing else, and what   *)
(* its settlement does not book comes back to the claim of the same hash:   *)
(* the rest of a call as wNEAR with the storage paid, a failed delivery as  *)
(* it was.  While the admin verifies, no callback ever settles a claim that *)
(* another withdrawal has taken.                                            *)
KeepsClaims ==
  /\ \A h \in Hashes : Claims(h)!Init
  /\ [][\A h \in Hashes : [Claims(h)!Next]_(Claims(h)!vars)]_vars

=============================================================================
