----------------------------- MODULE TrancheVec -----------------------------
(***************************************************************************)
(* The queue of one hash as the code has it: a Vec<Lock<Tranche>> that      *)
(* collapse_matured_tranches walks with swap_remove                         *)
(* (contract/src/pool/withdraw/requests.rs).  It implements ClaimQueue, and *)
(* it agrees with the set operations of module Tranches, which Withdrawals  *)
(* uses in its place.                                                       *)
(***************************************************************************)
EXTENDS Tranches, SequencesExt

CONSTANTS
  Amounts,     \* NEAR amounts of unstakes
  MaxUnstaked, \* bound on all that is ever unstaked for the hash
  MaxEpoch     \* bound on the epochs explored

ASSUME TrancheVecAssumption ==
  Amounts \subseteq Nat \ {0} /\ MaxUnstaked \in Nat /\ MaxEpoch \in Nat

VARIABLES
  vec,         \* the tranches in storage order, <<>> if the hash is absent
  unstaked     \* ghost: NEAR unstaked so far

vars == <<epoch, vec, unstaked>>

-----------------------------------------------------------------------------
(* Vec::swap_remove: the last element takes the place of the i-th.          *)
SwapRemove(v, i) ==
  [j \in 1..(Len(v) - 1) |-> IF j = i THEN v[Len(v)] ELSE v[j]]

(* matured_amount, matured_residual, matured_storage and matured_epoch.     *)
NoneMatured ==
  [withdrawal_amount |-> 0, unstake_epoch |-> 0, wnear_residual |-> 0,
   storage_was_paid |-> FALSE, locked |-> FALSE]

\* A bug Implements catches: the residual is not carried over.
Collect_DropsResidual(m, t) ==
  [withdrawal_amount |-> m.withdrawal_amount + t.withdrawal_amount,
   unstake_epoch     |-> Max({m.unstake_epoch, t.unstake_epoch}),
   wnear_residual    |-> m.wnear_residual,
   storage_was_paid  |-> m.storage_was_paid \/ t.storage_was_paid,
   locked            |-> FALSE]

Collect(m, t) ==
  [withdrawal_amount |-> m.withdrawal_amount + t.withdrawal_amount,
   unstake_epoch     |-> Max({m.unstake_epoch, t.unstake_epoch}),
   wnear_residual    |-> m.wnear_residual + t.wnear_residual,
   storage_was_paid  |-> m.storage_was_paid \/ t.storage_was_paid,
   locked            |-> FALSE]

\* A bug SetModelAgrees catches: the index moves on although swap_remove has
\* just put another tranche there.
NextIndex_Always(i) == i + 1

(* The index after a swap_remove: stay, to test what took its place.        *)
NextIndex(i) == i

(* One iteration of the loop of collapse_matured_tranches: the Vec as it is *)
(* now, the index, and what has been collected.                             *)
Iterate(c) ==
  LET t == c.rest[c.i]
  IN  IF c.i > Len(c.rest) THEN c
      ELSE IF t.locked \/ ~IsMatured(t) THEN [c EXCEPT !.i = @ + 1]
      ELSE [rest   |-> SwapRemove(c.rest, c.i),
            i      |-> NextIndex(c.i),
            merged |-> Collect(c.merged, t)]

(* The loop: every iteration either steps over a tranche or removes one, so *)
(* it has as many as the Vec has tranches.                                  *)
Walk(v) ==
  LET walk[n \in 0..Len(v)] ==
        IF n = 0 THEN [rest |-> v, i |-> 1, merged |-> NoneMatured]
        ELSE Iterate(walk[n - 1])
  IN  walk

Collapse(v) == Walk(v)[Len(v)]

(* What it leaves in the Vec, with the merged tranche pushed back.          *)
Pushed(v, lock) ==
  LET c == Collapse(v)
  IN  IF c.merged.withdrawal_amount > 0
      THEN Append(c.rest, [c.merged EXCEPT !.locked = lock])
      ELSE c.rest

\* A bug BoundedVec catches: appending never collapses what has matured.
AppendRequest_NoCollapse(v, amount) ==
  LET i == SelectInSeq(v, LAMBDA t : ~t.locked /\ t.unstake_epoch = epoch)
  IN  IF i = 0 THEN Append(v, NewTranche(amount, epoch))
      ELSE [v EXCEPT ![i].withdrawal_amount = @ + amount]

(* append_request                                                           *)
AppendRequest(v, amount) ==
  LET w == Pushed(v, FALSE)
      i == SelectInSeq(w, LAMBDA t : ~t.locked /\ t.unstake_epoch = epoch)
  IN  IF v = <<>> \/ i = 0 THEN Append(w, NewTranche(amount, epoch))
      ELSE [w EXCEPT ![i].withdrawal_amount = @ + amount]

(* locked_tranche, release_lock and remove_request work on the first locked *)
(* tranche, or on all of them.                                              *)
LockedIndex(v) == SelectInSeq(v, LAMBDA t : t.locked)

ReleaseLock(v) ==
  IF LockedIndex(v) = 0 THEN v ELSE [v EXCEPT ![LockedIndex(v)].locked = FALSE]

(* Vec::retain                                                              *)
RemoveRequest(v) ==
  LET kept[n \in 0..Len(v)] ==
        IF n = 0 THEN <<>>
        ELSE IF v[n].locked THEN kept[n - 1] ELSE Append(kept[n - 1], v[n])
  IN  kept[Len(v)]

-----------------------------------------------------------------------------
Init ==
  /\ epoch = 0
  /\ vec = <<>>
  /\ unstaked = 0

Unstake ==
  /\ \E a \in Amounts :
       /\ unstaked + a <= MaxUnstaked
       /\ unstaked' = unstaked + a
       /\ vec' = AppendRequest(vec, a)
  /\ UNCHANGED epoch

(* amount_of_matured_tranches in withdraw, which refuses an amount of zero. *)
Withdraw ==
  /\ \A i \in DOMAIN vec : ~vec[i].locked
  /\ vec' = Pushed(vec, TRUE)
  /\ LockedIndex(vec') # 0
  /\ UNCHANGED <<epoch, unstaked>>

(* modify_state_after_withdraw on the locked tranche, then release_lock.    *)
SettlePart ==
  /\ LockedIndex(vec) # 0
  /\ LET i == LockedIndex(vec)
         t == vec[i]
     IN  \E booked \in 0..(t.withdrawal_amount - 1), registered \in BOOLEAN :
           vec' = ReleaseLock(
             [vec EXCEPT ![i].withdrawal_amount = @ - booked,
                         ![i].wnear_residual    = t.withdrawal_amount - booked,
                         ![i].storage_was_paid  = @ \/ registered])
  /\ UNCHANGED <<epoch, unstaked>>

(* The whole claim is booked: remove_request, then a release_lock without   *)
(* effect.                                                                  *)
SettleAll ==
  /\ LockedIndex(vec) # 0
  /\ vec' = ReleaseLock(RemoveRequest(vec))
  /\ UNCHANGED <<epoch, unstaked>>

(* A failed delivery, or force_release_lock.                                *)
Release ==
  /\ LockedIndex(vec) # 0
  /\ vec' = ReleaseLock(vec)
  /\ UNCHANGED <<epoch, unstaked>>

NextEpoch ==
  /\ epoch < MaxEpoch
  /\ epoch' = epoch + 1
  /\ UNCHANGED <<vec, unstaked>>

Next == Unstake \/ Withdraw \/ SettlePart \/ SettleAll \/ Release \/ NextEpoch

Spec == Init /\ [][Next]_vars

-----------------------------------------------------------------------------
(* Properties.                                                              *)

(* The set operations of module Tranches are what the Vec does: no tranche  *)
(* is lost or counted twice by the swaps, and the order never matters.      *)
SetModelAgrees ==
  LET Q == ToSet(vec)
  IN  /\ Cardinality(Q) = Len(vec)
      /\ \A a \in Amounts : ToSet(AppendRequest(vec, a)) = Appended(Q, a)
      /\ \A lock \in BOOLEAN : ToSet(Pushed(vec, lock)) = Collapsed(Q, lock)
      /\ ToSet(ReleaseLock(vec)) = Released(Q)

(* The Vec of a hash never holds more than UNSTAKE_COOLDOWN_PERIOD + 2      *)
(* tranches, however often and whenever the hash is unstaked (doc of        *)
(* WithdrawalRequests).                                                     *)
BoundedVec == Len(vec) <= Cooldown + 2

Claims == INSTANCE ClaimQueue WITH
  cooling  <- [e \in 0..MaxEpoch |-> CoolingFrom(ToSet(vec), e)],
  ready    <- ClaimOf(Matured(ToSet(vec))),
  inflight <- ClaimOf(Locked(ToSet(vec)))

(* The Vec, with its swaps, merges and folds, keeps the promise of          *)
(* ClaimQueue: collapsing is invisible, an unstake delays nothing, and a    *)
(* withdrawal takes all that has cooled down.                               *)
Implements == Claims!Spec

=============================================================================
