------------------------------ MODULE Tranches ------------------------------
(***************************************************************************)
(* The queue of one hash: the Vec<Lock<Tranche>> of WithdrawalRequests      *)
(* (contract/src/pool/withdraw/requests.rs), read as a set of tranches.     *)
(*                                                                         *)
(* The order of the Vec is not observable, and no two tranches of a queue   *)
(* are ever equal: DistinctEpochs, an invariant of module Withdrawals, says *)
(* more than that.  Module TrancheVec has the Vec itself, with its          *)
(* swap_remove, and checks it against these definitions.                    *)
(***************************************************************************)
EXTENDS Totals, FiniteSetsExt

CONSTANT Cooldown     \* UNSTAKE_COOLDOWN_PERIOD

ASSUME CooldownAssumption == Cooldown \in Nat \ {0}

VARIABLE epoch        \* env::epoch_height()

Tranche == [withdrawal_amount : Nat, unstake_epoch : Nat, wnear_residual : Nat,
            storage_was_paid : BOOLEAN, locked : BOOLEAN]

NewTranche(amount, e) ==
  [withdrawal_amount |-> amount, unstake_epoch |-> e, wnear_residual |-> 0,
   storage_was_paid |-> FALSE, locked |-> FALSE]

AmountOf(Q)   == Total([t \in Q |-> t.withdrawal_amount])
ResidualOf(Q) == Total([t \in Q |-> t.wnear_residual])

IsMatured(t) == t.unstake_epoch + Cooldown <= epoch

\* A bug LockedUntouched catches: an in-flight tranche is swept too.
Matured_TakesLocked(Q) == {t \in Q : IsMatured(t)}

(* What collapse_matured_tranches takes out of a queue ...                  *)
Matured(Q) == {t \in Q : ~t.locked /\ IsMatured(t)}

\* A bug KeepsClaims catches: a fresh tranche makes the claim pay the storage again.
Merged_StorageOfAll(M, lock) ==
  [withdrawal_amount |-> AmountOf(M),
   unstake_epoch     |-> Max({t.unstake_epoch : t \in M}),
   wnear_residual    |-> ResidualOf(M),
   storage_was_paid  |-> \A t \in M : t.storage_was_paid,
   locked            |-> lock]

(* ... and the one tranche it makes of them.                                *)
Merged(M, lock) ==
  [withdrawal_amount |-> AmountOf(M),
   unstake_epoch     |-> Max({t.unstake_epoch : t \in M}),
   wnear_residual    |-> ResidualOf(M),
   storage_was_paid  |-> \E t \in M : t.storage_was_paid,
   locked            |-> lock]

Locked(Q) == {t \in Q : t.locked}

Collapsed(Q, lock) ==
  LET M == Matured(Q)
  IN  IF AmountOf(M) > 0 THEN (Q \ M) \cup {Merged(M, lock)} ELSE Q \ M

\* A bug DistinctEpochs catches: tranches of one epoch do not fold.
Appended_NoFold(Q, amount) == Collapsed(Q, FALSE) \cup {NewTranche(amount, epoch)}

\* A bug CooldownIndependence catches: everything unlocked folds into the new
\* tranche and waits for its cooldown.
Appended_ShiftsCooldown(Q, amount) ==
  LET U == {t \in Q : ~t.locked}
  IN  (Q \ U) \cup {NewTranche(amount + AmountOf(U), epoch)}

(* append_request: collapse, then fold into the unlocked tranche of this    *)
(* epoch or append a new one.                                               *)
Appended(Q, amount) ==
  LET R    == Collapsed(Q, FALSE)
      Same == {t \in R : ~t.locked /\ t.unstake_epoch = epoch}
  IN  IF Same = {} THEN R \cup {NewTranche(amount, epoch)}
      ELSE LET t == CHOOSE t \in Same : TRUE
           IN  (R \ {t}) \cup {[t EXCEPT !.withdrawal_amount = @ + amount]}

(* release_lock                                                             *)
Released(Q) ==
  {t \in Q : ~t.locked} \cup {[t EXCEPT !.locked = FALSE] : t \in Locked(Q)}

-----------------------------------------------------------------------------
(* How a queue maps to the claims of module ClaimQueue: what cools down by  *)
(* the epoch it was unstaked in, the rest merged by whether it is locked.   *)
CoolingFrom(Q, e) == AmountOf({t \in Q : ~IsMatured(t) /\ t.unstake_epoch = e})

ClaimOf(Q) == [amount  |-> AmountOf(Q),
               wnear   |-> ResidualOf(Q),
               storage |-> \E t \in Q : t.storage_was_paid]

=============================================================================
