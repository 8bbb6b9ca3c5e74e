----------------------------- MODULE ClaimQueue -----------------------------
(***************************************************************************)
(* What the queue of one hash promises, whatever it does with its tranches  *)
(* (the struct doc of WithdrawalRequests,                                   *)
(* contract/src/pool/withdraw/requests.rs): NEAR unstaked in an epoch cools *)
(* down on its own; what has cooled down is one claim; a withdrawal takes   *)
(* that whole claim and nothing else; what it does not pay comes back to    *)
(* the claim, as wNEAR if it was delivered and returned, with the receiver  *)
(* registered if that was paid for.                                         *)
(***************************************************************************)
EXTENDS Naturals

CONSTANTS
  Amounts,    \* NEAR amounts of unstakes
  Cooldown,   \* UNSTAKE_COOLDOWN_PERIOD
  MaxEpoch    \* bound on the epochs explored

VARIABLES
  epoch,      \* env::epoch_height()
  cooling,    \* epoch -> NEAR unstaked in it and still cooling down
  ready,      \* the claim that can be withdrawn
  inflight    \* the claim a withdrawal is paying

vars == <<epoch, cooling, ready, inflight>>

(* A claim: what it is worth, how much of that is wNEAR already, and        *)
(* whether the receiver's storage deposit has been paid.                    *)
Nothing == [amount |-> 0, wnear |-> 0, storage |-> FALSE]

Plus(c, d) == [amount  |-> c.amount + d.amount,
               wnear   |-> c.wnear + d.wnear,
               storage |-> c.storage \/ d.storage]

Init ==
  /\ epoch = 0
  /\ cooling = [e \in 0..MaxEpoch |-> 0]
  /\ ready = Nothing
  /\ inflight = Nothing

Unstake ==
  /\ \E a \in Amounts : cooling' = [cooling EXCEPT ![epoch] = @ + a]
  /\ UNCHANGED <<epoch, ready, inflight>>

Withdraw ==
  /\ inflight = Nothing
  /\ ready.amount > 0
  /\ inflight' = ready
  /\ ready' = Nothing
  /\ UNCHANGED <<epoch, cooling>>

(* A payment of part of the claim: the rest has become wNEAR.               *)
PayPart ==
  /\ inflight # Nothing
  /\ \E paid \in 0..(inflight.amount - 1), registered \in BOOLEAN :
       LET rest == inflight.amount - paid
       IN  ready' = Plus(ready, [amount |-> rest, wnear |-> rest,
                                 storage |-> inflight.storage \/ registered])
  /\ inflight' = Nothing
  /\ UNCHANGED <<epoch, cooling>>

PayAll ==
  /\ inflight # Nothing
  /\ inflight' = Nothing
  /\ UNCHANGED <<epoch, cooling, ready>>

(* A payment that failed, or a forced release.                              *)
GiveBack ==
  /\ inflight # Nothing
  /\ ready' = Plus(ready, inflight)
  /\ inflight' = Nothing
  /\ UNCHANGED <<epoch, cooling>>

NextEpoch ==
  /\ epoch' = epoch + 1
  /\ IF epoch' >= Cooldown
     THEN LET e == epoch' - Cooldown
          IN  /\ ready' = [ready EXCEPT !.amount = @ + cooling[e]]
              /\ cooling' = [cooling EXCEPT ![e] = 0]
     ELSE UNCHANGED <<ready, cooling>>
  /\ UNCHANGED inflight

Next == Unstake \/ Withdraw \/ PayPart \/ PayAll \/ GiveBack \/ NextEpoch

Spec == Init /\ [][Next]_vars

=============================================================================
