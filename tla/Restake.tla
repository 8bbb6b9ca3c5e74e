------------------------------- MODULE Restake -------------------------------
(***************************************************************************)
(* The pool's stake with the validator (pool/mod.rs: restake_promise, ping,  *)
(* on_restake; admin.rs: set_validator_public_key; the restakes of stake.rs  *)
(* and unstake.rs).                                                         *)
(*                                                                         *)
(* Every operation that changes total_staked_amount schedules a stake       *)
(* action with the total and the key of that moment.  The actions are run   *)
(* later, in the order in which they were scheduled; an accepted one        *)
(* replaces the whole proposal.  Whether it was accepted is known in a      *)
(* third receipt, which rolls back a stake or an unstake, or, after a ping  *)
(* or a change of the key, gives up all of the stake.  In between, others   *)
(* change the total and the key.                                            *)
(*                                                                         *)
(* The LST, deposits and payments of these operations are in StakePool.     *)
(* Stake actions are external: one is refused if its key is a bad one, or   *)
(* if it asks for less than the network's minimum but for more than zero.   *)
(***************************************************************************)
EXTENDS Integers, Sequences

CONSTANTS
  Slots,      \* operations that can be in flight at the same time
  Keys,       \* public keys the admin may set
  BadKeys,    \* those whose stake actions fail
  FirstKey,   \* the key the contract is created with
  Amounts,    \* NEAR amounts of stakes and unstakes
  Stake,      \* total_staked_amount at the start
  MinStake,   \* what the network asks of a validator
  Reward,     \* what a validator that stakes earns in an epoch
  MaxTotal,   \* bound on the total and the rewards together
  MaxActions  \* bound on the stake actions scheduled and not yet run

NoOne == "on_restake"   \* no callback waits for the action of on_restake

ASSUME RestakeAssumption ==
  /\ NoOne \notin Slots
  /\ BadKeys \subseteq Keys /\ FirstKey \in Keys \ BadKeys
  /\ Amounts \subseteq Nat \ {0}
  /\ MinStake \in Nat /\ Stake \in Nat /\ Stake >= MinStake
  /\ Reward \in Nat /\ MaxTotal \in Nat /\ MaxActions \in Nat

VARIABLES
  total,     \* statistics.total_staked_amount
  key,       \* validator_public_key
  earned,    \* rewards on the account that no sync has recognised
  actions,   \* stake actions scheduled on the account, in order
  proposal,  \* what the last accepted action asked for
  locked,    \* account_locked_balance
  chains,    \* slot -> operation in progress
  clean,     \* ghost: see Disturbed
  behind     \* ghost: recognised since an operation last asked for the total

vars == <<total, key, earned, actions, proposal, locked, chains, clean, behind>>

-----------------------------------------------------------------------------
Idle == [kind |-> "none", phase |-> "idle", amount |-> 0]

(* A "restake" is a ping or a change of the key.  A stake is "minted" until *)
(* restake_or_refund schedules its action.                                  *)
Chain == [kind : {"stake", "unstake", "restake"},
          phase : {"minted", "scheduled", "accepted", "refused"}, amount : Nat]

Action == [amount : Nat, key : Keys, of : Slots \cup {NoOne}]

Quiescent == actions = <<>> /\ \A s \in Slots : chains[s] = Idle

(* What a sync at this moment may add to the total: all rewards, or nothing *)
(* if the epoch was synced before or a deficit postpones it.                *)
Syncs == {0, earned}

Schedule(amount, k, of) ==
  /\ Len(actions) < MaxActions
  /\ actions' = Append(actions, [amount |-> amount, key |-> k, of |-> of])
  /\ behind' = 0

Begin(s, kind, phase, amount) ==
  /\ chains[s] = Idle
  /\ chains' = [chains EXCEPT ![s] = [kind |-> kind, phase |-> phase, amount |-> amount]]

End(s) == chains' = [chains EXCEPT ![s] = Idle]

(* The proposal can be expected to follow the total from a moment when      *)
(* nothing is in flight, until a stake action is refused.                   *)
Undisturbed == clean' = (clean \/ Quiescent)
Disturbed   == clean' = FALSE

Init ==
  /\ total = Stake /\ key = FirstKey /\ earned = 0
  /\ actions = <<>>
  /\ proposal = [amount |-> Stake, key |-> FirstKey]
  /\ locked = Stake
  /\ chains = [s \in Slots |-> Idle]
  /\ clean = TRUE /\ behind = 0

-----------------------------------------------------------------------------
(* Operations.                                                              *)

(* The sync of an operation that does not restake in the same receipt:      *)
(* stake, on_near_withdraw and set_protocol_fee_bps.                        *)
SyncOnly ==
  /\ earned > 0
  /\ total' = total + earned /\ earned' = 0
  /\ behind' = behind + earned
  /\ UNCHANGED <<key, actions, proposal, locked, chains, clean>>

(* The batch of a stake: modify_state_before_stake.                         *)
BeginStake(s, n) ==
  /\ total + earned + n <= MaxTotal
  /\ Begin(s, "stake", "minted", n)
  /\ total' = total + n
  /\ Undisturbed
  /\ UNCHANGED <<key, earned, actions, proposal, locked, behind>>

\* A bug ConcurrentStakesAreSafe catches: a stake adds its amount to the last proposal.
Restaked_OwnAmount(s) == proposal.amount + chains[s].amount

(* restake_or_refund asks for the total of the moment.                      *)
Restaked(s) == total

RestakeOrRefund(s) ==
  /\ chains[s].phase = "minted"
  /\ chains' = [chains EXCEPT ![s].phase = "scheduled"]
  /\ Schedule(Restaked(s), key, s)
  /\ UNCHANGED <<total, key, earned, proposal, locked, clean>>

(* handle_unstaking.  Its only check of the total does not tell what others *)
(* may have to take back.                                                   *)
BeginUnstake(s, n) ==
  \E r \in Syncs :
    /\ n <= total + r
    /\ Begin(s, "unstake", "scheduled", n)
    /\ total' = total + r - n /\ earned' = earned - r
    /\ Schedule(total + r - n, key, s)
    /\ Undisturbed
    /\ UNCHANGED <<key, proposal, locked>>

(* ping, when it recognises a reward; otherwise it changes nothing.         *)
Ping(s) ==
  /\ earned > 0
  /\ Begin(s, "restake", "scheduled", 0)
  /\ total' = total + earned /\ earned' = 0
  /\ Schedule(total + earned, key, s)
  /\ Undisturbed
  /\ UNCHANGED <<key, proposal, locked>>

SetValidatorPublicKey(s, k) ==
  \E r \in Syncs :
    /\ Begin(s, "restake", "scheduled", 0)
    /\ key' = k
    /\ total' = total + r /\ earned' = earned - r
    /\ Schedule(total + r, k, s)
    /\ Undisturbed
    /\ UNCHANGED <<proposal, locked>>

-----------------------------------------------------------------------------
(* The stake actions and their callbacks.                                   *)

Accepted(a) ==
  IF a.amount = 0 THEN locked > 0
                  ELSE a.key \notin BadKeys /\ a.amount >= MinStake

Answered(a, phase) ==
  chains' = IF a.of = NoOne THEN chains ELSE [chains EXCEPT ![a.of].phase = phase]

RunAction ==
  /\ actions # <<>>
  /\ actions' = Tail(actions)
  /\ LET a == Head(actions)
     IN  IF Accepted(a)
         THEN /\ proposal' = [amount |-> a.amount, key |-> a.key]
              /\ locked' = IF a.amount > locked THEN a.amount ELSE locked
              /\ Answered(a, "accepted")
              /\ UNCHANGED clean
         ELSE /\ Answered(a, "refused")
              /\ Disturbed
              /\ UNCHANGED <<proposal, locked>>
  /\ UNCHANGED <<total, key, earned, behind>>

(* on_restake_or_refund, on_unstake and on_restake after an accepted action.*)
OnAccepted(s) ==
  /\ chains[s].phase = "accepted"
  /\ End(s)
  /\ UNCHANGED <<total, key, earned, actions, proposal, locked, clean, behind>>

\* A bug TypeOK catches: the total is lowered without the checked_sub.
RollbackFits_Unchecked(c) == TRUE

(* decrease_stake_amount panics if others have unstaked so much meanwhile   *)
(* that the total no longer covers the stake that is taken back.            *)
RollbackFits(c) == c.kind = "stake" => c.amount <= total

(* rollback_state_after_stake, rollback_state_after_unstake.                *)
RolledBack(c) == IF c.kind = "stake" THEN total - c.amount ELSE total + c.amount

(* on_restake_or_refund and on_unstake after a failure.  A panic reverts    *)
(* the callback, and nothing calls it again.                                *)
OnRefused(s) ==
  LET c == chains[s]
  IN  /\ c.phase = "refused" /\ c.kind # "restake"
      /\ \/ RollbackFits(c) /\ total' = RolledBack(c)
         \/ ~RollbackFits(c) /\ UNCHANGED total
      /\ End(s)
      /\ UNCHANGED <<key, earned, actions, proposal, locked, clean, behind>>

\* A bug BadKeyUnstakes catches: what is locked is left where it is.
GivenUp_Locked == locked

(* What on_restake asks for after a failure.                                *)
GivenUp == 0

(* on_restake after a failure: unstake everything, with the present key.    *)
OnRestakeFailed(s) ==
  /\ chains[s].phase = "refused" /\ chains[s].kind = "restake"
  /\ IF locked > 0 THEN Schedule(GivenUp, key, NoOne) ELSE UNCHANGED <<actions, behind>>
  /\ End(s)
  /\ Disturbed
  /\ UNCHANGED <<total, key, earned, proposal, locked>>

(* A new epoch pays the validator and unlocks what is not staked any more.  *)
NextEpoch ==
  /\ locked' = proposal.amount
  /\ \E r \in {0, Reward} :
       /\ r > 0 => proposal.amount > 0 /\ total + earned + r <= MaxTotal
       /\ earned' = earned + r
  /\ UNCHANGED <<total, key, actions, proposal, chains, clean, behind>>

-----------------------------------------------------------------------------
Callback(s) == OnAccepted(s) \/ OnRefused(s) \/ OnRestakeFailed(s)

Next ==
  \/ SyncOnly
  \/ \E s \in Slots, n \in Amounts : BeginStake(s, n) \/ BeginUnstake(s, n)
  \/ \E s \in Slots : RestakeOrRefund(s) \/ Ping(s) \/ Callback(s)
  \/ \E s \in Slots, k \in Keys : SetValidatorPublicKey(s, k)
  \/ RunAction
  \/ NextEpoch

Spec == Init /\ [][Next]_vars

-----------------------------------------------------------------------------
(* Properties.                                                              *)

TypeOK ==
  /\ total \in Nat /\ key \in Keys /\ earned \in Nat
  /\ actions \in Seq(Action) /\ Len(actions) <= MaxActions
  /\ proposal \in [amount : Nat, key : Keys]
  /\ locked \in Nat
  /\ chains \in [Slots -> Chain \cup {Idle}]
  /\ clean \in BOOLEAN /\ behind \in Nat

(* "Neither stake amount is lost" (README): when all operations of a period *)
(* are over and none of their stake actions was refused, the validator's    *)
(* proposal is the total, with the present key, whatever the order in which *)
(* they changed the total, scheduled and ran; only rewards recognised since *)
(* the last of them asked, by a sync that does not restake, are missing.    *)
(* So one operation that begins with nothing in flight and succeeds repairs *)
(* any earlier difference.                                                  *)
ConcurrentStakesAreSafe ==
  Quiescent /\ clean => proposal = [amount |-> total - behind, key |-> key]

(* "The contract continues serving withdrawals from the unbonded NEAR"      *)
(* (README, bad-key recovery): a bad key never leaves NEAR staked with the  *)
(* validator of an earlier key, whatever was in flight when it was set.     *)
BadKeyUnstakes == Quiescent /\ key \in BadKeys => proposal.amount = 0

=============================================================================
