----------------------------- MODULE StakePool -----------------------------
(***************************************************************************)
(* The staking half of the liquid staking token: stake.rs, unstake.rs,      *)
(* sync_rewards_internal and ping of pool/mod.rs, set_protocol_fee_bps, and *)
(* the parts of storage.rs and resolver.rs they meet.                       *)
(*                                                                         *)
(* A stake or an unstake is a chain of receipts.  A stake quotes its LST in *)
(* the receipt that accepts the deposit (native) or the unwrapped NEAR      *)
(* (wNEAR), books the deposit and mints in a batch on the account itself,   *)
(* asks the validator in a third receipt, and delivers or rolls back in a   *)
(* fourth.  An unstake burns first and queues or rolls back afterwards.     *)
(* Between two receipts of a chain any receipt of another one may run; the  *)
(* LST of all chains meanwhile sits on one account, the pool's own, and     *)
(* their NEAR in one balance, which reward syncs compare with the tracked   *)
(* total.                                                                   *)
(*                                                                         *)
(* The validator, wNEAR and the receivers are external and modelled from    *)
(* how the contract uses them.  A queued claim stays in `pending` here:     *)
(* module Withdrawals pays it.                                              *)
(***************************************************************************)
EXTENDS Totals

CONSTANTS
  Users,         \* accounts that stake and unstake
  Slots,         \* chains that can be in flight at the same time
  MaxChains,     \* bound on the chains explored
  Messages,      \* stakes asked for: native or wNEAR, with is_storage_deposit, with msg
  Deposits,      \* NEAR amounts of stakes
  StorageCost,   \* FT_STORAGE_DEPOSIT, which is storage_balance_bounds().min
  Stake,         \* NEAR locked when the contract is created
  Reserve,       \* NEAR of the account that is never staked
  Rewards,       \* validator rewards an epoch may bring
  Fees,          \* values of protocol_fee_bps
  MaxEpoch       \* bound on the epochs explored

BPS_DENOMINATOR == 10000
MAX_PROTOCOL_FEE_BPS == 2000

ASSUME StakePoolAssumption ==
  /\ IsFiniteSet(Users) /\ IsFiniteSet(Slots)
  /\ {"pool", "treasury"} \cap Users = {}
  /\ MaxChains \in Nat /\ MaxEpoch \in Nat
  /\ Messages \subseteq [native : BOOLEAN, storage : BOOLEAN, notify : BOOLEAN]
  /\ Deposits \subseteq Nat \ {0} /\ StorageCost \in Nat \ {0}
  /\ Stake \in Nat /\ Reserve \in Nat
  /\ Rewards \subseteq Nat
  /\ 0 \in Fees /\ Fees \subseteq 0..MAX_PROTOCOL_FEE_BPS

VARIABLES
  \* state of the contract
  staked,             \* statistics.total_staked_amount
  tracked,            \* statistics.latest_total_balance
  pending,            \* statistics.total_pending_withdrawals
  last_epoch_synced,  \* statistics.last_epoch_synced
  protocol_fee_bps,   \* statistics.protocol_fee_bps
  lst,                \* LST balances, with the pool's and the treasury's
  registered,         \* users with a storage deposit
  \* the chain around it
  epoch,              \* env::epoch_height()
  balance,            \* account_locked_balance + account_balance
  returning,          \* NEAR on its way back to the account
  chains,             \* slot -> stake or unstake in progress
  started,            \* chains started so far (bound)
  \* ghosts
  surplus,            \* NEAR earned or forfeited and not yet recognised
  kept,               \* storage deposits of receivers registered already
  stranded            \* LST of ended chains that stays on the pool's account

statistics == <<staked, tracked, pending, last_epoch_synced, protocol_fee_bps>>
token      == <<lst, registered>>
ghostVars  == <<surplus, kept, stranded>>
vars       == <<statistics, token, epoch, balance, returning, chains, started,
                ghostVars>>

Accounts == Users \cup {"pool", "treasury"}

total_supply == Total(lst)

-----------------------------------------------------------------------------
(* The exchange rate.                                                       *)

near_to_lst(near, S, supply) ==
  IF supply = 0 \/ S = 0 THEN near ELSE (near * supply) \div S

\* A bug RateNeverFalls catches: the payout is rounded up.
lst_to_near_Ceil(amount, S, supply) ==
  IF supply = 0 THEN 0 ELSE (amount * S + supply - 1) \div supply

lst_to_near(amount, S, supply) ==
  IF supply = 0 THEN 0 ELSE (amount * S) \div supply

split_protocol_fee(reward) == (reward * protocol_fee_bps) \div BPS_DENOMINATOR

-----------------------------------------------------------------------------
(* sync_rewards_internal.  What the account holds above the tracked total,  *)
(* without the deposit attached to the running call, is a reward: the       *)
(* users' part lifts the rate, the treasury gets LST for the fee at the     *)
(* lifted rate.                                                             *)
NothingSynced ==
  [staked |-> staked, tracked |-> tracked, minted |-> 0, reward |-> 0,
   epoch |-> last_epoch_synced]

\* A bug OnlyEarnedIsRecognised catches: the attached deposit is not excluded.
Excluded_Nothing(deposit) == 0

(* amount_to_exclude of stake: the deposit attached to the call.            *)
Excluded(deposit) == deposit

(* `attached` is in the account's balance while the call that syncs runs.   *)
SyncRewards(attached) ==
  LET current == balance + attached - Excluded(attached)
      reward  == current - tracked
      fee     == split_protocol_fee(reward)
      S       == staked + (reward - fee)
  IN  IF epoch = last_epoch_synced \/ current <= tracked THEN NothingSynced
      ELSE [staked  |-> S + fee,
            tracked |-> current,
            minted  |-> near_to_lst(fee, S, total_supply),
            reward  |-> reward,
            epoch   |-> epoch]

(* The supply after the treasury's part of a sync.                          *)
Supply(y) == total_supply + y.minted

-----------------------------------------------------------------------------
(* Chains.                                                                  *)

(* A stake: "unwrap" until wNEAR has burned the deposit, "unwrapped" until  *)
(* on_near_withdraw, "batch" until the batch on the account itself, then    *)
(* "booked" or "unbooked" until restake_or_refund, "staking" until          *)
(* on_restake_or_refund, "notified" until on_ft_on_transfer, "rewrap" until *)
(* refund_wnear_deposit.  An unstake: "sent" until ft_on_transfer,          *)
(* "unstaking" until on_unstake, "resolving" until ft_resolve_transfer.     *)
Idle == [phase |-> "idle"]

Chain ==
  [phase : {"unwrap", "unwrapped", "batch", "booked", "unbooked", "staking",
            "notified", "rewrap", "sent", "unstaking", "resolving"},
   user : Users, native : BOOLEAN, notify : BOOLEAN,
   deposit : Nat, fee : Nat, near : Int, lst : Nat,
   trigger : {"UserRequest", "RefundByContract"}]

Active == {s \in Slots : chains[s] # Idle}

At(s, phase) == chains[s].phase = phase

Start(s, c) ==
  /\ chains[s] = Idle
  /\ started < MaxChains
  /\ started' = started + 1
  /\ chains' = [chains EXCEPT ![s] = c]

Continue(s, phase) ==
  /\ chains' = [chains EXCEPT ![s].phase = phase]
  /\ UNCHANGED started

End(s) ==
  /\ chains' = [chains EXCEPT ![s] = Idle]
  /\ UNCHANGED started

Commit(y) ==
  /\ staked' = y.staked
  /\ last_epoch_synced' = y.epoch
  /\ surplus' = surplus - y.reward

(* stake_and_deposit goes on if the deposit pays for the storage and the    *)
(* rest buys at least one yocto of LST.                                     *)
Buys(c, y) ==
  /\ c.deposit > c.fee
  /\ near_to_lst(c.deposit - c.fee, y.staked, Supply(y)) > 0

(* What stake_and_deposit fixes for the whole chain.                        *)
Quoted(c, y) ==
  [c EXCEPT !.phase = "batch",
            !.near  = c.deposit - c.fee,
            !.lst   = near_to_lst(c.deposit - c.fee, y.staked, Supply(y))]

NewStake(u, m, d, phase) ==
  [phase |-> phase, user |-> u, native |-> m.native, notify |-> m.notify,
   deposit |-> d, fee |-> IF m.storage THEN StorageCost ELSE 0,
   near |-> 0, lst |-> 0, trigger |-> "RefundByContract"]

NewUnstake(u, amount) ==
  [phase |-> "sent", user |-> u, native |-> FALSE, notify |-> FALSE,
   deposit |-> 0, fee |-> 0, near |-> 0, lst |-> amount, trigger |-> "UserRequest"]

-----------------------------------------------------------------------------
Init ==
  /\ staked = Stake
  /\ tracked = Stake + Reserve
  /\ pending = 0
  /\ last_epoch_synced = 0
  /\ protocol_fee_bps = 0
  /\ lst = [a \in Accounts |-> IF a = "treasury" THEN Stake ELSE 0]
  /\ registered = {}
  /\ epoch = 0
  /\ balance = Stake + Reserve
  /\ returning = 0
  /\ chains = [s \in Slots |-> Idle]
  /\ started = 0
  /\ surplus = 0 /\ kept = 0 /\ stranded = 0

-----------------------------------------------------------------------------
(* Staking.                                                                 *)

(* stake with an attached deposit, which leaves again with the batch.       *)
StakeNative(s, u, m, d) ==
  LET y == SyncRewards(d)
      c == NewStake(u, m, d, "batch")
  IN  /\ m.native
      /\ Buys(c, y)
      /\ Start(s, Quoted(c, y))
      /\ Commit(y)
      /\ tracked' = y.tracked
      /\ lst' = [lst EXCEPT !["treasury"] = @ + y.minted]
      /\ UNCHANGED <<pending, protocol_fee_bps, registered, epoch, balance,
                     returning, kept, stranded>>

(* ft_on_transfer of wNEAR: the deposit is booked before it is unwrapped.   *)
StakeWnear(s, u, m, d) ==
  /\ ~m.native
  /\ Start(s, NewStake(u, m, d, "unwrap"))
  /\ tracked' = tracked + d
  /\ UNCHANGED <<staked, pending, last_epoch_synced, protocol_fee_bps, token,
                 epoch, balance, returning, ghostVars>>

UnwrapArrives(s) ==
  /\ At(s, "unwrap")
  /\ Continue(s, "unwrapped")
  /\ balance' = balance + chains[s].deposit
  /\ UNCHANGED <<statistics, token, epoch, returning, ghostVars>>

(* near_withdraw failed: on_near_withdraw undoes the booking, and wNEAR     *)
(* gives the tokens back to the sender.                                     *)
UnwrapFails(s) ==
  /\ At(s, "unwrap")
  /\ End(s)
  /\ tracked' = tracked - chains[s].deposit
  /\ UNCHANGED <<staked, pending, last_epoch_synced, protocol_fee_bps, token,
                 epoch, balance, returning, ghostVars>>

(* on_near_withdraw: sync and quote, or book out and wrap again.            *)
OnNearWithdraw(s) ==
  LET c == chains[s]
      y == SyncRewards(0)
  IN  /\ At(s, "unwrapped")
      /\ \/ /\ Buys(c, y)
            /\ chains' = [chains EXCEPT ![s] = Quoted(c, y)]
            /\ tracked' = y.tracked
            /\ balance' = balance - c.fee
         \/ /\ ~Buys(c, y)
            /\ chains' = [chains EXCEPT ![s].phase = "rewrap", ![s].near = c.deposit]
            /\ tracked' = y.tracked - c.deposit
            /\ balance' = balance - c.deposit
      /\ Commit(y)
      /\ lst' = [lst EXCEPT !["treasury"] = @ + y.minted]
      /\ UNCHANGED <<pending, protocol_fee_bps, registered, epoch, returning,
                     started, kept, stranded>>

\* A bug TrackerLedger and Solvency catch: only the staked part is booked.
Booked_StakeOnly(c) == IF c.native THEN c.near ELSE 0

(* deposit_amount of modify_state_before_stake.                             *)
Booked(c) == IF c.native THEN c.deposit ELSE 0

(* The batch on the account itself: the transfer and storage_deposit, which *)
(* gives the deposit of a registered receiver back to its caller, the       *)
(* account, and modify_state_before_stake.                                  *)
BatchSucceeds(s) ==
  LET c     == chains[s]
      again == IF c.fee > 0 /\ c.user \in registered THEN c.fee ELSE 0
  IN  /\ At(s, "batch")
      /\ c.fee > 0 \/ c.user \in registered
      /\ Continue(s, "booked")
      /\ registered' = registered \cup {c.user}
      /\ balance' = balance + (IF c.native THEN c.deposit ELSE c.fee) - again
      /\ returning' = returning + again
      /\ kept' = kept + again
      /\ tracked' = tracked + Booked(c)
      /\ staked' = staked + c.near
      /\ lst' = [lst EXCEPT !["pool"] = @ + c.lst]
      /\ UNCHANGED <<pending, last_epoch_synced, protocol_fee_bps, epoch,
                     surplus, stranded>>

(* The receiver is not registered: everything in the batch is reverted, and *)
(* a native deposit goes back to its sender.                                *)
BatchFails(s) ==
  /\ At(s, "batch")
  /\ chains[s].fee = 0 /\ chains[s].user \notin registered
  /\ Continue(s, "unbooked")
  /\ UNCHANGED <<statistics, token, epoch, balance, returning, ghostVars>>

\* A bug TrackerLedger and Solvency catch: the deposit leaves unbooked.
BookedOut_Nothing(amount) == 0

(* refund_booked_wnear takes the deposit off the tracked total.             *)
BookedOut(amount) == amount

(* restake_or_refund                                                        *)
RestakeOrRefund(s) ==
  LET c == chains[s]
  IN  /\ \/ /\ At(s, "booked")
            /\ Continue(s, "staking")
            /\ UNCHANGED <<tracked, balance>>
         \/ /\ At(s, "unbooked") /\ c.native
            /\ End(s)
            /\ UNCHANGED <<tracked, balance>>
         \/ /\ At(s, "unbooked") /\ ~c.native
            /\ chains' = [chains EXCEPT ![s].phase = "rewrap", ![s].near = c.deposit]
            /\ tracked' = tracked - BookedOut(c.deposit)
            /\ balance' = balance - c.deposit
            /\ UNCHANGED started
      /\ UNCHANGED <<staked, pending, last_epoch_synced, protocol_fee_bps, token,
                     epoch, returning, ghostVars>>

(* on_restake_or_refund after a successful restake: deliver the LST, unless *)
(* the receiver has unregistered meanwhile.                                 *)
OnRestakeOk(s) ==
  LET c == chains[s]
  IN  /\ At(s, "staking")
      /\ \/ /\ c.user \in registered
            /\ c.lst <= lst["pool"]
            /\ lst' = [lst EXCEPT !["pool"] = @ - c.lst, ![c.user] = @ + c.lst]
            /\ IF c.notify THEN Continue(s, "notified") ELSE End(s)
            /\ UNCHANGED stranded
         \/ /\ c.user \notin registered
            /\ End(s)
            /\ stranded' = stranded + c.lst
            /\ UNCHANGED lst
      /\ UNCHANGED <<statistics, registered, epoch, balance, returning, surplus,
                     kept>>

\* A bug PoolLstIsInFlight and OldQuotesBoundRate catch: the burn is quoted
\* anew, at today's rate.
BurnedBack_Requoted(c) == near_to_lst(c.near, staked, total_supply)

(* What rollback_state_after_stake burns: the amount quoted and minted.     *)
BurnedBack(c) == c.lst

\* A bug TypeOK catches: the totals are lowered without the checked_sub.
RollbackFits_Unchecked(c) == TRUE

(* rollback_state_after_stake panics, and so reverts, if one of the totals  *)
(* no longer covers what it takes back.                                     *)
RollbackFits(c) ==
  c.lst <= lst["pool"] /\ c.near <= staked /\ c.near <= tracked

\* A bug Solvency catches: the storage deposit, already spent, goes back too.
RolledBack_Deposit(c) == c.deposit

(* What the tracked total loses in a rollback, and the sender gets back.    *)
RolledBack(c) == c.near

(* on_restake_or_refund after a failed restake.                             *)
OnRestakeFailed(s) ==
  LET c == chains[s]
  IN  /\ At(s, "staking")
      /\ \/ /\ RollbackFits(c)
            /\ lst' = [lst EXCEPT !["pool"] = @ - BurnedBack(c)]
            /\ staked' = staked - c.near
            /\ tracked' = tracked - RolledBack(c)
            /\ balance' = balance - RolledBack(c)
            /\ IF c.native THEN End(s) ELSE Continue(s, "rewrap")
            /\ UNCHANGED stranded
         \/ /\ ~RollbackFits(c)
            /\ End(s)
            /\ stranded' = stranded + c.lst
            /\ UNCHANGED <<staked, tracked, lst, balance>>
      /\ UNCHANGED <<pending, last_epoch_synced, protocol_fee_bps, registered,
                     epoch, returning, surplus, kept>>

(* refund_wnear_deposit.  If near_deposit failed, the NEAR comes back to    *)
(* the account and the sender gets nothing.                                 *)
Rewrap(s) ==
  /\ At(s, "rewrap")
  /\ End(s)
  /\ \E back \in {0, chains[s].near} :
       /\ returning' = returning + back
       /\ surplus' = surplus + back
  /\ UNCHANGED <<statistics, token, epoch, balance, kept, stranded>>

-----------------------------------------------------------------------------
(* Unstaking.                                                               *)

(* ft_transfer_call of LST to the contract: the tokens move first.          *)
SendUnstake(s, u, amount) ==
  /\ amount <= lst[u]
  /\ Start(s, NewUnstake(u, amount))
  /\ lst' = [lst EXCEPT ![u] = @ - amount, !["pool"] = @ + amount]
  /\ UNCHANGED <<statistics, registered, epoch, balance, returning, ghostVars>>

(* handle_unstaking of `amount` LST that `holder` has handed to the pool.   *)
Pays(y, amount) == lst_to_near(amount, y.staked, Supply(y))

Unstakes(s, holder, amount) ==
  LET y    == SyncRewards(0)
      near == Pays(y, amount)
  IN  /\ near > 0 /\ near <= y.staked
      /\ chains' = [chains EXCEPT ![s].phase = "unstaking", ![s].lst = amount,
                                  ![s].near = near]
      /\ Commit([y EXCEPT !.staked = @ - near])
      /\ tracked' = y.tracked
      /\ lst' = [lst EXCEPT !["treasury"] = @ + y.minted, ![holder] = @ - amount]
      /\ UNCHANGED <<pending, protocol_fee_bps, registered, epoch, balance,
                     returning, started, kept, stranded>>

(* ft_on_transfer.  If it panics, on a message that does not parse or for   *)
(* lack of gas, the resolver gives the LST back.                            *)
OnUnstakeTransfer(s) ==
  /\ At(s, "sent")
  /\ \/ Unstakes(s, "pool", chains[s].lst)
     \/ /\ Continue(s, "resolving")
        /\ UNCHANGED <<statistics, token, epoch, balance, returning, ghostVars>>

(* on_ft_on_transfer: what the receiver did not use comes back to the pool  *)
(* and is unstaked at once.  Without a refund message, without a refund, or *)
(* if the unstake panics, the LST stays with the receiver.                  *)
OnFtOnTransfer(s) ==
  /\ At(s, "notified")
  /\ \/ \E refund \in 1..chains[s].lst :
          /\ refund <= lst[chains[s].user]
          /\ Unstakes(s, chains[s].user, refund)
     \/ /\ End(s)
        /\ UNCHANGED <<statistics, token, epoch, balance, returning, ghostVars>>

OnUnstakeOk(s) ==
  /\ At(s, "unstaking")
  /\ End(s)
  /\ pending' = pending + chains[s].near
  /\ UNCHANGED <<staked, tracked, last_epoch_synced, protocol_fee_bps, token,
                 epoch, balance, returning, ghostVars>>

(* on_unstake after a failed restake.  Only a user's own ft_transfer_call   *)
(* has a resolver that takes the LST back.                                  *)
OnUnstakeFailed(s) ==
  LET c == chains[s]
  IN  /\ At(s, "unstaking")
      /\ staked' = staked + c.near
      /\ lst' = [lst EXCEPT !["pool"] = @ + c.lst]
      /\ \/ /\ c.trigger = "UserRequest"
            /\ Continue(s, "resolving")
            /\ UNCHANGED stranded
         \/ /\ c.trigger = "RefundByContract"
            /\ End(s)
            /\ stranded' = stranded + c.lst
      /\ UNCHANGED <<tracked, pending, last_epoch_synced, protocol_fee_bps,
                     registered, epoch, balance, returning, surplus, kept>>

(* ft_resolve_transfer: back to the sender, or burned if it is gone.        *)
ResolveTransfer(s) ==
  LET c == chains[s]
  IN  /\ At(s, "resolving")
      /\ c.lst <= lst["pool"]
      /\ lst' = IF c.user \in registered
                THEN [lst EXCEPT !["pool"] = @ - c.lst, ![c.user] = @ + c.lst]
                ELSE [lst EXCEPT !["pool"] = @ - c.lst]
      /\ End(s)
      /\ UNCHANGED <<statistics, registered, epoch, balance, returning, ghostVars>>

-----------------------------------------------------------------------------
(* Everybody else.                                                          *)

(* storage_deposit and storage_unregister by a user; unregistering by force *)
(* burns the user's LST.                                                    *)
Register(u) ==
  /\ u \notin registered
  /\ registered' = registered \cup {u}
  /\ tracked' = tracked + StorageCost
  /\ balance' = balance + StorageCost
  /\ UNCHANGED <<staked, pending, last_epoch_synced, protocol_fee_bps, lst,
                 epoch, returning, chains, started, ghostVars>>

Unregister(u) ==
  /\ u \in registered
  /\ registered' = registered \ {u}
  /\ lst' = [lst EXCEPT ![u] = 0]
  /\ tracked' = tracked - StorageCost
  /\ balance' = balance - StorageCost
  /\ UNCHANGED <<staked, pending, last_epoch_synced, protocol_fee_bps, epoch,
                 returning, chains, started, ghostVars>>

(* ping, and the sync in set_validator_public_key and set_protocol_fee_bps, *)
(* which then changes the fee.                                              *)
Sync(bps) ==
  LET y == SyncRewards(0)
  IN  /\ Commit(y)
      /\ tracked' = y.tracked
      /\ lst' = [lst EXCEPT !["treasury"] = @ + y.minted]
      /\ protocol_fee_bps' = bps
      /\ UNCHANGED <<pending, registered, epoch, balance, returning, chains,
                     started, kept, stranded>>

Ping == Sync(protocol_fee_bps)

SetProtocolFee == \E bps \in Fees : Sync(bps)

ReturnArrives ==
  /\ \E n \in 1..returning :
       /\ returning' = returning - n
       /\ balance' = balance + n
  /\ UNCHANGED <<statistics, token, epoch, chains, started, ghostVars>>

NextEpoch ==
  /\ epoch < MaxEpoch
  /\ epoch' = epoch + 1
  /\ \E r \in Rewards : balance' = balance + r /\ surplus' = surplus + r
  /\ UNCHANGED <<statistics, token, returning, chains, started, kept, stranded>>

-----------------------------------------------------------------------------
Begin(s) ==
  \E u \in Users :
    \/ \E m \in Messages, d \in Deposits : StakeNative(s, u, m, d) \/ StakeWnear(s, u, m, d)
    \/ \E amount \in 1..lst[u] : SendUnstake(s, u, amount)

Receipt(s) ==
  \/ UnwrapArrives(s) \/ UnwrapFails(s) \/ OnNearWithdraw(s)
  \/ BatchSucceeds(s) \/ BatchFails(s) \/ RestakeOrRefund(s)
  \/ OnRestakeOk(s) \/ OnRestakeFailed(s) \/ Rewrap(s)
  \/ OnFtOnTransfer(s) \/ OnUnstakeTransfer(s)
  \/ OnUnstakeOk(s) \/ OnUnstakeFailed(s) \/ ResolveTransfer(s)

Next ==
  \/ \E s \in Slots : Begin(s) \/ Receipt(s)
  \/ \E u \in Users : Register(u) \/ Unregister(u)
  \/ Ping \/ SetProtocolFee
  \/ ReturnArrives
  \/ NextEpoch

Spec == Init /\ [][Next]_vars

-----------------------------------------------------------------------------
(* Properties.                                                              *)

SumOver(F(_)) == Total([s \in Active |-> F(chains[s])])

(* Every variable keeps its type: no rollback, refund or burn takes more    *)
(* than there is, from a total, from the account or from an LST balance.    *)
TypeOK ==
  /\ staked \in Nat /\ tracked \in Nat /\ pending \in Nat
  /\ last_epoch_synced \in 0..MaxEpoch /\ epoch \in 0..MaxEpoch
  /\ protocol_fee_bps \in Fees
  /\ lst \in [Accounts -> Nat]
  /\ registered \subseteq Users
  /\ balance \in Nat /\ returning \in Nat
  /\ chains \in [Slots -> Chain \cup {Idle}]
  /\ started \in 0..MaxChains
  /\ surplus \in Int /\ kept \in Nat /\ stranded \in Nat

(* The pool's own LST account, which all chains share, holds exactly the    *)
(* LST of the chains in flight and what ended chains have left there: no    *)
(* chain burns or delivers the LST of another.                              *)
PoolLst(c) ==
  IF c.phase \in {"booked", "staking", "sent", "resolving"} THEN c.lst ELSE 0

PoolLstIsInFlight == lst["pool"] = SumOver(PoolLst) + stranded

(* NEAR the tracked total counts although it is not on the account: a wNEAR *)
(* deposit being unwrapped, and a storage deposit on its way to the batch.  *)
InTransit(c) ==
  CASE c.phase = "unwrap"               -> c.deposit
    [] c.phase = "batch" /\ ~c.native  -> c.fee
    [] OTHER                           -> 0

(* The tracked total and the account's NEAR differ by what is in transit    *)
(* and by what is to be recognised, at every receipt of every chain.        *)
TrackerLedger == balance + returning + SumOver(InTransit) = tracked + surplus

(* NEAR in the tracked total that belongs to a chain and is neither staked  *)
(* nor queued: an accepted wNEAR deposit, and an unstake being restaked.    *)
InChain(c) ==
  CASE c.phase \in {"unwrap", "unwrapped"}              -> c.deposit
    [] c.phase \in {"batch", "unbooked"} /\ ~c.native   -> c.deposit
    [] c.phase = "unstaking"                           -> c.near
    [] OTHER                                           -> 0

(* All tracked NEAR is accounted for: the stake behind the LST, the queued  *)
(* claims, the chains in flight, the storage deposits and the reserve.      *)
Solvency ==
  tracked = staked + pending + SumOver(InChain) + Reserve + kept
              + StorageCost * Cardinality(registered)

(* A sync recognises only what was earned or forfeited: nothing a chain has *)
(* in flight ever passes for a reward.                                      *)
OnlyEarnedIsRecognised == surplus >= 0

(* Steps of a chain at a rate fixed in an earlier receipt: booking a stake, *)
(* and the rollback of a stake or an unstake.                               *)
AtOldRate(s) ==
  /\ chains[s].phase \in {"batch", "staking", "unstaking"}
  /\ chains'[s] # chains[s]
  /\ staked' # staked

(* Everything else rounds in favour of the LST that stay: no sync, fee,     *)
(* unstake, burn or delivery lowers the NEAR behind one LST.                *)
RateNeverFalls ==
  [][(\A s \in Active : ~AtOldRate(s)) /\ total_supply > 0 =>
       staked' * total_supply >= staked * total_supply']_vars

(* Those steps move the rate no further than to the chain's own quote: a    *)
(* booking, or an unstake that is put back, leaves the lower of the two at  *)
(* worst, and a rollback lowers the rate only if the stake was bought at a  *)
(* higher one.                                                              *)
OldQuotesBoundRate ==
  [][\A s \in Active :
       LET c         == chains[s]
           rate_kept == staked' * total_supply >= staked * total_supply'
       IN  AtOldRate(s) =>
             IF staked' > staked
             THEN rate_kept \/ staked' * c.lst >= c.near * total_supply'
             ELSE c.near * total_supply <= staked * c.lst => rate_kept]_vars

(* README, "Token amount minted": stake_amount * total_lst_supply /         *)
(* total_staked_amount, floored.  The batch of a chain in flight can run    *)
(* now if its receiver is registered, or is registered by the batch: it     *)
(* would mint just that.                                                    *)
MintsAtCurrentRate ==
  \A s \in Active :
    LET c == chains[s]
    IN  At(s, "batch") /\ (c.fee > 0 \/ c.user \in registered) =>
          c.lst = near_to_lst(c.near, staked, total_supply)

(* README, "Staking with NEAR": a storage deposit for a receiver that is      *)
(* registered already stays on the contract and accrues to the pool as a     *)
(* reward: with no chain in flight the tracked total holds one deposit for   *)
(* each registered account and no other.                                     *)
StorageDepositAccrues ==
  Active = {} =>
    tracked = staked + pending + Reserve + StorageCost * Cardinality(registered)

=============================================================================
