----------------------------- MODULE Withdrawals -----------------------------
(***************************************************************************)
(* The withdrawal half of the liquid staking token                          *)
(* (contract/src/pool/withdraw/, with the tail of on_unstake and            *)
(* force_release_lock).                                                     *)
(*                                                                         *)
(* An unstake leaves a tranche under the hash of its UnstakeMessage.  Once  *)
(* the cooldown is over, withdraw merges the matured tranches of a hash     *)
(* into one locked tranche and sends the NEAR away at once; what happened   *)
(* to it is known only in a later receipt, the settlement callback, which   *)
(* books the outcome and unlocks.  Between the two, any other receipt may   *)
(* run: another unstake on the hash, another withdraw, a reward sync that   *)
(* compares the account's balance with the tracked total, an admin call.    *)
(*                                                                         *)
(* The account's balance, the wNEAR contract and the receivers are external *)
(* and modelled from how the contract uses them.  Yocto amounts are small   *)
(* naturals; ONE_YOCTO is 1 and FT_STORAGE_DEPOSIT is StorageCost.          *)
(***************************************************************************)
EXTENDS Tranches

CONSTANTS
  Hashes,           \* hashes of UnstakeMessages
  Slots,            \* withdrawals that can be in flight at the same time
  Kind,             \* Hashes -> "native", "transfer", "call" or "self"
  WantsStorage,     \* Hashes -> BOOLEAN: is_storage_deposit of the message
  StorageCost,      \* FT_STORAGE_DEPOSIT
  Stake,            \* total_staked_amount at the start
  Reserve,          \* NEAR of the account that was never staked
  Amounts,          \* NEAR amounts of unstakes
  Rewards,          \* validator rewards an epoch may bring
  MaxEpoch,         \* bound on the epochs explored
  AdminVerifies,    \* whether the admin follows the documented procedure
  BadResults        \* whether wNEAR may answer with an unreadable result

Kinds == {"native", "transfer", "call", "self"}

ASSUME WithdrawalsAssumption ==
  /\ IsFiniteSet(Hashes) /\ IsFiniteSet(Slots)
  /\ Kind \in [Hashes -> Kinds]
  /\ WantsStorage \in [Hashes -> BOOLEAN]
  /\ StorageCost \in Nat \ {0}
  /\ Stake \in Nat /\ Reserve \in Nat
  /\ Amounts \subseteq Nat \ {0}
  /\ Rewards \subseteq Nat
  /\ MaxEpoch \in Nat
  /\ AdminVerifies \in BOOLEAN /\ BadResults \in BOOLEAN

VARIABLES
  \* state of the contract
  queue,              \* withdrawal_requests: hash -> its tranches, {} if absent
  pending,            \* statistics.total_pending_withdrawals
  tracked,            \* statistics.latest_total_balance
  staked,             \* statistics.total_staked_amount
  last_epoch_synced,  \* statistics.last_epoch_synced
  \* the chain around it, with its epoch (module Tranches)
  balance,            \* account_locked_balance + account_balance
  returning,          \* NEAR of failed receipts on its way back to the account
  wnear,              \* wNEAR held by the contract's account
  flights,            \* slot -> withdrawal sent and not yet settled
  \* ghosts: what the outside world is owed or has seen
  owed,               \* hash -> NEAR unstaked and not yet received
  lost,               \* hash -> claims settled although nothing was delivered
  unsettled,          \* hash -> NEAR delivered whose settlement panicked
  surplus,            \* NEAR on the account that the tracker may still recognise
  shortfall,          \* tracked NEAR that left without being booked
  reserve,            \* what attached yoctos have left of Reserve
  forced              \* hashes released while their delivery was not settled

contractVars == <<queue, pending, tracked, staked, last_epoch_synced>>
chainVars    == <<epoch, balance, returning, wnear, flights>>
ghostVars    == <<owed, lost, unsettled, surplus, shortfall, reserve, forced>>
vars         == <<contractVars, chainVars, ghostVars>>

-----------------------------------------------------------------------------
ONE_YOCTO == 1

(* Deliveries: what withdraw computes from the tranche it has locked.       *)

StorageToPay(h, t) ==
  IF Kind[h] # "native" /\ WantsStorage[h] /\ ~t.storage_was_paid
  THEN StorageCost ELSE 0

AmountToSend(h, t) == t.withdrawal_amount - StorageToPay(h, t)

NearToDeposit(h, t) == AmountToSend(h, t) - t.wnear_residual

TransferDeposit(h) == IF Kind[h] \in {"native", "self"} THEN 0 ELSE ONE_YOCTO

\* A bug TypeOK catches: the storage deposit may exceed the claim.
CanSend_Unchecked(h, t) == TRUE

(* The checks of withdraw_wnear; a failed one panics and reverts the call.  *)
CanSend(h, t) ==
  Kind[h] # "native" =>
    /\ ~(Kind[h] = "self" /\ WantsStorage[h])
    /\ AmountToSend(h, t) >= 0
    /\ NearToDeposit(h, t) >= 0
    /\ Kind[h] = "self" => NearToDeposit(h, t) > 0

\* A bug OneLockPerHash catches: a second sweep while one is settling.
NotInProgress_Unchecked(Q) == TRUE

(* "Unstake request is already in progress" otherwise.                      *)
NotInProgress(Q) == \A t \in Q : ~t.locked

NoFlight == [status |-> "none"]

(* "sent" until delivered; "failed" if every step was reverted; "unresolved"*)
(* if the tokens moved but ft_transfer_call reports failure; "unreadable" if*)
(* its answer does not parse.  paid is what the receiver has really got.    *)
Flight == [status : {"sent", "ok", "failed", "unresolved", "unreadable"},
           hash : Hashes, amount_to_send : Nat, cost : Nat,
           storage_to_pay : Nat, reported : Nat, paid : Nat]

InFlight == {s \in Slots : flights[s] # NoFlight}

FlightsOf(h) == {s \in InFlight : flights[s].hash = h}

NewFlight(h, t) ==
  [status |-> "sent", hash |-> h, amount_to_send |-> AmountToSend(h, t),
   cost |-> IF Kind[h] = "native" THEN AmountToSend(h, t)
            ELSE NearToDeposit(h, t) + TransferDeposit(h),
   storage_to_pay |-> StorageToPay(h, t), reported |-> 0, paid |-> 0]

(* NEAR the flight took from the account.                                   *)
Spent(f) == f.cost + f.storage_to_pay

(* wNEAR minted to the account by near_deposit.                             *)
Deposited(f) == f.cost - TransferDeposit(f.hash)

IsCall(f) == Kind[f.hash] = "call"
-----------------------------------------------------------------------------
Init ==
  /\ queue = [h \in Hashes |-> {}]
  /\ pending = 0
  /\ tracked = Stake + Reserve
  /\ staked = Stake
  /\ last_epoch_synced = 0
  /\ epoch = 0
  /\ balance = Stake + Reserve
  /\ returning = 0
  /\ wnear = 0
  /\ flights = [s \in Slots |-> NoFlight]
  /\ owed = [h \in Hashes |-> 0]
  /\ lost = [h \in Hashes |-> 0]
  /\ unsettled = [h \in Hashes |-> 0]
  /\ surplus = 0
  /\ shortfall = 0
  /\ reserve = Reserve
  /\ forced = {}

(* on_unstake after a successful restake.  handle_unstaking has taken the   *)
(* amount out of total_staked_amount; module StakePool has the two steps.   *)
OnUnstake(h, amount) ==
  /\ amount <= staked
  /\ staked' = staked - amount
  /\ queue' = [queue EXCEPT ![h] = Appended(@, amount)]
  /\ pending' = pending + amount
  /\ owed' = [owed EXCEPT ![h] = @ + amount]
  /\ UNCHANGED <<tracked, last_epoch_synced, chainVars, lost, unsettled,
                 surplus, shortfall, reserve, forced>>

(* withdraw: lock the matured tranches of h as one and send the delivery.   *)
(* The runtime takes every attached deposit from the account at once.  The  *)
(* reserve, more than 10^24 yoctoNEAR of storage stake, outlasts the calls  *)
(* that spend one yoctoNEAR each: the guard on it is a bound of the model.  *)
Withdraw(h, s) ==
  LET t == Merged(Matured(queue[h]), TRUE)
      f == NewFlight(h, t)
  IN  /\ flights[s] = NoFlight
      /\ NotInProgress(queue[h])
      /\ AmountOf(Matured(queue[h])) > 0
      /\ CanSend(h, t)
      /\ Spent(f) <= balance
      /\ Cardinality(InFlight) < reserve
      /\ queue' = [queue EXCEPT ![h] = Collapsed(@, TRUE)]
      /\ flights' = [flights EXCEPT ![s] = f]
      /\ balance' = balance - Spent(f)
      /\ UNCHANGED <<pending, tracked, staked, last_epoch_synced, epoch,
                     returning, wnear, ghostVars>>

-----------------------------------------------------------------------------
(* The outcome of a delivery, on the accounts of wNEAR and the receiver.    *)

(* The transfer or the wNEAR batch went through: near_deposit minted, the   *)
(* receiver kept `got` of what was sent, and wNEAR gave the storage deposit *)
(* back if the receiver was registered already.                             *)
Delivered(s, status, got, reported) ==
  LET f == flights[s]
  IN  /\ f.status = "sent"
      /\ got <= f.amount_to_send
      /\ Kind[f.hash] \in {"transfer", "call"} =>
           /\ f.amount_to_send > 0
           /\ f.amount_to_send <= wnear + Deposited(f)
      /\ flights' = [flights EXCEPT ![s].status   = status,
                                    ![s].reported = reported,
                                    ![s].paid     = got + f.storage_to_pay]
      /\ wnear' = CASE Kind[f.hash] = "native" -> wnear
                    [] Kind[f.hash] = "self"   -> wnear + Deposited(f)
                    [] OTHER                   -> wnear + Deposited(f) - got
      /\ owed' = [owed EXCEPT ![f.hash] = @ - (got + f.storage_to_pay)]
      /\ \E back \in {0, f.storage_to_pay} :
           returning' = returning + back /\ surplus' = surplus + back
      /\ UNCHANGED <<contractVars, epoch, balance, lost, unsettled,
                     shortfall, reserve, forced>>

(* A plain delivery gives everything.  ft_transfer_call answers with what   *)
(* the receiver used; the answer may exceed what was sent.                  *)
DeliverOk(s) ==
  LET f == flights[s]
  IN  /\ f # NoFlight
      /\ \/ /\ ~IsCall(f)
            /\ Delivered(s, "ok", f.amount_to_send, f.amount_to_send)
         \/ /\ IsCall(f)
            /\ \E reported \in 0..(f.amount_to_send + 1) :
                 Delivered(s, "ok", Min({reported, f.amount_to_send}), reported)

(* The receiver kept the tokens and the wNEAR resolver failed afterwards.   *)
DeliverUnresolved(s) ==
  /\ flights[s] # NoFlight
  /\ IsCall(flights[s])
  /\ Delivered(s, "unresolved", flights[s].amount_to_send, 0)

(* The wNEAR chain went through but its answer is too long or not a number. *)
DeliverUnreadable(s) ==
  LET f == flights[s]
  IN  /\ BadResults
      /\ f # NoFlight
      /\ Kind[f.hash] # "native"
      /\ \E got \in (IF IsCall(f) THEN 0..f.amount_to_send ELSE {f.amount_to_send}) :
           Delivered(s, "unreadable", got, 0)

(* The receipt failed as a whole; the runtime sends every deposit back.     *)
DeliverFailed(s) ==
  LET f == flights[s]
  IN  /\ f # NoFlight
      /\ f.status = "sent"
      /\ flights' = [flights EXCEPT ![s].status = "failed"]
      /\ returning' = returning + Spent(f)
      /\ UNCHANGED <<contractVars, epoch, balance, wnear, ghostVars>>

(* Deposits come back in receipts of their own, before or after settlement. *)
RefundArrives ==
  /\ \E n \in 1..returning :
       /\ returning' = returning - n
       /\ balance' = balance + n
  /\ UNCHANGED <<contractVars, epoch, wnear, flights, ghostVars>>

-----------------------------------------------------------------------------
(* Settlement: the callback of a delivery runs, and the flight is over.     *)

Landed(s) == flights[s] # NoFlight /\ flights[s].status # "sent"

ReportsFailure(f) == f.status \in {"failed", "unresolved"}

\* A bug NoSettlementPanic catches: the answer is not capped by what was sent.
Consumed_Uncapped(f) ==
  IF IsCall(f) /\ f.status = "ok" THEN f.reported ELSE f.amount_to_send

(* What on_withdraw_wnear takes as consumed: the answer capped by what was  *)
(* sent, and everything when a call has failed.                             *)
Consumed(f) ==
  IF IsCall(f) /\ f.status = "ok" THEN Min({f.reported, f.amount_to_send})
  ELSE f.amount_to_send

\* A bug ClaimLedger and Solvency catch: the receiver's storage deposit is not
\* taken off the claim.
Booked_ForgetsStorage(f) == Consumed(f)

(* What the settlement takes off the claim.                                 *)
Booked(f) == Consumed(f) + f.storage_to_pay

\* A bug TrackerLedger, Solvency and RecognisedIsEarned catch: the tracker is
\* debited by all that was sent, wNEAR left over from an earlier attempt included.
TrackerDebit_FullAmount(f) ==
  f.amount_to_send + f.storage_to_pay + TransferDeposit(f.hash)

(* What the settlement takes off the tracked total: the NEAR that left in   *)
(* this attempt.                                                            *)
TrackerDebit(f) == Spent(f)

\* Bugs ResidualIsBacked and LocksAreReleased catch: wNEAR of an earlier attempt
\* is added to the refund of this one, and the remainder stays locked.
Remainder_AddsResidual(f, t) ==
  [t EXCEPT !.withdrawal_amount = @ - Booked(f),
            !.wnear_residual    = @ + (f.amount_to_send - Consumed(f)),
            !.storage_was_paid  = @ \/ f.storage_to_pay > 0,
            !.locked            = FALSE]

Remainder_StaysLocked(f, t) ==
  [t EXCEPT !.withdrawal_amount = @ - Booked(f),
            !.wnear_residual    = f.amount_to_send - Consumed(f),
            !.storage_was_paid  = @ \/ f.storage_to_pay > 0]

(* The locked tranche after modify_state_after_withdraw and release_lock.   *)
Remainder(f, t) ==
  [withdrawal_amount |-> t.withdrawal_amount - Booked(f),
   unstake_epoch     |-> t.unstake_epoch,
   wnear_residual    |-> f.amount_to_send - Consumed(f),
   storage_was_paid  |-> t.storage_was_paid \/ f.storage_to_pay > 0,
   locked            |-> FALSE]

\* A bug PendingIsSumOfClaims catches: a full delivery removes the whole queue entry.
SettledQueue_DropsEntry(f, Q) ==
  {Remainder(f, t) : t \in {u \in Locked(Q) : u.withdrawal_amount # Booked(f)}}

SettledQueue(f, Q) ==
  {t \in Q : ~t.locked} \cup
    {Remainder(f, t) : t \in {u \in Locked(Q) : u.withdrawal_amount # Booked(f)}}

(* The checks that make the settlement panic, and so revert, when violated. *)
SettlementFits(f) ==
  /\ f.status # "unreadable"
  /\ \E t \in Locked(queue[f.hash]) :
       IF Kind[f.hash] = "native" THEN Booked(f) = t.withdrawal_amount
                                  ELSE Booked(f) <= t.withdrawal_amount
  /\ Booked(f) <= pending
  /\ TrackerDebit(f) <= tracked

\* A bug NoOverpayment catches: a failed ft_transfer_call is retried although
\* the receiver may have kept the tokens.
OnlyUnlocks_Always(f) == ReportsFailure(f)

(* A failed plain delivery only unlocks; a failed ft_transfer_call books    *)
(* the whole amount, whatever happened to it.                               *)
OnlyUnlocks(f) == ReportsFailure(f) /\ ~IsCall(f)

(* on_withdraw_native or on_withdraw_wnear commits a payment.               *)
Settle(s) ==
  LET f        == flights[s]
      reverted == f.status = "failed"
  IN  /\ Landed(s)
      /\ ~OnlyUnlocks(f)
      /\ SettlementFits(f)
      /\ queue' = [queue EXCEPT ![f.hash] = SettledQueue(f, @)]
      /\ pending' = pending - Booked(f)
      /\ tracked' = tracked - TrackerDebit(f)
      /\ flights' = [flights EXCEPT ![s] = NoFlight]
      /\ lost' = [lost EXCEPT ![f.hash] =
                    @ + (IF reverted THEN f.amount_to_send + f.storage_to_pay ELSE 0)]
      /\ surplus' = surplus + (IF reverted THEN Spent(f) ELSE 0)
      /\ reserve' = reserve - TransferDeposit(f.hash)
      /\ UNCHANGED <<staked, last_epoch_synced, epoch, balance, returning,
                     wnear, owed, unsettled, shortfall, forced>>

(* The same callbacks after a failed plain delivery: release_lock only.     *)
SettleFailed(s) ==
  LET f == flights[s]
  IN  /\ Landed(s)
      /\ OnlyUnlocks(f)
      /\ queue' = [queue EXCEPT ![f.hash] = Released(@)]
      /\ flights' = [flights EXCEPT ![s] = NoFlight]
      /\ UNCHANGED <<pending, tracked, staked, last_epoch_synced, epoch,
                     balance, returning, wnear, ghostVars>>

(* The same callbacks when a check panics: nothing is written and the       *)
(* tranche stays locked.                                                    *)
SettlePanics(s) ==
  LET f == flights[s]
  IN  /\ Landed(s)
      /\ ~OnlyUnlocks(f)
      /\ ~SettlementFits(f)
      /\ flights' = [flights EXCEPT ![s] = NoFlight]
      /\ unsettled' = [unsettled EXCEPT ![f.hash] = @ + f.paid]
      /\ shortfall' = shortfall + (IF f.status = "failed" THEN 0 ELSE Spent(f))
      /\ UNCHANGED <<contractVars, epoch, balance, returning, wnear,
                     owed, lost, surplus, reserve, forced>>

-----------------------------------------------------------------------------
(* What the admin has to verify outside the contract before                 *)
(* force_release_lock: nothing delivered for h is waiting for its           *)
(* settlement.                                                              *)
Settled(h) == FlightsOf(h) = {} /\ unsettled[h] = 0

(* force_release_lock has no check of its own.  The documented procedure    *)
(* asks the admin to verify first that the delivery did not succeed.        *)
ForceReleaseLock(h) ==
  /\ AdminVerifies => Settled(h)
  /\ Locked(queue[h]) # {}
  /\ queue' = [queue EXCEPT ![h] = Released(@)]
  /\ forced' = IF Settled(h) THEN forced ELSE forced \cup {h}
  /\ UNCHANGED <<pending, tracked, staked, last_epoch_synced, chainVars,
                 owed, lost, unsettled, surplus, shortfall, reserve>>

(* The part of sync_rewards_internal that this half of the contract meets:  *)
(* whatever the account holds above the tracked total is a reward.          *)
SyncRewards ==
  /\ epoch # last_epoch_synced
  /\ balance > tracked
  /\ tracked' = balance
  /\ last_epoch_synced' = epoch
  /\ staked' = staked + (balance - tracked)
  /\ surplus' = surplus - (balance - tracked)
  /\ UNCHANGED <<queue, pending, chainVars, owed, lost, unsettled,
                 shortfall, reserve, forced>>

(* The chain enters a new epoch and pays the validator.                     *)
NextEpoch ==
  /\ epoch < MaxEpoch
  /\ epoch' = epoch + 1
  /\ \E r \in Rewards : balance' = balance + r /\ surplus' = surplus + r
  /\ UNCHANGED <<contractVars, returning, wnear, flights, owed, lost,
                 unsettled, shortfall, reserve, forced>>

Deliver(s) == \/ DeliverOk(s) \/ DeliverUnresolved(s)
              \/ DeliverUnreadable(s) \/ DeliverFailed(s)

Callback(s) == Settle(s) \/ SettleFailed(s) \/ SettlePanics(s)

Next ==
  \/ \E h \in Hashes, a \in Amounts : OnUnstake(h, a)
  \/ \E h \in Hashes, s \in Slots : Withdraw(h, s)
  \/ \E s \in Slots : Deliver(s) \/ Callback(s)
  \/ RefundArrives
  \/ \E h \in Hashes : ForceReleaseLock(h)
  \/ SyncRewards
  \/ NextEpoch

Spec == Init /\ [][Next]_vars

(* The chain runs every scheduled receipt; nobody has to call the contract. *)
Fairness == \A s \in Slots : WF_vars(Deliver(s)) /\ WF_vars(Callback(s))

FairSpec == Spec /\ Fairness

-----------------------------------------------------------------------------
(* Properties.                                                              *)

Claim(h) == AmountOf(queue[h])

Sum(S, F(_)) == Total([x \in S |-> F(x)])

(* Every variable keeps its type: in particular no amount the contract      *)
(* subtracts from (a claim, pending, tracked) is ever negative.             *)
TypeOK ==
  /\ queue \in [Hashes -> SUBSET Tranche]
  /\ pending \in Nat /\ tracked \in Nat /\ staked \in Nat
  /\ last_epoch_synced \in 0..MaxEpoch /\ epoch \in 0..MaxEpoch
  /\ balance \in Nat /\ returning \in Nat /\ wnear \in Nat
  /\ flights \in [Slots -> Flight \cup {NoFlight}]
  /\ owed \in [Hashes -> Int] /\ lost \in [Hashes -> Nat]
  /\ unsettled \in [Hashes -> Nat]
  /\ surplus \in Int /\ shortfall \in Nat /\ reserve \in Int
  /\ forced \in SUBSET Hashes

(* At most one tranche per hash is locked, whatever the order of unstakes,  *)
(* withdrawals, callbacks and forced releases (doc of WithdrawalRequests).  *)
OneLockPerHash == \A h \in Hashes : \A t, u \in Locked(queue[h]) : t = u

(* No two tranches of a hash have the same unstake_epoch, so that a Vec of  *)
(* tranches loses nothing when it is read as a set, and a merge of equals   *)
(* can never swallow a claim.                                               *)
DistinctEpochs ==
  \A h \in Hashes : \A t, u \in queue[h] :
    t.unstake_epoch = u.unstake_epoch => t = u

(* total_pending_withdrawals is the sum of all queued claims, through every *)
(* merge, partial delivery, failure and panic.                              *)
PendingIsSumOfClaims == pending = Sum(Hashes, Claim)

(* For every hash, what is still owed is exactly what is queued, less what  *)
(* was delivered and is not booked yet (its callback is pending, or has     *)
(* panicked), plus the claims given up when a call failed as a whole.       *)
ClaimLedger ==
  \A h \in Hashes :
    owed[h] = Claim(h) + lost[h] - unsettled[h]
                - Total([s \in FlightsOf(h) |-> flights[s].paid])

(* Nobody receives more than was unstaked for them, unless the admin has     *)
(* released their lock without checking the delivery.                       *)
NoOverpayment == \A h \in Hashes \ forced : owed[h] >= 0

(* A flight always finds its own locked tranche when its callback runs,     *)
(* unless the admin has released its lock: there is one flight per hash.    *)
(* And no readable settlement can panic, at whatever moment it runs, as     *)
(* long as no lock was released with its delivery unsettled: a second       *)
(* payment of one hash may leave the tracked total short for another.       *)
NoSettlementPanic ==
  /\ \A h \in Hashes \ forced : Cardinality(FlightsOf(h)) <= 1
  /\ \A s \in InFlight :
       LET f == flights[s]
       IN  /\ f.hash \notin forced =>
                \E t \in Locked(queue[f.hash]) :
                  t.withdrawal_amount = f.amount_to_send + f.storage_to_pay
           /\ forced = {} /\ Landed(s) /\ f.status # "unreadable" => SettlementFits(f)

(* The wNEAR a hash may still count on: the residual of its tranches, or,   *)
(* between delivery and settlement, what the receiver sent back.            *)
Backing(h) ==
  IF \E s \in FlightsOf(h) : flights[s].status \in {"ok", "unresolved", "unreadable"}
  THEN LET f == flights[CHOOSE s \in FlightsOf(h) : TRUE]
       IN  f.amount_to_send + f.storage_to_pay - f.paid
  ELSE IF unsettled[h] > 0 THEN 0 ELSE ResidualOf(queue[h])

(* A residual is part of its claim, its storage is paid, and the residuals  *)
(* of all hashes together never exceed the wNEAR the account holds: a retry *)
(* never spends wNEAR that belongs to another hash.                         *)
ResidualIsBacked ==
  /\ \A h \in Hashes : \A t \in queue[h] :
       /\ t.wnear_residual <= t.withdrawal_amount
       /\ t.wnear_residual > 0 /\ WantsStorage[h] => t.storage_was_paid
  /\ Sum(Hashes, Backing) <= wnear

(* NEAR a flight has taken from the account and the tracker still counts.   *)
Outstanding(s) == IF flights[s].status = "failed" THEN 0 ELSE Spent(flights[s])

(* The tracked total differs from the account's NEAR by exactly the NEAR in *)
(* transit, plus what no settlement will ever book, less what is there to   *)
(* be recognised as a reward.                                               *)
TrackerLedger ==
  balance + returning + Sum(InFlight, Outstanding) + shortfall = tracked + surplus

(* Every NEAR the contract owes, as stake behind the LST supply or as a     *)
(* queued claim, is in the tracked total or is wNEAR kept for its claim;    *)
(* deliveries cost the pool nothing but the yoctos they attach.             *)
Residual(h) == ResidualOf(queue[h])

Solvency == tracked + Sum(Hashes, Residual) = staked + pending + reserve

(* A reward sync never recognises NEAR that is merely in transit: what it   *)
(* adds to the tracked total was earned, forfeited or given back before.    *)
RecognisedIsEarned == [][tracked' > tracked => tracked' - tracked <= surplus]_vars

(* A tranche in its cooldown stays, with its epoch, until it has matured:   *)
(* no later unstake, withdrawal or callback delays or shrinks it.           *)
CooldownIndependence ==
  [][\A h \in Hashes : \A t \in queue[h] :
       ~IsMatured(t) =>
         \E u \in queue'[h] : /\ u.unstake_epoch = t.unstake_epoch
                              /\ u.withdrawal_amount >= t.withdrawal_amount]_vars

(* A locked tranche changes only when a flight of its hash is over or the   *)
(* lock is released: an unstake or a withdrawal that runs meanwhile leaves  *)
(* it exactly as it is.                                                     *)
LockedUntouched ==
  [][\A h \in Hashes : \A t \in Locked(queue[h]) :
       \/ t \in queue'[h]
       \/ [t EXCEPT !.locked = FALSE] \in queue'[h]
       \/ \E s \in FlightsOf(h) : flights'[s] = NoFlight]_vars

(* Every lock is released in the end: no order of deliveries and callbacks  *)
(* leaves a tranche locked for good while wNEAR answers are readable.       *)
LocksAreReleased ==
  \A h \in Hashes : Locked(queue[h]) # {} ~> Locked(queue[h]) = {}

(* README, view get_hashes_available_for_withdrawal: the hashes listed are  *)
(* "the set on which the next withdraw would succeed right now".            *)
AvailableForWithdrawal == {h \in Hashes : Matured(queue[h]) # {}}

AvailableMeansWithdrawable ==
  \A h \in AvailableForWithdrawal : NotInProgress(queue[h])

=============================================================================
