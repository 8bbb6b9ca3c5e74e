# Verification of the liquid staking token

TLA+ models of the contract in `contract/` (a NEAR smart contract: users stake
NEAR or wNEAR and hold LST, a NEP-141 token backed by the validator's stake),
the TLC runs that check them on small instances, and TLAPS proofs of what holds
for every instance. Paths below are relative to the repository; `PROJECT.json`
maps every definition to the lines it stands for.

What makes this contract hard is that nothing it does is one transaction. A
stake, an unstake or a withdrawal is a chain of receipts (calls, callbacks,
transfers) executed in different blocks. Each receipt is atomic: it commits all
of its writes, or panics and commits none. Between two receipts of one chain,
any receipt of another may run, a new epoch may begin, and NEAR may be on its
way. The models therefore have one action per receipt.

## Inventory

| Part | State | Operations | Hard because | Correct if |
|---|---|---|---|---|
| Withdrawal queue (`pool/withdraw/requests.rs`) | hash → `Vec<Lock<Tranche>>` | append, sweep into one locked tranche, release, remove | merges and folds while a tranche is in flight; `swap_remove` in a loop | nothing lost or delayed, one lock per hash, bounded length |
| Withdrawals (`pool/withdraw/*.rs`) | locked tranche, `total_pending_withdrawals`, `latest_total_balance` | `withdraw`, `on_withdraw_native`, `on_withdraw_wnear`, `force_release_lock` | NEAR leaves first and is booked later; partial refunds, retries, ambiguous failures, refunds in flight | every claim paid at most once, totals exact |
| Staking (`pool/stake.rs`) | `total_staked_amount`, `latest_total_balance`, LST of the pool's account | `stake`, `ft_on_transfer` of wNEAR, five callbacks | quote, booking, mint, proposal and delivery in different receipts; rollback after others have moved the totals | rollback takes back what was added; backing of the LST |
| Unstaking (`pool/unstake.rs`) | the same | `ft_transfer_call` to the contract, `on_unstake`, `ft_resolve_transfer` | burn first, queue or restore later | no LST or NEAR lost |
| Rate and rewards (`pool/mod.rs`, `pool/stats.rs`) | `last_epoch_synced`, `protocol_fee_bps` | `ping`, the sync in every stake, unstake and admin call | live balance compared with tracked total while NEAR is in transit; rounding | only earnings become rewards; the rate falls by nothing but old quotes |
| LST token (`core.rs`, `resolver.rs`, `receiver.rs`) | balances, supply, `num_delegators` | transfers, `ft_transfer_call`, resolve | balances read at one receipt and resolved at another | conservation; delegators counted |
| Storage (`storage.rs`) | registered accounts | deposit, withdraw, unregister (burning by force) | unregistering in the middle of a chain; deposits booked only for outside callers | tracked total follows |
| Administration (`pool/admin.rs`) | fee, key, locks | `set_protocol_fee_bps`, `set_validator_public_key`, `force_release_lock`, `add_full_access_key` | acts between any two receipts | no total disturbed |
| Validator and restake (`restake_promise`, `on_restake`) | locked balance, proposal (outside the contract) | stake promise | concurrent proposals, failed restakes, a key that changes in between | the last proposal is the tracked stake, or nothing after a bad key |
| Pinger (`pinger/`) | last epoch (memory, file), channel | watch, send, retry, save, shut down | epoch saved before its ping succeeded; crash, timeout, retry | announced once, pinged or given up, stops on a signal |
| Shell (`lib.rs`, `metadata.rs`, `traits.rs`) | roles, paused flags | `new` | – | – |

The parts share the three totals of `PoolStatistics` (stake `S`, tracked balance
`T`, pending withdrawals `P`) and the account's balance. Unstaking moves NEAR
from `S` to a claim, in the queue and in `P`; a withdrawal takes it out of the
account, and its settlement out of the queue, `P` and `T`; a sync moves what the
account holds above `T` into `T` and `S`.

## Modules

| Module | Models | Used by |
|---|---|---|
| `Totals` | sums over finite sets, counted as sets of units so that they need no recursion | `Tranches`, `StakePool`, `LstToken` |
| `Tranches` | the operations of one hash's queue, on a set of tranches | `Withdrawals`, `TrancheVec` |
| `ClaimQueue` | abstract: what one hash is promised (amounts cooling by epoch, a ready claim, a claim in flight) | `TrancheVec`, `WithdrawalClaims` |
| `TrancheVec` | the `Vec` itself with `swap_remove`, iteration by iteration; implements `ClaimQueue`, agrees with `Tranches` | – |
| `Withdrawals` | withdrawals of many hashes with the account, wNEAR and the receivers around them | `WithdrawalClaims` |
| `WithdrawalClaims` | the refinement: the queue of each hash in `Withdrawals` is a `ClaimQueue` | `MCWithdrawals` |
| `StakePool` | stakes, unstakes, rewards, fee, registration | `MCStakePool` |
| `LstToken` | balances, supply, holders and registration under transfers, resolvers, stakes and unstakes | `MCLstToken` |
| `Restake` | stake actions, proposal, key, and the callbacks of all operations that restake | `MCRestake` |
| `Pinger` | the daemon with its file, its channel and the contract's `ping` | – |
| `TotalsProofs`, `TranchesProofs` | lemmas on sums and on the operations of a queue | the proofs below |
| `TrancheVecProofs` | theorems on the `Vec`: its bound, its agreement with `Tranches`, its refinement of `ClaimQueue` | – |
| `WithdrawalsProofs` | theorems on queues, totals, ledgers, backing and panics of withdrawals, and the refinement of `ClaimQueue` | – |
| `StakePoolProofs`, `LstTokenProofs`, `RestakeProofs`, `PingerProofs` | theorems on the module in their name | – |

### Withdrawals

`queue`, `pending`, `tracked`, `staked` and `last_epoch_synced` are contract
state under the names of the code (see the comments of the module); `balance`,
`returning` (NEAR of failed receipts on its way back), `wnear` and `flights` are
the chain around it. A flight is a withdrawal between the receipt of `withdraw`
and its callback:

1. `Withdraw` is `withdraw` with `withdraw_native` or `withdraw_wnear`: the
   sweep, the lock, the amounts, the checks that panic, and the attached deposits
   that leave at once.
2. `DeliverOk`, `DeliverUnresolved`, `DeliverUnreadable` and `DeliverFailed` are
   outcomes on other accounts. wNEAR answers a call with any amount up to, and
   one above, what was sent; a call may fail although the receiver kept the
   tokens; a receipt may fail as a whole, and then every deposit comes back, in
   pieces and at any later time (`RefundArrives`).
3. `Settle`, `SettleFailed` and `SettlePanics` are the callback: booking,
   unlocking only, or a panic that writes nothing.

`Kind` and `WantsStorage` give each hash the delivery its `UnstakeMessage` asks
for, since the hash is that of the message. Ghosts: `owed` (unstaked and not yet
received), `lost` (settled though reverted), `unsettled` and `shortfall`
(delivered, but the callback panicked), `surplus` (what a sync may recognise),
`reserve` (the account's own NEAR, which pays the yoctos of transfers), `forced`
(hashes whose lock the admin released while their delivery was not settled; what
is paid for those is the admin's responsibility).

### StakePool

A chain is a record with a phase; its life is described in the module at `Idle`.
The actions follow `stake.rs` and `unstake.rs` receipt by receipt, both for
chains that succeed and for every failure the code handles. `SyncRewards` is the
function from the state and the attached deposit to the synced totals, which
`stake`, `on_near_withdraw`, `handle_unstaking`, `ping` and the admin calls share.
A step of unstaking is two actions here (`handle_unstaking`, `on_unstake`) and one
in `Withdrawals`, which starts where the claim is queued; a queued claim stays in
`pending` here.

Ghosts: `surplus` as above; `kept` (storage deposits for receivers that were
registered already); `stranded` (LST that ended chains left on the pool's
account).

### LstToken

`ledger` is the token library's accounts and supply with `num_delegators`;
`registered` the accounts with a storage deposit. The operations on the ledger are
functions from ledger to ledger, named after `core.rs` (`update_delegators`,
`transfer_tokens`, `internal_deposit`, ...), so that one action can apply several
of them, as a receipt does: `OnFtOnTransfer` resolves a refund and burns it.
`chains` holds the stakes, unstakes and `ft_transfer_call`s in flight, told apart
by the phase (which receipt is next) and by the resolver they end with. Any number
of LST may be minted and `handle_unstaking` may refuse at any time, which covers
every rate and every check that `StakePool` models. The account of the pool never
begins a transfer: only the contract itself could sign one, and it does not.

### Restake

A chain is an operation from the receipt in which it changes the total or the key
to the callback that learns whether its stake action was accepted. `actions` is
the queue of actions the account has scheduled and not run: the runtime runs them
in order, and an accepted one replaces the whole `proposal`. `RunAction` is
external; it refuses a bad key and an amount between zero and the network's
minimum. `OnRefused` is the rollback of a stake or an unstake, `OnRestakeFailed`
the recovery of `on_restake`. An unstake is checked against the total alone, as in
`handle_unstaking`, and may take out what a stake in flight has to take back: then
the checked subtraction of the rollback panics, and the callback changes nothing
(the second disjunct of `OnRefused`). The LST that pay for an unstake are not in
this module, so it happens here without the change of rate that `StakePool` needs.
The ghost `clean` holds from a moment with nothing in flight until an action is
refused; `behind` is what `SyncOnly`, a sync in a receipt that does not restake, has
added since an operation last asked for the total.

### Pinger

`watcher` and `sender` are the two tasks, with the place at which each waits as
its phase; `channel` is the bounded channel, `file` the saved epoch id. Every await
of the code separates two actions: `BlockRead`, `SendEpochChanged` (which waits
for room) and `SaveEpochId` are three steps of `next_event`, so that a crash or the
other task can come between. `HeedSignal` is enabled only where `select!` polls
the signal. `Crash` may happen at any step of a running process and loses its
memory and its channel; a write in progress may be left truncated, and a
transaction that was sent may still be executed (`late`). `NoAnswer` covers an
error of the RPC node and the timeout of 30 seconds, with the same doubt. `chain`
is the contract as `ping` sees it. Ghosts: what became of every epoch (`history`).

## Runs

TLC 2; every run ends within about two minutes.

| Run | Checks | Shows |
|---|---|---|
| `withdraw_call` | `TypeOK`, `ClaimLedger`, `NoOverpayment`, `NoSettlementPanic`, `OneLockPerHash`, `DistinctEpochs`, `TrackerLedger`, `CooldownIndependence` | one hash by `ft_transfer_call` with storage deposit; partial refunds, retries, ambiguous and unreadable answers, and an admin who does not verify before `force_release_lock`: queue, totals and cooldowns hold in any case; no claim is paid twice and every callback finds its tranche unless its lock was forced before it ran; no readable callback panics unless some lock was |
| `withdraw_pair` | `PendingIsSumOfClaims`, `TrackerLedger`, `Solvency`, `ResidualIsBacked`, `RecognisedIsEarned`, `LockedUntouched` | a call and a plain transfer in flight with rewards: totals exact, NEAR in transit never a reward, no wNEAR of one hash spent for the other, locked tranches left alone |
| `withdraw_live` | `KeepsClaims`, `LocksAreReleased` | three hashes (call, native, self): every lock is released under fairness; deliveries, callbacks and releases implement the abstract queue of each hash, also when what a call has left over meets a tranche that matured later |
| `vec_claims` | `SetModelAgrees`, `BoundedVec`, `Implements` | the `Vec` implements the abstract queue within its bound, and the set model is exact |
| `stake_pair` | `PoolLstIsInFlight`, `TrackerLedger`, `Solvency`, `OnlyEarnedIsRecognised`, `RateNeverFalls`, `OldQuotesBoundRate` | any two chains interleaved at every receipt with rewards and a changing fee, each promise succeeding or failing |
| `stake_stale` | `TypeOK` | three chains around a reward: a rollback that no longer fits panics instead of making a total negative |
| `lst_token` | `TypeOK`, `SupplyIsSum`, `DelegatorsExact`, `EscrowCovered` | two users, pool and treasury with two chains in flight among transfers, registration, forced unregistering and fees: holders are counted exactly, and the pool's account covers all chains at once |
| `restake` | `TypeOK`, `ConcurrentStakesAreSafe`, `BadKeyUnstakes` | two operations in flight with refused actions, rewards, syncs that do not restake, a bad key: without a refusal the proposal ends up as the total less what a sync alone recognised since; a bad key leaves nothing staked; a rollback that no longer fits panics |
| `pinger` | `TypeOK`, `SavedWasSent`, `PingedIsSynced`, `ShutdownDrains`, `NoRepeat`, `StopsOnSignal`, `RewardsAreRecognised` | the daemon over three epochs with a crash, failed and truncated writes, a failing stream, pings that fail, time out or run late, and a signal at any moment |
| `withdraw_available` | `AvailableMeansWithdrawable` (violated) | finding 1 |
| `stake_quote` | `MintsAtCurrentRate` (violated) | finding 2 |
| `stake_storage` | `StorageDepositAccrues` (violated) | finding 3 |

Every property of a passing run is violated by a mutant of a modelled definition
(`PROJECT.json`, "mutants"; the mutated operators stand before the definitions
they replace, each with the bug it is).

**Bounds.** `Amounts`, `Deposits` and `Rewards` are two or three small numbers,
chosen so that one storage deposit and one residual fit below, at and above a
claim, and that rates other than 1:1 and both roundings occur. `MaxEpoch` lets a
tranche mature, be paid in part and meet tranches of two later epochs; the
cooldown of the code, 4 epochs, enters only through comparisons; `vec_claims`
has enough epochs and NEAR to reach its bound, `Cooldown + 2` tranches. Two
slots suffice where properties relate a chain to one other; `stake_stale` has
three because the checked subtractions of the rollback are reached only with a
reward sync and an unstake around the failing stake. `Stake`, `Reserve` bound the
NEAR there is. Symmetry is over slots and, in `lst_token`, users, which no property
orders, and is off in the runs with liveness. `Cardinality(InFlight) < reserve` in
`Withdraw` keeps the yoctos of transfers within the reserve (more than 10^24 yoctoNEAR
in reality).
`CHECK_DEADLOCK FALSE`: the models of withdrawals and stakes stop at their last
epoch; `lst_token`, `restake` and `pinger` never stop, and deadlock is checked.

In `lst_token`, two users, two slots and amounts 1 and 2 with a supply of 3 let a
sender spend, unregister and register again while a refund is under way, and two
chains compete for the pool's LST; every crossing of zero occurs for every kind of
account. In `restake`, `MinStake = 2` and `Stake = 2` make an unstake refusable, and
a stake of 2 too, after unstakes that leave less than its rollback takes;
`MaxActions = 3` is one action of each slot and one of `on_restake`. In `pinger`,
three epochs are one to save, one to lose and one to recover in; a channel of 2
fills up, one retry is both a retry and the last one, two starts are one crash, and
one late transaction can be executed in any later state.

**Fairness.** `withdraw_live` assumes that a scheduled receipt is executed (`WF`
of `Deliver` and `Callback` per slot), which the NEAR runtime guarantees. Nobody
has to call the contract, no epoch has to begin.

`pinger` assumes that epochs go on, that a stopped process is started again
(pinger/README.md:96, `--restart unless-stopped`), and that a task that can proceed
does (`WF` of connecting, sending, saving, exiting and of the sender as a whole: a
call ends within 30 seconds one way or the other). Once `select!` polls the signal
it is heeded eventually (`WF` of `HeedSignal`, which stays enabled while the watcher
waits). The stream may break again and again; strong fairness of
`GoodBlock /\ CatchesUp` says that readable blocks keep arriving between the
failures and that reading keeps up with the chain. No ping is assumed to
succeed: `RewardsAreRecognised` names the cases in which rewards stay behind, a last
epoch given up or lost, or a daemon that is not started any more.

## Proofs

### Withdrawals

`WithdrawalsProofs` proves, for all values of the constants (any finite set of
hashes and slots, any amounts, cooldown, rewards and kinds of delivery; the
assumptions are `CooldownAssumption` and `WithdrawalsAssumption`):

- `TypeCorrect`: `[]TypeOK`. Every total and every claim stays a natural number;
  the contract's subtractions are guarded.
- `LocksAreUnique`: `[]OneLockPerHash`.
- `EpochsAreDistinct`: `[]DistinctEpochs`.
- `PendingIsExact`: `[]PendingIsSumOfClaims`.

None of them is inductive. That a settlement finds at most one tranche needs lock
uniqueness; that merging a set of matured tranches loses no amount needs them to
be distinct as set elements, hence distinct epochs; that a merged tranche
collides with no other needs the locked tranche's epoch to be distinct too, and
every epoch not to lie in the future; that the pending total can be lowered needs
it to be the sum. So the invariant is

    IInv == TypeOK /\ QueuesGood /\ PendingIsSumOfClaims

where `QueuesGood` says of each queue: finite, made of tranches with positive
amounts, at most one lock, distinct epochs, none later than the current one. The
proof has one lemma per action. The queue operations are handled once, in
`TranchesProofs` (`MergedTranche`, `CollapsedQueue`, `AppendedQueue`,
`ReleasedQueue`: what each does to a good queue and to its sum), on the laws of
finite sums in `TotalsProofs`, which follow from the cardinality theorems of the
library. These theorems do not assume `AdminVerifies`: forced releases never
break them.

### The Vec of a hash

`TrancheVecProofs` proves what the theorems on sets of tranches leave open, that the code
works on a `Vec` and yet does what the sets say. For any cooldown, amounts and number of
epochs (`TrancheVecAssumption`):

- `SetModelIsExact`: `[]SetModelAgrees`. No removal skips or repeats a tranche.
- `VecStaysBounded`: `[]BoundedVec`, at most `Cooldown + 2` tranches.
- `VecKeepsClaims`: `Implements`, the refinement of `ClaimQueue`.
- `Invariance`: `[]IInv`, what the doc of `WithdrawalRequests` lists as invariants.

The loop of `collapse_matured_tranches` is a recursive function of the number of
iterations (`Walk`, with `Iterate` for one of them), and `Vec::retain` another. That
such a function satisfies its equations, and what it computes for every length, takes
an induction. The theorems of the library for it have an operator as a parameter, which
no prover here instantiates; `SetInduction` says the same of a set, so each proof
defines the set of the numbers up to which its claim holds and shows that it contains
all (`WalkSteps`, `KeptSteps`, `CollapsedVec`).

The loop invariant `Walked` says after `n` iterations: what was removed are matured
tranches, each collected once; what stands before the index stays; and the index and
the removals together have advanced by `n`. The last part is where the index must stay
after a `swap_remove`. After as many iterations as there were tranches the index is at
the end, so nothing matured is left (`CollapsedVec`); sums, the maximum of the epochs
and the storage flag are those of the set, in whatever order it was taken out
(`CollectedAdd`). Each operation then equals its counterpart in `Tranches`
(`PushedVec`, `AppendRequestVec`, `ReleaseLockVec`, `RemoveRequestVec`).

    IInv == epoch \in 0..MaxEpoch /\ unstaked \in Nat /\ VecOK(vec)

`VecOK` is more than the bound. Tranches that are pairwise different make the `Vec` and
the set of its elements the same thing. The bound counts the tranches that cool down,
at most one per epoch of the last `Cooldown` (distinct epochs), one merged and one
locked (lock uniqueness); a sweep alone never lengthens the queue (`CollapsedBound`).
`SoundQueue` adds that no tranche is empty, so that a sweep which takes tranches always
pushes the merged one, and that residuals are part of their tranche. For the refinement the lemmas on claims that serve `Withdrawals`
(`CollapsedClaims`, `AppendedClaims`, ...) are used again.

### Ledgers of the withdrawals

The second part of `WithdrawalsProofs` goes on from there, under the same
assumptions. Its first group holds whatever the administrator does:

- `TrackerIsExact`: `[]TrackerLedger`. `ClaimsAreExact`: `[]ClaimLedger`.
- `NobodyIsOverpaid`: `[]NoOverpayment`.
- `OnlyEarnedIsShared`: `RecognisedIsEarned`.
- `CoolingIsIndependent`: `CooldownIndependence`. `LockedIsUntouched`:
  `LockedUntouched`.

Their invariant is

    LedgerInv == IInv /\ FlightsPaid /\ TrackerLedger /\ ClaimLedger /\ LocksHeld

`LocksHeld` is what the lock of `requests.rs` is for: outside `forced`, a hash has at
most one flight, its tranche is still locked and its amount is what was sent, and a
payment that a callback failed to book leaves a locked tranche as large. Hence
nobody is overpaid. `FlightsPaid` ties what a receiver got to what the callback will
book, for each outcome of the delivery.

The second group is about what stands behind the claims, and holds until a lock is
released while its delivery is not settled (`forced = {}`):

- `SettlementsNeverPanic`: `[]NoSettlementPanic`.
- `SolventUntilForced`: `[](forced = {} => Solvency /\ ResidualIsBacked)`.
- `VerifiedReleases`: with `AdminVerifies`, `forced` stays empty; therefore
- `VerifiedIsSolvent` and `VerifiedIsBacked`: `AdminVerifies /\ Spec` implies
  `[]Solvency` and `[]ResidualIsBacked`.

`AdminVerifies` is the procedure that the documentation of `force_release_lock`
prescribes. It is needed: a forced hash can be paid twice, which takes NEAR that the
totals count for others. For the same reason the last part of `NoSettlementPanic`
(the totals cover what the callback takes off them) asks that no lock at all was
forced; with two hashes and an administrator who does not verify, TLC finds the
tracked total too low for a hash that was never forced. The invariant adds

    BackedInv == /\ YoctosLeft
                 /\ forced = {} =>
                      FlightsMatch /\ QueuesSound /\ Solvency /\ BackingHeld

A flight was sent for the tranche it has locked, and used the tranche's residual up
first (`FlightsMatch`); residuals occur only in queues delivered by call, and none
exceeds its tranche (`QueuesSound`); the residuals, with what flights are about to
leave behind, are wNEAR the contract holds (`BackingHeld`); and the yoctos attached
to transfers come from the reserve (`YoctosLeft`).

The refinement is proved too. `ClaimsAreKept`: `AdminVerifies /\ Spec` implies
`KeepsClaims`, that every hash's queue implements `ClaimQueue` under the mapping of
`WithdrawalClaims`. `ClaimsUnstake` ... `ClaimsNextEpoch` say which effects on the
mapped state are which abstract step; one lemma per action shows that it has these
effects on its own hash and none on the others. The mapped state is a record of
sums over parts of the queue, so the weight lies in `TranchesProofs`: what a
collapse, an append, a release and the passing of an epoch do to the claim
(`CollapsedClaims`, `AppendedClaims`, `UnlockedClaims`, `NextEpochClaims`).

### Stake pool

`StakePoolProofs` proves every safety property the runs of `StakePool` check, for any
users, slots, deposits, rewards, fees and number of chains (`StakePoolAssumption`):

- `TypeCorrect`: `[]TypeOK`. `PoolLstIsChains`: `[]PoolLstIsInFlight`.
- `TrackerIsExact`: `[]TrackerLedger`. `PoolIsSolvent`: `[]Solvency`.
- `SyncsAreEarned`: `[]OnlyEarnedIsRecognised`.
- `RateIsKept`: `RateNeverFalls`. `OldQuotesAreBounded`: `OldQuotesBoundRate`.
- `RoundTripNeverGains`: LST unstaked right after it was minted pays no more NEAR
  than it was minted for.

The invariant is the conjunction of the five state properties with two facts:

    IInv == /\ TypeOK /\ ChainsSound
            /\ PoolLstIsInFlight /\ TrackerLedger /\ Solvency
            /\ OnlyEarnedIsRecognised /\ ReturnsAreCounted

`TypeOK` is not inductive: most of what a step subtracts was fixed in an earlier
receipt. That a refund finds its NEAR on the account follows only from all of them: the
account holds what the tracked total counts, less what is in transit
(`TrackerLedger`); the tracked total is made of parts, of which the deposit of the
chain is one (`Solvency`); what is in transit belongs to chains too, so it does not
take from another one; and NEAR on its way back is not counted on before it is there
(`ReturnsAreCounted`). `Covered` says this once. `ChainsSound` keeps what a chain fixed
in an earlier receipt: its NEAR is its deposit less the storage fee, and only wNEAR is
unwrapped. Every action then has to show one thing, that the three ledgers move by
the same amount on both sides (`Balanced`, `ChainStep`; `OtherStep` for steps outside
the chains). A sync is `SyncIsEarned`: what it recognises is no more than the surplus,
because all the rest of the account's NEAR is accounted for.

The rate is compared as a product, `NoWorse(S, Q, T, R)` for `T * Q >= S * R`, without
division. It is transitive over positive supplies (`RatesCompose`), a sync keeps it
(`FeesAreFair`: the treasury's LST are quoted at the lifted rate and floored), and so
does an unstake (`PayoutsAreFair`: the payout is floored). Moving LST leaves the supply
as it is, burning lowers it.

The remaining steps that change the stake are those that book or roll back at the quote
of an earlier receipt (`AtOldRate`). They can lower the rate, and `OldQuotesBoundRate`
says how far: a booking, or an unstake put
back, not below both the rate before and the chain's own quote (the mediant of the two,
`Mediant`); the rollback of a stake not at all, unless the stake was bought above the
rate of that moment (`TakenBack`). `OwnReceipt` and `OldRateEffect` show that only three
receipts are such steps and that each moves stake and supply by what its chain was
quoted, so the two theorems together bound every step.

### LST token

`LstTokenProofs` proves for any accounts, amounts and number of chains in flight
(`LstTokenAssumption`: finitely many, positive amounts):

- `TypeCorrect`: `[]TypeOK`. No burn, refund or delivery takes more than there is.
- `SupplyIsExact`: `[]SupplyIsSum`.
- `DelegatorsAreExact`: `[]DelegatorsExact`.
- `EscrowIsCovered`: `[]EscrowCovered`.

The invariant is

    IInv == TypeOK /\ {"pool", "treasury"} \subseteq registered
                   /\ GoodLedger(ledger) /\ EscrowCovered

`GoodLedger` (typed, supply and holders exact) is kept by every operation on the
ledger whose amount is there: `Counted` shows this of `update_delegators` after one
changed balance, `Transferred` and `Resolved` of two accounts, where counting twice
could go wrong, and `update_delegators` compares with the ledger before both
changes. That the amount is there is what `EscrowCovered` is for: a chain finds the
LST it set aside on the pool's account, because the claims of all chains are
covered at once (`EscrowOfChain`). `ChainStep` reduces every receipt to one
inequality, that it takes no more from the pool's account than it gives up of its
own claim. The pool must stay registered, or a refund to it would be burned.

### Restake

`RestakeProofs` proves for any number of operations in flight, any keys and
amounts, and any number of scheduled actions (`RestakeAssumption`: the stake at the
start is not below the minimum, the first key is not a bad one):

- `TypeCorrect`: `[]TypeOK`. The total is never negative: the amount of a stake in
  flight may have been unstaked by others, and then the rollback panics.
- `StakesAreSafe`: `[]ConcurrentStakesAreSafe`.
- `NoStakeWithBadKey`: `[]BadKeyUnstakes`.

The last two speak of rare states (nothing in flight), so the invariant has to say
what is true in between. Every scheduled action belongs to one chain that waits for
it, or to `on_restake` (`ActionsGood`). In a clean period the last action of the
queue asks for the total less `behind`, with the present key, or a stake has yet to
ask (`CleanGood`): that every operation schedules in the receipt that changes the
total, or after it, keeps this true. With a bad key, every good amount that was
asked for is followed by an action for zero, or by the action of a restake whose
callback will give up the stake, or that callback is due (`BadKeyGood`); that an
amount is given up only while something is locked needs `ProposalGood`.
`ScheduleStep` and `PlainStep` reduce the operations and callbacks to what they do
to the total and to one chain; `RunAccepted` and `RunRefused` follow the queue as it
moves up.

### Pinger

`PingerProofs` proves for any capacity, number of retries, epochs, starts and late
transactions (`PingerAssumption`):

- `TypeCorrect`: `[]TypeOK`.
- `SavedIsSent`: `[]SavedWasSent`.
- `PingedAreSynced`: `[]PingedIsSynced`.
- `ShutdownIsDrained`: `[]ShutdownDrains`.
- `NothingIsRepeated`: `NoRepeat`.

The invariant adds what these rest on: the daemon knows of no epoch that has not
begun (`EpochsKnown`); a `Shutdown` is the last message, of a watcher that is done
(`ShutdownLast`); an unrecognised reward is younger than the last sync
(`ChainGood`), hence a successful ping left none behind (`SucceededIsSynced`); and
the watcher reads forward (`Forward`), so that an epoch announced before is the one
in memory or on disk, or lies behind the next block that will be read, or its id
was lost (`AnnouncedOnce`). Proved for every crash, truncated write and late
transaction, these do not depend on fairness.

### Not proved

Every invariant, every property of a step and every refinement that a passing run
checks is proved. Only model-checked is liveness, under fairness: `LocksAreReleased`,
`StopsOnSignal`, `RewardsAreRecognised`.

## Findings

1. `get_hashes_available_for_withdrawal` lists a hash of which another tranche is
   in flight; `withdraw` on it panics. README.md:533 says the next withdraw would
   succeed right now. (`withdraw_available`)
2. LST are quoted in the originating receipt and minted in a later one at the old
   quote; README.md:212 and 217 describe mutation in the originating receipt at
   the current ratio. The totals stay consistent (`stake_pair`): what differs is
   the price of that stake. The property ranges over batches that can run, whose
   receiver is registered or is registered by the batch. (`stake_quote`)
3. The storage deposit for a receiver that is registered already does not accrue
   as a reward (README.md:206): the whole deposit is booked in
   `latest_total_balance`, so that no sync sees it. It remains on the account,
   tracked and owned by nobody. (`stake_storage`)

## Observations

Behaviour the models show that no document of the repository excludes:

- A refused restake whose `on_restake` runs only after the admin has set a working
  key unstakes everything once more, with that key, until the next operation
  restakes. `ConcurrentStakesAreSafe` therefore excludes periods with a refusal
  (`clean`).
- A stake that is refused after others have unstaked may not fit the total any more:
  its rollback panics, the deposit stays in the totals and its LST stay with the pool
  (`stake_stale`, `restake`).
- A sync without a restake in the same receipt (a stake's quote,
  `set_protocol_fee_bps`) leaves the proposal behind the total; `ping` then finds
  the epoch synced and does not restake. The next stake or unstake repairs it:
  `ConcurrentStakesAreSafe` says that nothing but those rewards (`behind`) is missing.
- A plain wNEAR withdrawal whose whole claim equals the storage deposit sends
  `ft_transfer` of 0, which wNEAR refuses; the claim is kept and retried.
- A refused stake that had been quoted above the rate of the moment takes that quote back
  in full: if others unstaked in between at the rate its booking had lifted, those who
  stay pay the difference (the case `OldQuotesBoundRate` leaves open).
- A stake whose receiver unregisters before the delivery ends with its LST on the
  pool's account, where nobody can claim them (`stranded`).
- An epoch whose ping is given up is recognised by the ping of a later one; if the
  daemon ends between sending and pinging, with the id saved, that epoch's ping is
  lost until then.

## Not modelled

- Gas, message sizes, pausing, access control, upgrades: checks that refuse a call
  before it has any effect. `add_full_access_key` is one promise without state.
- wNEAR quantities in `StakePool` (they are in `Withdrawals`), and the exchange of
  one pool of wNEAR between residuals and stakes being unwrapped.
- A stake sent by the pool itself; `storage_withdraw` and storage calls without
  effect, and the single yoctos they and admin calls attach.
- The width of integers: `u128` arithmetic is checked in the code and panics; the
  256-bit product of `mul_div_floor`.
- The validator's rewards in detail: a validator that stakes earns a fixed reward
  or none.
- The pinger's configuration, logging and the decoding of blocks: a block is
  readable or not, and shows an epoch.
- Views (`get_*`) other than those a property is about; the integration tests and
  their test receiver.

## Plan

Done: `Totals`, `Tranches`, `TrancheVec`/`ClaimQueue`, `Withdrawals` with
`WithdrawalClaims`, `StakePool`, `LstToken`, `Restake`, `Pinger`, and the proofs
above. What is left:

- `LiquidStaking`: `Withdrawals` and `StakePool` over one account and one set of
  totals, with an abstract ledger it implements: NEAR in = NEAR owed + NEAR out.
  The two invariants `LedgerInv` and `IInv` are the parts of its invariant.
