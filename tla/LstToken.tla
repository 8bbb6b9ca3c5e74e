------------------------------ MODULE LstToken ------------------------------
(***************************************************************************)
(* The LST as a token: core.rs, resolver.rs, receiver.rs and storage.rs,    *)
(* with the places of stake.rs, unstake.rs and pool/mod.rs that mint, move  *)
(* or burn LST.                                                             *)
(*                                                                         *)
(* ft_transfer_call moves the tokens, lets the receiver run, and takes back *)
(* in a third receipt what the receiver did not use.  Meanwhile the sender  *)
(* and the receiver may transfer, unstake or unregister.  The number of     *)
(* holders, num_delegators, is not recomputed: every operation compares an  *)
(* account's balance before and after and counts the crossings of zero, so  *)
(* one that is missed or counted twice is never corrected.                  *)
(*                                                                         *)
(* The pool's own account is an escrow: the LST of a stake until it is      *)
(* delivered, of an unstake until it is burned, and of a failed unstake     *)
(* until the resolver takes it back, of all chains at once.                 *)
(*                                                                         *)
(* NEAR, rates and rewards are in module StakePool; here any amount may be  *)
(* minted, and the checks of handle_unstaking may fail at any time.         *)
(***************************************************************************)
EXTENDS Totals

CONSTANTS
  Users,       \* accounts besides the pool's and the treasury's
  Slots,       \* chains of receipts that can be in flight at the same time
  Amounts,     \* LST amounts of stakes, fees and transfers
  Stake,       \* LST minted to the treasury when the contract is created
  MaxSupply    \* bound on the LST minted

Accounts == Users \cup {"pool", "treasury"}

ASSUME LstTokenAssumption ==
  /\ IsFiniteSet(Users) /\ IsFiniteSet(Slots)
  /\ {"pool", "treasury"} \cap Users = {}
  /\ Amounts \subseteq Nat \ {0}
  /\ Stake \in Nat /\ MaxSupply \in Nat

VARIABLES
  ledger,      \* token.accounts, token.total_supply, statistics.num_delegators
  registered,  \* accounts with a storage deposit
  chains       \* slot -> stake, unstake or ft_transfer_call in progress

vars == <<ledger, registered, chains>>

Ledger == [lst : [Accounts -> Nat], total_supply : Nat, num_delegators : Nat]

-----------------------------------------------------------------------------
(* Operations on the ledger.                                                *)

(* decrease_delegators saturates at zero.                                   *)
decrease_delegators(n) == IF n = 0 THEN 0 ELSE n - 1

(* update_delegators: T is the ledger before an operation, U the one after. *)
update_delegators(T, U, a) ==
  [U EXCEPT !.num_delegators =
     CASE T.lst[a] = 0 /\ U.lst[a] > 0 -> @ + 1
       [] T.lst[a] > 0 /\ U.lst[a] = 0 -> decrease_delegators(@)
       [] OTHER                        -> @]

Minted(T, a, n) == [T EXCEPT !.lst[a] = @ + n, !.total_supply = @ + n]

Burned(T, a, n) == [T EXCEPT !.lst[a] = @ - n, !.total_supply = @ - n]

Moved(T, a, b, n) == Minted(Burned(T, a, n), b, n)

internal_deposit(T, a, n)  == update_delegators(T, Minted(T, a, n), a)
internal_withdraw(T, a, n) == update_delegators(T, Burned(T, a, n), a)

internal_transfer(T, a, b, n) ==
  internal_deposit(internal_withdraw(T, a, n), b, n)

\* A bug DelegatorsExact catches: only the sender is counted.
transfer_tokens_SenderOnly(T, a, b, n) ==
  update_delegators(T, Moved(T, a, b, n), a)

(* transfer_tokens, and the first receipt of ft_transfer_call.              *)
transfer_tokens(T, a, b, n) ==
  update_delegators(T, update_delegators(T, Moved(T, a, b, n), a), b)

(* What a resolver takes back: the part not used, as far as it is there.    *)
Refund(T, receiver, unused) ==
  IF T.lst[receiver] < unused THEN T.lst[receiver] ELSE unused

(* internal_ft_resolve_transfer, then both accounts are counted.  The       *)
(* refund of a sender that has unregistered is burned.                      *)
ft_resolve_transfer(T, sender, receiver, unused) ==
  LET n == Refund(T, receiver, unused)
  IN  IF sender \in registered THEN transfer_tokens(T, receiver, sender, n)
                               ELSE internal_withdraw(T, receiver, n)

\* A bug SupplyIsSum catches: an account that unregisters takes its LST out of the
\* accounts only.
Unregistered_KeepsSupply(T, a) == [T EXCEPT !.lst[a] = 0]

(* storage_unregister(force) burns what the account holds, and counts it    *)
(* out if that was anything.                                                *)
Unregistered(T, a) ==
  [T EXCEPT !.lst[a] = 0,
            !.total_supply = @ - T.lst[a],
            !.num_delegators = IF T.lst[a] > 0 THEN decrease_delegators(@) ELSE @]

-----------------------------------------------------------------------------
(* Chains of receipts.                                                      *)

Idle == [phase |-> "idle"]

(* "minted": the batch of a stake has minted to the pool, and               *)
(* on_restake_or_refund is to come.  "called": the receiver holds the LST   *)
(* and its ftOnTransfer is to come.  "unstaking": burned, on_unstake is to  *)
(* come.  "answered": the resolver is to come, to take back `unused`.       *)
(* The resolver is ft_resolve_transfer for a transfer, on_ft_on_transfer    *)
(* for a stake, none for the unstake that follows the latter.               *)
Chain ==
  [phase : {"minted", "called", "unstaking", "answered"},
   resolver : {"transfer", "stake", "none"},
   sender : Accounts, receiver : Accounts, amount : Nat, unused : Nat]

At(s, phase) == chains[s].phase = phase

Begin(s, c) ==
  /\ chains[s] = Idle
  /\ chains' = [chains EXCEPT ![s] = c]

Continue(s, phase) == chains' = [chains EXCEPT ![s].phase = phase]

Answer(s, unused) ==
  chains' = [chains EXCEPT ![s] = [@ EXCEPT !.phase = "answered", !.unused = unused]]

End(s) == chains' = [chains EXCEPT ![s] = Idle]

Init ==
  /\ ledger = internal_deposit(
       [lst |-> [a \in Accounts |-> 0], total_supply |-> 0, num_delegators |-> 0],
       "treasury", Stake)
  /\ registered = {"pool", "treasury"}
  /\ chains = [s \in Slots |-> Idle]

-----------------------------------------------------------------------------
(* Storage.                                                                 *)

(* storage_deposit, by the account or by another one for it.                *)
Register(a) ==
  /\ a \notin registered
  /\ registered' = registered \cup {a}
  /\ UNCHANGED <<ledger, chains>>

(* storage_unregister: without force only an account that holds nothing.    *)
Unregister(a, force) ==
  /\ a \in registered \ {"pool", "treasury"}
  /\ force \/ ledger.lst[a] = 0
  /\ registered' = registered \ {a}
  /\ ledger' = Unregistered(ledger, a)
  /\ UNCHANGED chains

-----------------------------------------------------------------------------
(* Transfers between accounts.  The pool never transfers LST of its own.    *)

CanTransfer(a, b, n) ==
  /\ a # b /\ a # "pool"
  /\ {a, b} \subseteq registered
  /\ n <= ledger.lst[a]

FtTransfer(a, b, n) ==
  /\ CanTransfer(a, b, n)
  /\ ledger' = transfer_tokens(ledger, a, b, n)
  /\ UNCHANGED <<registered, chains>>

FtTransferCall(s, a, b, n) ==
  /\ CanTransfer(a, b, n)
  /\ Begin(s, [phase |-> "called", resolver |-> "transfer",
               sender |-> a, receiver |-> b, amount |-> n, unused |-> 0])
  /\ ledger' = transfer_tokens(ledger, a, b, n)
  /\ UNCHANGED registered

(* A receiver elsewhere answers with what it did not use; a failure or an   *)
(* answer that does not parse stands for everything.                        *)
ReceiverAnswers(s) ==
  /\ At(s, "called") /\ chains[s].receiver # "pool"
  /\ \E unused \in 0..chains[s].amount : Answer(s, unused)
  /\ UNCHANGED <<ledger, registered>>

(* ft_on_transfer of the contract itself: handle_unstaking burns the LST.   *)
(* If it panics, nothing was used.                                          *)
OnTransferToPool(s) ==
  LET c == chains[s]
  IN  /\ At(s, "called") /\ c.receiver = "pool"
      /\ \/ /\ c.amount <= ledger.lst["pool"]
            /\ Continue(s, "unstaking")
            /\ ledger' = internal_withdraw(ledger, "pool", c.amount)
         \/ /\ Answer(s, c.amount)
            /\ UNCHANGED ledger
      /\ UNCHANGED registered

ResolveTransfer(s) ==
  LET c == chains[s]
  IN  /\ At(s, "answered") /\ c.resolver = "transfer"
      /\ End(s)
      /\ ledger' = ft_resolve_transfer(ledger, c.sender, c.receiver, c.unused)
      /\ UNCHANGED registered

-----------------------------------------------------------------------------
(* Staking and unstaking.                                                   *)

(* modify_state_before_stake mints for a registered receiver to the pool.   *)
MintStake(s, a, n) ==
  /\ a \in registered
  /\ ledger.total_supply + n <= MaxSupply
  /\ Begin(s, [phase |-> "minted", resolver |-> "stake",
               sender |-> "pool", receiver |-> a, amount |-> n, unused |-> 0])
  /\ ledger' = internal_deposit(ledger, "pool", n)
  /\ UNCHANGED registered

(* on_restake_or_refund: deliver and, for a stake with a msg, notify; leave *)
(* the LST on the pool's account if the receiver is not registered any      *)
(* more; or roll back.                                                      *)
OnRestakeOrRefund(s) ==
  LET c == chains[s]
  IN  /\ At(s, "minted")
      /\ \/ /\ c.receiver \in registered
            /\ c.amount <= ledger.lst["pool"]
            /\ End(s) \/ Continue(s, "called")
            /\ ledger' = internal_transfer(ledger, "pool", c.receiver, c.amount)
         \/ /\ c.receiver \notin registered
            /\ End(s)
            /\ UNCHANGED ledger
         \/ /\ c.amount <= ledger.lst["pool"]
            /\ End(s)
            /\ ledger' = internal_withdraw(ledger, "pool", c.amount)
      /\ UNCHANGED registered

\* A bug EscrowCovered and TypeOK catch: the receiver's answer is unstaked, also
\* where the receiver has spent the LST and none could be taken back.
Returned_Answer(c) == c.unused

(* The refund: the amount less what the resolver reports as used.           *)
Returned(c) == Refund(ledger, c.receiver, c.unused)

(* on_ft_on_transfer: what the receiver did not use comes back to the pool  *)
(* and is unstaked at once.  Without a refund_message, or if                *)
(* handle_unstaking panics, the callback changes nothing.                   *)
OnFtOnTransfer(s) ==
  LET c    == chains[s]
      back == Returned(c)
      T    == ft_resolve_transfer(ledger, "pool", c.receiver, c.unused)
  IN  /\ At(s, "answered") /\ c.resolver = "stake"
      /\ \/ /\ back > 0
            /\ chains' = [chains EXCEPT ![s] =
                            [@ EXCEPT !.phase = "unstaking", !.resolver = "none",
                                      !.amount = back]]
            /\ ledger' = internal_withdraw(T, "pool", back)
         \/ /\ End(s)
            /\ UNCHANGED ledger
      /\ UNCHANGED registered

\* A bug EscrowCovered catches: a failed unstake gives the LST back to nobody.
Restored_Nothing(n) == 0

(* What rollback_state_after_unstake mints to the pool again.               *)
Restored(n) == n

(* on_unstake.  Only an unstake that came by ft_on_transfer answers.        *)
OnUnstake(s) ==
  LET c == chains[s]
  IN  /\ At(s, "unstaking")
      /\ \/ /\ IF c.resolver = "none" THEN End(s) ELSE Answer(s, 0)
            /\ UNCHANGED ledger
         \/ /\ IF c.resolver = "none" THEN End(s) ELSE Answer(s, c.amount)
            /\ ledger' = internal_deposit(ledger, "pool", Restored(c.amount))
      /\ UNCHANGED registered

(* treasury_deposit in a reward sync; the fee may be worth no LST at all.   *)
MintFee(n) ==
  /\ ledger.total_supply + n <= MaxSupply
  /\ ledger' = internal_deposit(ledger, "treasury", n)
  /\ UNCHANGED <<registered, chains>>

-----------------------------------------------------------------------------
Receipt(s) ==
  \/ ReceiverAnswers(s) \/ OnTransferToPool(s) \/ ResolveTransfer(s)
  \/ OnRestakeOrRefund(s) \/ OnFtOnTransfer(s) \/ OnUnstake(s)

Next ==
  \/ \E a \in Users : Register(a)
  \/ \E a \in Users, force \in BOOLEAN : Unregister(a, force)
  \/ \E a, b \in Accounts, n \in Amounts :
       \/ FtTransfer(a, b, n)
       \/ \E s \in Slots : FtTransferCall(s, a, b, n)
  \/ \E s \in Slots, a \in Accounts, n \in Amounts : MintStake(s, a, n)
  \/ \E s \in Slots : Receipt(s)
  \/ \E n \in Amounts \cup {0} : MintFee(n)

Spec == Init /\ [][Next]_vars

-----------------------------------------------------------------------------
(* Properties.                                                              *)

(* Balances, supply and holders stay natural numbers: no refund, burn or    *)
(* delivery takes more than an account holds, whatever ran since the chain  *)
(* began.                                                                   *)
TypeOK ==
  /\ ledger \in Ledger
  /\ registered \subseteq Accounts
  /\ chains \in [Slots -> Chain \cup {Idle}]

(* total_supply is the sum of all balances after every mint, burn, refund   *)
(* to an account that has gone, and forced unregistering.                   *)
SupplyIsSum == ledger.total_supply = Total(ledger.lst)

(* num_delegators is the number of accounts that hold LST (README,          *)
(* get_number_of_accounts): no interleaving of transfers, refunds, stakes   *)
(* and unregistering counts a holder twice or forgets one.                  *)
Holders(f) == {a \in Accounts : f[a] > 0}

DelegatorsExact == ledger.num_delegators = Cardinality(Holders(ledger.lst))

(* LST on the pool's account that a chain in flight will deliver, burn or   *)
(* give back.                                                               *)
Escrowed(c) ==
  CASE c.phase = "minted"                            -> c.amount
    [] c.phase = "called" /\ c.receiver = "pool"     -> c.amount
    [] c.phase = "answered" /\ c.receiver = "pool"   -> c.unused
    [] OTHER                                         -> 0

(* The pool's account covers all chains in flight together: none of them    *)
(* finds its LST delivered, burned or refunded on behalf of another.        *)
EscrowCovered == Total([s \in Slots |-> Escrowed(chains[s])]) <= ledger.lst["pool"]

=============================================================================
