---------------------------- MODULE RestakeProofs ----------------------------
(***************************************************************************)
(* Theorems about module Restake, for any number of operations in flight,   *)
(* any keys, any amounts, and any number of scheduled stake actions.        *)
(***************************************************************************)
EXTENDS Restake, TLAPS

(* What the account asked of the validator: the proposal, then the actions  *)
(* that are scheduled and not run.                                          *)
Asked(i) == IF i = 0 THEN proposal ELSE actions[i]

(* The account locks at least its proposal, and a bad key never got one.    *)
ProposalGood ==
  /\ proposal.amount <= locked
  /\ proposal.amount > 0 => proposal.key \notin BadKeys

(* Every scheduled action is of one waiting chain, or of on_restake.        *)
ActionsGood ==
  /\ \A i \in 1..Len(actions) :
       actions[i].of # NoOne => chains[actions[i].of].phase = "scheduled"
  /\ \A i, j \in 1..Len(actions) :
       actions[i].of = actions[j].of => i = j \/ actions[i].of = NoOne

(* In a clean period the last thing asked for is the total with the present *)
(* key, but for what a sync added since, unless a stake has yet to ask.     *)
CleanGood ==
  clean =>
    /\ \A s \in Slots : chains[s].phase # "refused"
    /\ \/ \E s \in Slots : chains[s].phase = "minted"
       \/ /\ Asked(Len(actions)).amount = total - behind
          /\ Asked(Len(actions)).key = key

(* An action that ends the stake: it asks for nothing, or on_restake will   *)
(* hear that it was refused.                                                *)
Ends(j) ==
  \/ actions[j].amount = 0
  \/ /\ actions[j].key \in BadKeys /\ actions[j].of # NoOne
     /\ chains[actions[j].of].kind = "restake"

Recovering == \E s \in Slots : chains[s].kind = "restake" /\ chains[s].phase = "refused"

(* With a bad key, whatever a good one asked for will be given up.          *)
BadKeyGood ==
  key \in BadKeys =>
    \A i \in 0..Len(actions) :
      Asked(i).amount > 0 /\ Asked(i).key \notin BadKeys =>
        \/ \E j \in (i + 1)..Len(actions) : Ends(j)
        \/ i = 0 /\ Recovering

IInv ==
  /\ TypeOK /\ ProposalGood /\ ActionsGood /\ CleanGood /\ BadKeyGood

-----------------------------------------------------------------------------
(* The queue of actions.                                                    *)

Chains == [Slots -> Chain \cup {Idle}]

(* What is scheduled goes to the end.                                       *)
LEMMA Scheduled ==
  ASSUME actions \in Seq(Action), NEW m \in Nat, NEW k \in Keys,
         NEW o \in Slots \cup {NoOne}, Schedule(m, k, o)
  PROVE  /\ actions' \in Seq(Action) /\ Len(actions') <= MaxActions
         /\ Len(actions) \in Nat /\ Len(actions') = Len(actions) + 1
         /\ \A i \in 1..Len(actions) : actions'[i] = actions[i]
         /\ actions'[Len(actions) + 1].amount = m
         /\ actions'[Len(actions) + 1].key = k
         /\ actions'[Len(actions) + 1].of = o
         /\ behind' = 0
<1> DEFINE a == [amount |-> m, key |-> k, of |-> o]
<1>1. a \in Action /\ a.amount = m /\ a.key = k /\ a.of = o
  BY DEF Action
<1>2. actions' = Append(actions, a) /\ Len(actions) < MaxActions /\ MaxActions \in Nat
  BY RestakeAssumption DEF Schedule
<1> HIDE DEF a
<1>3. /\ actions' \in Seq(Action) /\ Len(actions) \in Nat
      /\ Len(actions') = Len(actions) + 1
      /\ \A i \in 1..Len(actions) : actions'[i] = actions[i]
      /\ actions'[Len(actions) + 1] = a
  BY <1>1, <1>2
<1> QED
  BY <1>1, <1>2, <1>3 DEF Schedule

(* The chain of an action is a slot.                                        *)
LEMMA ActionChains ==
  ASSUME IInv
  PROVE  /\ actions \in Seq(Action) /\ chains \in Chains /\ Len(actions) \in Nat
         /\ \A i \in 1..Len(actions) :
              /\ actions[i] \in Action
              /\ actions[i].of # NoOne =>
                   actions[i].of \in Slots /\ chains[actions[i].of].phase = "scheduled"
         /\ NoOne \notin Slots
<1>1. actions \in Seq(Action) /\ chains \in Chains
  BY DEF IInv, TypeOK, Chains
<1>2. \A i \in 1..Len(actions) : actions[i] \in Action
  BY <1>1
<1> QED
  BY <1>1, <1>2, RestakeAssumption DEF IInv, ActionsGood, Action

-----------------------------------------------------------------------------
(* Two kinds of steps.                                                      *)

(* A chain changes the total or the key and schedules an action for both.   *)
LEMMA ScheduleStep ==
  ASSUME IInv, NEW s \in Slots, NEW c \in Chain, c.phase = "scheduled",
         chains[s].phase \in {"idle", "minted"},
         chains' = [chains EXCEPT ![s] = c],
         total' \in Nat, earned' \in Nat, key' \in Keys, Schedule(total', key', s),
         proposal' = proposal, locked' = locked,
         key' = key \/ c.kind = "restake",
         clean' \in BOOLEAN, clean' => clean \/ Quiescent
  PROVE  IInv'
<1> DEFINE N == Len(actions)
<1>1. /\ actions' \in Seq(Action) /\ Len(actions') <= MaxActions
      /\ N \in Nat /\ Len(actions') = N + 1
      /\ \A i \in 1..N : actions'[i] = actions[i]
      /\ actions'[N + 1].amount = total' /\ actions'[N + 1].key = key'
      /\ actions'[N + 1].of = s /\ behind' = 0
  <2>1. actions \in Seq(Action) /\ s \in Slots \cup {NoOne}
    BY ActionChains
  <2> QED BY <2>1, Scheduled
<1>2. /\ chains \in Chains /\ chains' \in Chains /\ chains'[s] = c
      /\ \A x \in Slots \ {s} : chains'[x] = chains[x]
  BY ActionChains DEF Chains
<1>3. /\ \A i \in 1..N : actions[i].of # NoOne =>
           /\ actions[i].of \in Slots \ {s}
           /\ chains'[actions[i].of] = chains[actions[i].of]
           /\ chains'[actions[i].of].phase = "scheduled"
      /\ s # NoOne
  BY <1>2, ActionChains
<1> HIDE DEF N
<1>4. TypeOK'
  BY <1>1, <1>2 DEF IInv, TypeOK, Chains, Action, Chain, Idle, NoOne
<1>5. ActionsGood'
  <2>1. \A i \in 1..(N + 1) :
          actions'[i].of # NoOne => chains'[actions'[i].of].phase = "scheduled"
    BY <1>1, <1>2, <1>3
  <2>2. ASSUME NEW i \in 1..(N + 1), NEW j \in 1..(N + 1), actions'[i].of = actions'[j].of
        PROVE  i = j \/ actions'[i].of = NoOne
    <3>1. CASE i \in 1..N /\ j \in 1..N
      BY <1>1, <2>2, <3>1 DEF IInv, ActionsGood, N
    <3>2. CASE i \in 1..N /\ j = N + 1
      BY <1>1, <1>3, <2>2, <3>2
    <3>3. CASE j \in 1..N /\ i = N + 1
      BY <1>1, <1>3, <2>2, <3>3
    <3> QED BY <1>1, <3>1, <3>2, <3>3
  <2> QED BY <1>1, <2>1, <2>2 DEF ActionsGood
<1>6. CleanGood'
  <2>1. ASSUME clean', NEW x \in Slots PROVE chains'[x].phase # "refused"
    <3>1. CASE x = s
      BY <1>2, <3>1
    <3>2. CASE x # s /\ clean
      BY <1>2, <3>2 DEF IInv, CleanGood
    <3>3. CASE x # s /\ Quiescent
      BY <1>2, <3>3 DEF Quiescent, Idle
    <3> QED BY <2>1, <3>1, <3>2, <3>3
  <2>2. /\ Asked(Len(actions))'.amount = total' - behind' /\ Asked(Len(actions))'.key = key'
    BY <1>1 DEF Asked
  <2> QED BY <2>1, <2>2 DEF CleanGood
<1>7. BadKeyGood'
  <2>1. SUFFICES ASSUME key' \in BadKeys, NEW i \in 0..(N + 1),
                        Asked(i)'.amount > 0, Asked(i)'.key \notin BadKeys
                 PROVE  \/ \E j \in (i + 1)..(N + 1) : Ends(j)'
                        \/ i = 0 /\ Recovering'
    BY <1>1 DEF BadKeyGood
  <2>2. i \in 0..N /\ Asked(i)' = Asked(i)
    BY <1>1, <2>1 DEF Asked
  <2>3. CASE c.kind = "restake"
    <3>1. PICK m \in Nat : m = N + 1
      BY <1>1
    <3>2. Ends(m)'
      BY <1>1, <1>2, <1>3, <2>1, <2>3, <3>1 DEF Ends
    <3> QED BY <1>1, <2>2, <3>1, <3>2
  <2>4. CASE key' = key
    <3>1. \/ \E j \in (i + 1)..N : Ends(j)
          \/ i = 0 /\ Recovering
      BY <2>1, <2>2, <2>4 DEF IInv, BadKeyGood, N
    <3>2. ASSUME NEW j \in (i + 1)..N, Ends(j) PROVE Ends(j)'
      BY <1>1, <1>3, <2>2, <3>2 DEF Ends
    <3>3. Recovering => Recovering'
      BY <1>2 DEF Recovering
    <3> QED BY <1>1, <2>2, <3>1, <3>2, <3>3
  <2> QED BY <2>3, <2>4
<1>8. ProposalGood'
  BY DEF IInv, ProposalGood
<1> QED
  BY <1>4, <1>5, <1>6, <1>7, <1>8 DEF IInv

(* A step that schedules nothing and leaves the waiting chains alone.       *)
LEMMA PlainStep ==
  ASSUME IInv, actions' = actions, proposal' = proposal, key' = key,
         total' \in Nat, earned' \in Nat, behind' \in Nat, locked' \in Nat,
         proposal.amount <= locked',
         chains' \in Chains,
         \A x \in Slots : chains[x].phase = "scheduled" => chains'[x] = chains[x],
         clean' \in BOOLEAN, CleanGood',
         Recovering => Recovering' \/ proposal.amount = 0
  PROVE  IInv'
<1>1. TypeOK'
  BY DEF IInv, TypeOK, Chains, Action, Chain, Idle, NoOne
<1>2. \A i \in 1..Len(actions) : actions[i].of # NoOne =>
        chains'[actions[i].of] = chains[actions[i].of]
  BY ActionChains
<1>3. ActionsGood'
  BY <1>2 DEF IInv, ActionsGood
<1>4. BadKeyGood'
  <2>1. SUFFICES ASSUME key \in BadKeys, NEW i \in 0..Len(actions),
                        Asked(i).amount > 0, Asked(i).key \notin BadKeys
                 PROVE  \/ \E j \in (i + 1)..Len(actions) : Ends(j)'
                        \/ i = 0 /\ Recovering'
    BY DEF BadKeyGood, Asked
  <2>2. \/ \E j \in (i + 1)..Len(actions) : Ends(j)
        \/ i = 0 /\ Recovering
    BY <2>1 DEF IInv, BadKeyGood
  <2>3. ASSUME NEW j \in (i + 1)..Len(actions), Ends(j) PROVE Ends(j)'
    <3>1. j \in 1..Len(actions)
      BY <2>1, ActionChains
    <3> QED BY <1>2, <2>3, <3>1 DEF Ends
  <2>4. i = 0 /\ Recovering => Recovering'
    <3>1. i = 0 => proposal.amount > 0
      BY <2>1 DEF Asked
    <3> QED BY <3>1
  <2> QED BY <2>2, <2>3, <2>4
<1>5. ProposalGood'
  BY DEF IInv, ProposalGood
<1> QED
  BY <1>1, <1>3, <1>4, <1>5 DEF IInv

-----------------------------------------------------------------------------
(* The operations.                                                          *)

(* What the invariant says of the numbers and of a slot.                    *)
LEMMA Fields ==
  ASSUME IInv
  PROVE  /\ total \in Nat /\ earned \in Nat /\ key \in Keys /\ locked \in Nat
         /\ proposal.amount \in Nat /\ proposal.key \in Keys
         /\ proposal.amount <= locked /\ clean \in BOOLEAN /\ behind \in Nat
         /\ chains \in Chains
         /\ \A s \in Slots : chains[s] \in Chain \cup {Idle}
BY DEF IInv, TypeOK, Chains, ProposalGood

(* An unstake takes out what its check of the total lets it.                *)
LEMMA BeginUnstakeInv ==
  ASSUME IInv, NEW s \in Slots, NEW n \in Amounts, BeginUnstake(s, n)
  PROVE  IInv'
<1> DEFINE c == [kind |-> "unstake", phase |-> "scheduled", amount |-> n]
<1>1. PICK r \in Syncs :
        /\ n <= total + r
        /\ chains[s] = Idle /\ chains' = [chains EXCEPT ![s] = c]
        /\ total' = total + r - n /\ earned' = earned - r
        /\ Schedule(total + r - n, key, s)
        /\ Undisturbed /\ UNCHANGED <<key, proposal, locked>>
  BY DEF BeginUnstake, Begin
<1>2. n \in Nat /\ r \in Nat /\ r <= earned
  BY Fields, RestakeAssumption DEF Syncs
<1>3. c \in Chain /\ c.phase = "scheduled" /\ chains[s].phase = "idle"
  BY <1>1, <1>2 DEF Chain, Idle
<1> HIDE DEF c
<1>4. total' \in Nat /\ earned' \in Nat
  BY <1>1, <1>2, Fields
<1>5. clean' \in BOOLEAN /\ (clean' => clean \/ Quiescent)
  BY <1>1, Fields DEF Undisturbed
<1>6. Schedule(total', key', s) /\ key' \in Keys /\ key' = key
  BY <1>1, Fields
<1> QED
  BY <1>1, <1>3, <1>4, <1>5, <1>6, ScheduleStep

(* A ping and a change of the key are one step: a sync, then a restake.     *)
LEMMA RestakeStep ==
  ASSUME IInv, NEW s \in Slots, NEW r \in Syncs, Begin(s, "restake", "scheduled", 0),
         key' \in Keys, total' = total + r, earned' = earned - r,
         Schedule(total + r, key', s), Undisturbed, UNCHANGED <<proposal, locked>>
  PROVE  IInv'
<1> DEFINE c == [kind |-> "restake", phase |-> "scheduled", amount |-> 0]
<1>1. chains[s] = Idle /\ chains' = [chains EXCEPT ![s] = c]
  BY DEF Begin
<1>2. r \in Nat /\ r <= earned
  BY Fields DEF Syncs
<1>3. c \in Chain /\ c.phase = "scheduled" /\ c.kind = "restake"
  BY DEF Chain
<1> HIDE DEF c
<1>4. chains[s].phase = "idle"
  BY <1>1 DEF Idle
<1>5. total' \in Nat /\ earned' \in Nat
  BY <1>2, Fields
<1>6. clean' \in BOOLEAN /\ (clean' => clean \/ Quiescent)
  BY Fields DEF Undisturbed
<1>7. Schedule(total', key', s)
  OBVIOUS
<1> QED
  BY <1>1, <1>3, <1>4, <1>5, <1>6, <1>7, ScheduleStep

(* A ping recognises all rewards.                                           *)
LEMMA PingInv ==
  ASSUME IInv, NEW s \in Slots, Ping(s)
  PROVE  IInv'
<1>1. earned \in Syncs /\ earned' = earned - earned /\ key' \in Keys
  BY Fields DEF Ping, Syncs
<1>2. Schedule(total + earned, key', s)
  BY DEF Ping
<1> QED
  BY <1>1, <1>2, RestakeStep DEF Ping

(* A change of the key asks for the total with the new key.                 *)
LEMMA SetValidatorPublicKeyInv ==
  ASSUME IInv, NEW s \in Slots, NEW k \in Keys, SetValidatorPublicKey(s, k)
  PROVE  IInv'
<1>1. PICK r \in Syncs :
        /\ Begin(s, "restake", "scheduled", 0)
        /\ key' = k /\ total' = total + r /\ earned' = earned - r
        /\ Schedule(total + r, k, s)
        /\ Undisturbed /\ UNCHANGED <<proposal, locked>>
  BY DEF SetValidatorPublicKey
<1>2. Schedule(total + r, key', s)
  BY <1>1
<1> QED
  BY <1>1, <1>2, RestakeStep

(* A stake asks for the total, which already has its amount.                *)
LEMMA RestakeOrRefundInv ==
  ASSUME IInv, NEW s \in Slots, RestakeOrRefund(s)
  PROVE  IInv'
<1> DEFINE c == [chains[s] EXCEPT !.phase = "scheduled"]
<1>1. chains[s] \in Chain /\ chains[s].phase = "minted"
  BY Fields DEF RestakeOrRefund, Idle
<1>2. chains' = [chains EXCEPT ![s] = c] /\ c \in Chain /\ c.phase = "scheduled"
  BY <1>1 DEF RestakeOrRefund, Chain
<1> HIDE DEF c
<1>3. Schedule(total', key', s)
  BY DEF RestakeOrRefund, Restaked
<1> QED
  BY <1>1, <1>2, <1>3, Fields, ScheduleStep DEF RestakeOrRefund

(* A sync without a restake leaves the proposal behind by what it adds.     *)
LEMMA SyncOnlyInv ==
  ASSUME IInv, SyncOnly
  PROVE  IInv'
<1>1. Recovering => Recovering'
  BY DEF SyncOnly, Recovering
<1>2. /\ total' \in Nat /\ earned' \in Nat /\ behind' \in Nat
      /\ total' - behind' = total - behind
  BY Fields DEF SyncOnly
<1>3. CleanGood'
  BY <1>2 DEF SyncOnly, IInv, CleanGood, Asked
<1> QED
  BY <1>1, <1>2, <1>3, Fields, PlainStep DEF SyncOnly

(* A stake adds its amount, and has yet to ask for it.                      *)
LEMMA BeginStakeInv ==
  ASSUME IInv, NEW s \in Slots, NEW n \in Amounts, BeginStake(s, n)
  PROVE  IInv'
<1> DEFINE c == [kind |-> "stake", phase |-> "minted", amount |-> n]
<1>1. chains[s] = Idle /\ chains' = [chains EXCEPT ![s] = c]
  BY DEF BeginStake, Begin
<1>2. n \in Nat /\ c \in Chain /\ c.phase = "minted"
  BY RestakeAssumption DEF Chain
<1> HIDE DEF c
<1>3. chains' \in Chains /\ chains[s].phase = "idle"
  BY <1>1, <1>2, Fields DEF Chains, Idle
<1>4. \A x \in Slots : IF x = s THEN chains'[x] = c ELSE chains'[x] = chains[x]
  BY <1>1, Fields DEF Chains
<1>5. total' \in Nat
  BY <1>2, Fields DEF BeginStake
<1>6. CleanGood'
  <2>1. SUFFICES ASSUME clean', NEW x \in Slots
                 PROVE  chains'[x].phase # "refused"
    BY <1>2, <1>4 DEF CleanGood
  <2>2. clean \/ Quiescent
    BY <2>1 DEF BeginStake, Undisturbed
  <2>3. x # s => chains[x].phase # "refused"
    BY <2>2 DEF IInv, CleanGood, Quiescent, Idle
  <2> QED BY <1>2, <1>4, <2>3
<1>7. Recovering => Recovering'
  BY <1>3, <1>4 DEF Recovering
<1>8. clean' \in BOOLEAN
  BY Fields DEF BeginStake, Undisturbed
<1> QED
  BY <1>3, <1>4, <1>5, <1>6, <1>7, <1>8, Fields, PlainStep DEF BeginStake

(* An operation that ends frees its slot.                                   *)
LEMMA Ended ==
  ASSUME IInv, NEW s \in Slots, End(s)
  PROVE  /\ chains' \in Chains
         /\ \A x \in Slots : IF x = s THEN chains'[x] = Idle ELSE chains'[x] = chains[x]
BY Fields DEF End, Chains

(* A chain whose action was accepted has nothing left to do.                *)
LEMMA OnAcceptedInv ==
  ASSUME IInv, NEW s \in Slots, OnAccepted(s)
  PROVE  IInv'
<1>1. /\ chains' \in Chains
      /\ \A x \in Slots : IF x = s THEN chains'[x] = Idle ELSE chains'[x] = chains[x]
  BY Ended DEF OnAccepted
<1>2. chains[s].phase = "accepted" /\ clean' = clean /\ total' = total
  BY DEF OnAccepted
<1>3. CleanGood'
  <2>1. \A x \in Slots : chains'[x].phase = "refused" => chains[x].phase = "refused"
    BY <1>1 DEF Idle
  <2>2. \A x \in Slots : chains[x].phase = "minted" => chains'[x].phase = "minted"
    BY <1>1, <1>2
  <2> QED BY <1>2, <2>1, <2>2 DEF OnAccepted, IInv, CleanGood, Asked
<1>4. Recovering => Recovering'
  BY <1>1, <1>2 DEF Recovering
<1> QED
  BY <1>1, <1>2, <1>3, <1>4, Fields, PlainStep DEF OnAccepted

(* A stake or an unstake that was refused is rolled back, or panics.        *)
LEMMA OnRefusedInv ==
  ASSUME IInv, NEW s \in Slots, OnRefused(s)
  PROVE  IInv'
<1>1. /\ chains' \in Chains
      /\ \A x \in Slots : IF x = s THEN chains'[x] = Idle ELSE chains'[x] = chains[x]
  BY Ended DEF OnRefused
<1>2. chains[s].phase = "refused" /\ chains[s].kind # "restake" /\ clean' = clean
  BY DEF OnRefused
<1>3. total' \in Nat
  <2>1. chains[s].amount \in Nat /\ chains[s].kind \in {"stake", "unstake"}
    BY <1>2, Fields DEF Chain, Idle
  <2>2. CASE ~RollbackFits(chains[s])
    BY <2>2, Fields DEF OnRefused
  <2>3. CASE RollbackFits(chains[s])
    <3>1. total' = RolledBack(chains[s])
      BY <2>3 DEF OnRefused
    <3> QED BY <2>1, <2>3, <3>1, Fields DEF RollbackFits, RolledBack
  <2> QED BY <2>2, <2>3
<1>4. CleanGood'
  BY <1>2 DEF IInv, CleanGood
<1>5. Recovering => Recovering'
  BY <1>1, <1>2 DEF Recovering
<1> QED
  BY <1>1, <1>2, <1>3, <1>4, <1>5, Fields, PlainStep DEF OnRefused

(* on_restake gives up the stake with the last action of the queue.         *)
LEMMA GiveUpStep ==
  ASSUME IInv, NEW s \in Slots, OnRestakeFailed(s), locked > 0
  PROVE  IInv'
<1> DEFINE N == Len(actions)
<1>1. /\ chains' \in Chains
      /\ \A x \in Slots : IF x = s THEN chains'[x] = Idle ELSE chains'[x] = chains[x]
  BY Ended DEF OnRestakeFailed
<1>2. /\ actions' \in Seq(Action) /\ Len(actions') <= MaxActions
      /\ N \in Nat /\ Len(actions') = N + 1
      /\ \A i \in 1..N : actions'[i] = actions[i]
      /\ actions'[N + 1].amount = 0 /\ actions'[N + 1].of = NoOne /\ behind' = 0
  <2>1. actions \in Seq(Action) /\ NoOne \in Slots \cup {NoOne} /\ key \in Keys
    BY ActionChains, Fields
  <2>2. Schedule(0, key, NoOne)
    BY DEF OnRestakeFailed, GivenUp
  <2> QED BY <2>1, <2>2, Scheduled
<1>3. /\ chains[s].phase = "refused" /\ clean' = FALSE
      /\ UNCHANGED <<total, key, earned, proposal, locked>>
  BY DEF OnRestakeFailed, Disturbed
<1>4. \A i \in 1..N : actions[i].of # NoOne =>
        /\ actions[i].of \in Slots
        /\ chains'[actions[i].of] = chains[actions[i].of]
        /\ chains'[actions[i].of].phase = "scheduled"
  BY <1>1, <1>3, ActionChains
<1> HIDE DEF N
<1>5. TypeOK'
  BY <1>1, <1>2, <1>3 DEF IInv, TypeOK, Chains
<1>6. ActionsGood'
  <2>1. \A i \in 1..(N + 1) :
          actions'[i].of # NoOne => chains'[actions'[i].of].phase = "scheduled"
    BY <1>2, <1>4
  <2>2. ASSUME NEW i \in 1..(N + 1), NEW j \in 1..(N + 1), actions'[i].of = actions'[j].of
        PROVE  i = j \/ actions'[i].of = NoOne
    <3>1. CASE i \in 1..N /\ j \in 1..N
      BY <1>2, <2>2, <3>1 DEF IInv, ActionsGood, N
    <3>2. CASE i = N + 1 \/ j = N + 1
      BY <1>2, <2>2, <3>2
    <3> QED BY <1>2, <3>1, <3>2
  <2> QED BY <1>2, <2>1, <2>2 DEF ActionsGood
<1>7. BadKeyGood'
  <2>1. SUFFICES ASSUME NEW i \in 0..(N + 1), Asked(i)'.amount > 0
                 PROVE  \E j \in (i + 1)..(N + 1) : Ends(j)'
    BY <1>2 DEF BadKeyGood
  <2>2. i # N + 1
    BY <1>2, <2>1 DEF Asked
  <2>3. PICK m \in Nat : m = N + 1
    BY <1>2
  <2>4. Ends(m)'
    BY <1>2, <2>3 DEF Ends
  <2> QED BY <1>2, <2>2, <2>3, <2>4
<1>8. CleanGood' /\ ProposalGood'
  BY <1>3 DEF IInv, CleanGood, ProposalGood
<1> QED
  BY <1>5, <1>6, <1>7, <1>8 DEF IInv

(* A restake that was refused gives up what is locked, if anything is.      *)
LEMMA OnRestakeFailedInv ==
  ASSUME IInv, NEW s \in Slots, OnRestakeFailed(s)
  PROVE  IInv'
<1>1. CASE locked > 0
  BY <1>1, GiveUpStep
<1>2. CASE ~(locked > 0)
  <2>1. /\ chains' \in Chains
        /\ \A x \in Slots : IF x = s THEN chains'[x] = Idle ELSE chains'[x] = chains[x]
    BY Ended DEF OnRestakeFailed
  <2>2. chains[s].phase = "refused" /\ UNCHANGED <<actions, behind>> /\ clean' = FALSE
    BY <1>2 DEF OnRestakeFailed, Disturbed
  <2>3. CleanGood'
    BY <2>2 DEF CleanGood
  <2>4. proposal.amount = 0
    BY <1>2, Fields
  <2> QED BY <2>1, <2>2, <2>3, <2>4, Fields, PlainStep DEF OnRestakeFailed
<1> QED
  BY <1>1, <1>2

(* A new epoch locks what the proposal asks for, and may pay a reward.      *)
LEMMA NextEpochInv ==
  ASSUME IInv, NextEpoch
  PROVE  IInv'
<1>1. Recovering => Recovering'
  BY DEF NextEpoch, Recovering
<1>2. earned' \in Nat /\ locked' \in Nat /\ proposal.amount <= locked'
  BY Fields, RestakeAssumption DEF NextEpoch
<1>3. CleanGood'
  BY DEF NextEpoch, IInv, CleanGood, Asked
<1> QED
  BY <1>1, <1>2, <1>3, Fields, PlainStep DEF NextEpoch

-----------------------------------------------------------------------------
(* The account runs the first action.                                       *)

(* The actions that are left move up by one.                                *)
LEMMA Run ==
  ASSUME IInv, RunAction
  PROVE  /\ Len(actions) \in Nat /\ Len(actions) > 0 /\ Head(actions) = actions[1]
         /\ actions[1] \in Action
         /\ actions' \in Seq(Action) /\ Len(actions') = Len(actions) - 1
         /\ \A i \in 1..(Len(actions) - 1) : actions'[i] = actions[i + 1]
         /\ Len(actions') <= MaxActions
<1>1. actions \in Seq(Action) /\ actions # <<>> /\ actions' = Tail(actions)
  BY ActionChains DEF RunAction
<1>2. Len(actions) <= MaxActions /\ MaxActions \in Nat
  BY RestakeAssumption DEF IInv, TypeOK
<1> QED
  BY <1>1, <1>2

(* Only the phase of the chain that waits for the action changes.           *)
LEMMA Answering ==
  ASSUME IInv, RunAction, NEW p \in {"accepted", "refused"},
         Answered(Head(actions), p)
  PROVE  /\ chains' \in Chains
         /\ \A x \in Slots :
              /\ chains'[x].kind = chains[x].kind
              /\ x # actions[1].of => chains'[x] = chains[x]
              /\ x = actions[1].of =>
                   chains[x].phase = "scheduled" /\ chains'[x].phase = p
<1> DEFINE o == actions[1].of
<1>1. chains' = IF o = NoOne THEN chains ELSE [chains EXCEPT ![o].phase = p]
  BY Run DEF Answered
<1>2. chains \in Chains /\ (o # NoOne => o \in Slots /\ chains[o].phase = "scheduled")
  BY Run, ActionChains
<1>3. NoOne \notin Slots
  BY ActionChains
<1> HIDE DEF o
<1>4. o # NoOne => chains[o] \in Chain
  BY <1>2, Fields DEF Idle
<1>5. /\ chains' \in Chains
      /\ \A x \in Slots :
           /\ chains'[x].kind = chains[x].kind
           /\ x # o => chains'[x] = chains[x]
           /\ x = o => chains[x].phase = "scheduled" /\ chains'[x].phase = p
  <2>1. CASE o = NoOne
    BY <1>1, <1>2, <1>3, <2>1
  <2>2. CASE o # NoOne
    <3> DEFINE c == [chains[o] EXCEPT !.phase = p]
    <3>1. c \in Chain /\ c.phase = p /\ c.kind = chains[o].kind
      BY <1>4, <2>2 DEF Chain
    <3>2. chains' = [chains EXCEPT ![o] = c] /\ o \in Slots
      BY <1>1, <1>2, <2>2
    <3> HIDE DEF c
    <3> QED BY <1>2, <2>2, <3>1, <3>2 DEF Chains
  <2> QED BY <2>1, <2>2
<1> QED
  BY <1>5 DEF o

(* What the other actions wait for stays as it is.                          *)
LEMMA RunQueue ==
  ASSUME IInv, RunAction, NEW p \in {"accepted", "refused"},
         Answered(Head(actions), p)
  PROVE  /\ ActionsGood' /\ (Recovering => Recovering')
         /\ \A j \in 2..Len(actions) : Ends(j) =>
              \E m \in 1..(Len(actions) - 1) : m = j - 1 /\ Ends(m)'
<1> DEFINE N == Len(actions)
<1>1. /\ N \in Nat /\ N > 0 /\ Len(actions') = N - 1
      /\ \A i \in 1..(N - 1) : actions'[i] = actions[i + 1]
  BY Run
<1>2. \A x \in Slots :
        /\ chains'[x].kind = chains[x].kind
        /\ x # actions[1].of => chains'[x] = chains[x]
        /\ x = actions[1].of => chains[x].phase = "scheduled"
  BY Answering
<1>3. \A j \in 2..N : actions[j].of # NoOne =>
        /\ actions[j].of \in Slots
        /\ chains'[actions[j].of] = chains[actions[j].of]
        /\ chains'[actions[j].of].phase = "scheduled"
  <2>1. SUFFICES ASSUME NEW j \in 2..N, actions[j].of # NoOne
                 PROVE  /\ actions[j].of \in Slots
                        /\ chains[actions[j].of].phase = "scheduled"
                        /\ actions[j].of # actions[1].of
    BY <1>2
  <2>2. j \in 1..N /\ 1 \in 1..N /\ j # 1
    BY <1>1
  <2> QED BY <2>1, <2>2, ActionChains DEF IInv, ActionsGood
<1>4. \A i \in 1..(N - 1) : i + 1 \in 2..N
  BY <1>1
<1>5. ActionsGood'
  <2>1. \A i \in 1..(N - 1) :
          actions'[i].of # NoOne => chains'[actions'[i].of].phase = "scheduled"
    BY <1>1, <1>3, <1>4
  <2>2. \A i, j \in 1..(N - 1) :
          actions'[i].of = actions'[j].of => i = j \/ actions'[i].of = NoOne
    <3>1. \A i, j \in 1..N :
            actions[i].of = actions[j].of => i = j \/ actions[i].of = NoOne
      BY DEF IInv, ActionsGood
    <3>2. SUFFICES ASSUME NEW i \in 1..(N - 1), NEW j \in 1..(N - 1),
                          actions'[i].of = actions'[j].of, actions'[i].of # NoOne
                   PROVE  i = j
      OBVIOUS
    <3>3. /\ i + 1 \in 1..N /\ j + 1 \in 1..N
          /\ actions'[i] = actions[i + 1] /\ actions'[j] = actions[j + 1]
      BY <1>1
    <3>4. i + 1 = j + 1
      BY <3>1, <3>2, <3>3
    <3> QED BY <3>4
  <2> QED BY <1>1, <2>1, <2>2 DEF ActionsGood
<1>6. ASSUME NEW j \in 2..N, Ends(j)
      PROVE  \E m \in 1..(N - 1) : m = j - 1 /\ Ends(m)'
  <2>1. PICK m \in 1..(N - 1) : m = j - 1
    BY <1>1
  <2>2. actions'[m] = actions[j]
    BY <1>1, <2>1
  <2>3. Ends(m)'
    BY <1>3, <1>6, <2>2 DEF Ends
  <2> QED BY <2>1, <2>3
<1>7. Recovering => Recovering'
  <2>1. \A x \in Slots : chains[x].phase = "refused" => chains'[x] = chains[x]
    BY <1>2
  <2> QED BY <2>1 DEF Recovering
<1> QED
  BY <1>5, <1>6, <1>7

(* An accepted action becomes the proposal, and its chain goes on.          *)
LEMMA RunAccepted ==
  ASSUME IInv, RunAction, Accepted(Head(actions))
  PROVE  IInv'
<1> DEFINE N == Len(actions)
           a == actions[1]
<1>1. /\ N \in Nat /\ N > 0 /\ a \in Action /\ actions' \in Seq(Action)
      /\ Len(actions') = N - 1 /\ Len(actions') <= MaxActions
      /\ \A i \in 1..(N - 1) : actions'[i] = actions[i + 1]
      /\ Head(actions) = a
  BY Run
<1>2. /\ proposal' = [amount |-> a.amount, key |-> a.key]
      /\ locked' = IF a.amount > locked THEN a.amount ELSE locked
      /\ Answered(Head(actions), "accepted")
      /\ UNCHANGED <<total, key, earned, clean, behind>>
  BY <1>1 DEF RunAction
<1>3. /\ chains' \in Chains
      /\ \A x \in Slots : chains'[x] = chains[x] \/ chains'[x].phase = "accepted"
      /\ \A x \in Slots : chains[x].phase = "minted" => chains'[x].phase = "minted"
  BY <1>2, Answering
<1>4. /\ ActionsGood'
      /\ \A j \in 2..N : Ends(j) => \E m \in 1..(N - 1) : m = j - 1 /\ Ends(m)'
  BY <1>2, RunQueue
<1>5. a.amount \in Nat /\ a.key \in Keys
  BY <1>1 DEF Action
<1> HIDE DEF N
<1>6. \A i \in 0..(N - 1) :
        Asked(i)'.amount = Asked(i + 1).amount /\ Asked(i)'.key = Asked(i + 1).key
  <2>1. SUFFICES ASSUME NEW i \in 0..(N - 1)
                 PROVE  /\ Asked(i)'.amount = Asked(i + 1).amount
                        /\ Asked(i)'.key = Asked(i + 1).key
    OBVIOUS
  <2>2. CASE i = 0
    BY <1>2, <2>2 DEF Asked
  <2>3. CASE i > 0
    BY <1>1, <2>3 DEF Asked
  <2> QED BY <2>2, <2>3
<1> HIDE DEF a
<1>7. TypeOK'
  BY <1>1, <1>2, <1>3, <1>5 DEF IInv, TypeOK, Chains
<1>8. ProposalGood'
  <2>1. a.amount > 0 => a.key \notin BadKeys
    BY <1>1, <1>5 DEF Accepted
  <2> QED BY <1>2, <1>5, <2>1, Fields DEF ProposalGood
<1>9. CleanGood'
  <2>1. SUFFICES ASSUME clean
                 PROVE  CleanGood'
    BY <1>2 DEF CleanGood
  <2>2. \A x \in Slots : chains'[x].phase # "refused"
    BY <1>3, <2>1 DEF IInv, CleanGood
  <2>3. CASE \E x \in Slots : chains[x].phase = "minted"
    BY <1>3, <2>2, <2>3 DEF CleanGood
  <2>4. CASE Asked(N).amount = total - behind /\ Asked(N).key = key
    <3>1. N - 1 \in 0..(N - 1) /\ (N - 1) + 1 = N
      BY <1>1
    <3>2. PICK m \in 0..(N - 1) : m = N - 1
      BY <3>1
    <3>3. Asked(m)'.amount = total - behind /\ Asked(m)'.key = key
      BY <1>1, <1>6, <2>4, <3>2
    <3>4. m = Len(actions')
      BY <1>1, <3>2
    <3>5. /\ Asked(Len(actions))'.amount = total' - behind'
          /\ Asked(Len(actions))'.key = key'
      BY <1>2, <3>3, <3>4 DEF Asked
    <3> QED BY <2>2, <3>5 DEF CleanGood
  <2> QED BY <2>1, <2>3, <2>4 DEF IInv, CleanGood, N
<1>10. BadKeyGood'
  <2>1. SUFFICES ASSUME key \in BadKeys, NEW i \in 0..(N - 1),
                        Asked(i)'.amount > 0, Asked(i)'.key \notin BadKeys
                 PROVE  \E j \in (i + 1)..(N - 1) : Ends(j)'
    BY <1>1, <1>2 DEF BadKeyGood
  <2>2. i + 1 \in 0..N /\ i + 1 # 0
    BY <1>1
  <2>3. PICK j \in (i + 2)..N : Ends(j)
    BY <1>6, <2>1, <2>2 DEF IInv, BadKeyGood, N
  <2>4. PICK m \in 1..(N - 1) : m = j - 1 /\ Ends(m)'
    BY <1>1, <1>4, <2>3
  <2>5. m \in (i + 1)..(N - 1)
    BY <1>1, <2>3, <2>4
  <2> QED BY <2>4, <2>5
<1> QED
  BY <1>4, <1>7, <1>8, <1>9, <1>10 DEF IInv

(* A refused action changes nothing, and its chain hears of it.             *)
LEMMA RunRefused ==
  ASSUME IInv, RunAction, ~Accepted(Head(actions))
  PROVE  IInv'
<1> DEFINE N == Len(actions)
           a == actions[1]
<1>1. /\ N \in Nat /\ N > 0 /\ a \in Action /\ actions' \in Seq(Action)
      /\ Len(actions') = N - 1 /\ Len(actions') <= MaxActions
      /\ \A i \in 1..(N - 1) : actions'[i] = actions[i + 1]
      /\ Head(actions) = a
  BY Run
<1>2. /\ Answered(Head(actions), "refused") /\ clean' = FALSE
      /\ UNCHANGED <<total, key, earned, proposal, locked, behind>>
  BY DEF RunAction, Disturbed
<1>3. /\ chains' \in Chains
      /\ \A x \in Slots : chains'[x].kind = chains[x].kind
      /\ \A x \in Slots : x = a.of => chains'[x].phase = "refused"
  BY <1>2, Answering
<1>4. /\ ActionsGood' /\ (Recovering => Recovering')
      /\ \A j \in 2..N : Ends(j) => \E m \in 1..(N - 1) : m = j - 1 /\ Ends(m)'
  BY <1>2, RunQueue
<1>5. TypeOK'
  BY <1>1, <1>2, <1>3 DEF IInv, TypeOK, Chains
<1>6. a.of # NoOne => a.of \in Slots
  BY <1>1, ActionChains
<1> HIDE DEF N
<1>7. BadKeyGood'
  <2>1. SUFFICES ASSUME key \in BadKeys, NEW i \in 0..(N - 1),
                        Asked(i)'.amount > 0, Asked(i)'.key \notin BadKeys
                 PROVE  \/ \E j \in (i + 1)..(N - 1) : Ends(j)'
                        \/ i = 0 /\ Recovering'
    BY <1>1, <1>2 DEF BadKeyGood
  <2>2. ASSUME NEW j \in 2..N, Ends(j), j > i + 1
        PROVE  \E m \in (i + 1)..(N - 1) : Ends(m)'
    <3>1. PICK m \in 1..(N - 1) : m = j - 1 /\ Ends(m)'
      BY <1>4, <2>2
    <3>2. m \in (i + 1)..(N - 1)
      BY <1>1, <2>2, <3>1
    <3> QED BY <3>1, <3>2
  <2>3. CASE i > 0
    <3>1. Asked(i)' = actions[i + 1] /\ i + 1 \in 0..N /\ i + 1 # 0
      BY <1>1, <2>3 DEF Asked
    <3>2. Asked(i + 1) = actions[i + 1]
      BY <2>3 DEF Asked
    <3>3. PICK j \in (i + 2)..N : Ends(j)
      BY <2>1, <3>1, <3>2 DEF IInv, BadKeyGood, N
    <3>4. j \in 2..N /\ j > i + 1
      BY <1>1, <3>3
    <3> QED BY <2>2, <3>3, <3>4
  <2>4. CASE i = 0
    <3>1. Asked(i)' = proposal /\ Asked(0) = proposal /\ 0 \in 0..N
      BY <1>1, <1>2, <2>4 DEF Asked
    <3>2. (\E j \in 1..N : Ends(j)) \/ Recovering
      BY <2>1, <3>1 DEF IInv, BadKeyGood, N
    <3>3. CASE Ends(1)
      <4>1. a.amount # 0
        <5>1. proposal.amount > 0
          BY <2>1, <3>1
        <5> QED BY <1>1, <5>1, Fields DEF Accepted
      <4>2. a.of # NoOne /\ chains[a.of].kind = "restake"
        BY <3>3, <4>1 DEF Ends
      <4> QED BY <1>3, <1>6, <2>4, <4>2 DEF Recovering
    <3>4. ASSUME NEW j \in 1..N, j # 1, Ends(j)
          PROVE  \E m \in (i + 1)..(N - 1) : Ends(m)'
      <4>1. j \in 2..N /\ j > i + 1
        BY <1>1, <2>4, <3>4
      <4> QED BY <2>2, <3>4, <4>1
    <3> QED BY <1>4, <2>4, <3>2, <3>3, <3>4
  <2> QED BY <1>1, <2>3, <2>4
<1>8. CleanGood' /\ ProposalGood'
  BY <1>2 DEF IInv, CleanGood, ProposalGood
<1> QED
  BY <1>4, <1>5, <1>7, <1>8 DEF IInv

-----------------------------------------------------------------------------
(* Theorems.                                                                *)

(* Every operation, stake action, callback and epoch keeps the invariant.   *)
LEMMA NextInv == IInv /\ [Next]_vars => IInv'
<1> SUFFICES ASSUME IInv, [Next]_vars
             PROVE  IInv'
  OBVIOUS
<1>1. CASE SyncOnly
  BY <1>1, SyncOnlyInv
<1>2. ASSUME NEW s \in Slots, NEW n \in Amounts, BeginStake(s, n) \/ BeginUnstake(s, n)
      PROVE  IInv'
  BY <1>2, BeginStakeInv, BeginUnstakeInv
<1>3. ASSUME NEW s \in Slots, RestakeOrRefund(s) \/ Ping(s) \/ Callback(s)
      PROVE  IInv'
  BY <1>3, RestakeOrRefundInv, PingInv, OnAcceptedInv, OnRefusedInv, OnRestakeFailedInv
     DEF Callback
<1>4. ASSUME NEW s \in Slots, NEW k \in Keys, SetValidatorPublicKey(s, k)
      PROVE  IInv'
  BY <1>4, SetValidatorPublicKeyInv
<1>5. CASE RunAction
  BY <1>5, RunAccepted, RunRefused
<1>6. CASE NextEpoch
  BY <1>6, NextEpochInv
<1>7. CASE UNCHANGED vars
  BY <1>7 DEF vars, IInv, TypeOK, ProposalGood, ActionsGood, CleanGood, BadKeyGood,
              Asked, Ends, Recovering
<1> QED
  BY <1>1, <1>2, <1>3, <1>4, <1>5, <1>6, <1>7 DEF Next

(* The contract is created with a stake at the minimum, and nothing pending.*)
LEMMA InitInv == Init => IInv
<1> SUFFICES ASSUME Init
             PROVE  IInv
  OBVIOUS
<1>1. TypeOK
  BY RestakeAssumption DEF Init, TypeOK, Action
<1>2. ProposalGood
  BY RestakeAssumption DEF Init, ProposalGood
<1>3. Len(actions) = 0
  BY DEF Init
<1>4. ActionsGood
  BY <1>3 DEF ActionsGood
<1>5. CleanGood
  BY <1>3, RestakeAssumption DEF Init, CleanGood, Asked, Idle
<1>6. BadKeyGood
  BY RestakeAssumption DEF Init, BadKeyGood
<1> QED
  BY <1>1, <1>2, <1>4, <1>5, <1>6 DEF IInv

(* Every operation, stake action, callback and epoch of the pool keeps the  *)
(* invariant, in whatever order they come.                                  *)
THEOREM Invariance == Spec => []IInv
BY InitInv, NextInv, PTL DEF Spec

(* The total is never negative, although an unstake does not leave in it    *)
(* what a stake in flight may have to take back: a rollback that no longer  *)
(* fits panics and changes nothing.                                         *)
THEOREM TypeCorrect == Spec => []TypeOK
<1>1. IInv => TypeOK
  BY DEF IInv
<1> QED
  BY <1>1, Invariance, PTL

(* Stakes, unstakes and restakes that overlap lose nothing: when all are    *)
(* over and none of their actions was refused, the validator stakes the     *)
(* total with the present key, but for rewards that a sync without a        *)
(* restake recognised since the last of them asked.                         *)
THEOREM StakesAreSafe == Spec => []ConcurrentStakesAreSafe
<1>1. IInv => ConcurrentStakesAreSafe
  <2> SUFFICES ASSUME IInv, Quiescent, clean
               PROVE  proposal = [amount |-> total - behind, key |-> key]
    BY DEF ConcurrentStakesAreSafe
  <2>1. Len(actions) = 0 /\ \A s \in Slots : chains[s].phase # "minted"
    BY DEF Quiescent, Idle
  <2>2. proposal.amount = total - behind /\ proposal.key = key
    BY <2>1 DEF IInv, CleanGood, Asked
  <2> QED BY <2>2 DEF IInv, TypeOK
<1> QED
  BY <1>1, Invariance, PTL

(* A bad key leaves nothing staked with the validator of an earlier key, so *)
(* that the NEAR unbonds and withdrawals can be served.                     *)
THEOREM NoStakeWithBadKey == Spec => []BadKeyUnstakes
<1>1. IInv => BadKeyUnstakes
  <2> SUFFICES ASSUME IInv, Quiescent, key \in BadKeys
               PROVE  proposal.amount = 0
    BY DEF BadKeyUnstakes
  <2>1. Len(actions) = 0 /\ ~Recovering
    BY DEF Quiescent, Idle, Recovering
  <2>2. ~(proposal.amount > 0 /\ proposal.key \notin BadKeys)
    BY <2>1 DEF IInv, BadKeyGood, Asked
  <2> QED BY <2>2, Fields DEF IInv, ProposalGood
<1> QED
  BY <1>1, Invariance, PTL

=============================================================================
