--------------------------- MODULE StakePoolProofs ---------------------------
(***************************************************************************)
(* Theorems about module StakePool, for every set of users and slots, every *)
(* deposit, reward, fee and storage cost, and any number of chains.         *)
(***************************************************************************)
EXTENDS StakePool, TotalsProofs, TLAPS

-----------------------------------------------------------------------------
(* The invariant.                                                           *)

(* What a chain has fixed: the storage deposit it pays, the NEAR it stakes  *)
(* once it has its quote, and the positive payout of an unstake.  Only      *)
(* wNEAR is unwrapped.                                                      *)
ChainSound(c) ==
  /\ c.fee \in {0, StorageCost}
  /\ c.near >= 0
  /\ c.phase \in {"unwrap", "unwrapped"} => ~c.native
  /\ c.phase \in {"batch", "booked", "unbooked", "staking"} =>
       c.deposit > c.fee /\ c.near = c.deposit - c.fee
  /\ c.phase = "unstaking" => c.near > 0

ChainsSound == \A s \in Active : ChainSound(chains[s])

(* NEAR on its way back to the account is still to be recognised or paid    *)
(* for a storage deposit that the tracked total holds already.              *)
ReturnsAreCounted == returning <= surplus + kept

(* The ledgers need each other.  An account pays out only what it has       *)
(* because its NEAR is what the tracked total counts (TrackerLedger) and    *)
(* the tracked total is made of parts (Solvency); a chain takes back only   *)
(* its own LST because of PoolLstIsInFlight.                                *)
IInv ==
  /\ TypeOK
  /\ ChainsSound
  /\ PoolLstIsInFlight
  /\ TrackerLedger
  /\ Solvency
  /\ OnlyEarnedIsRecognised
  /\ ReturnsAreCounted

-----------------------------------------------------------------------------
(* Arithmetic of the exchange rate.                                         *)

(* A floored quotient is a natural number, and no more than the fraction.   *)
LEMMA Floored ==
  ASSUME NEW a \in Nat, NEW b \in Nat, b > 0
  PROVE  a \div b \in Nat /\ b * (a \div b) <= a
<1>1. a \div b \in Nat
  OBVIOUS
<1>2. b * (a \div b) <= a
  OBVIOUS
<1> QED
  BY <1>1, <1>2

(* Z3 needs to be told that a product of naturals is one.                   *)
LEMMA ProductIsNat ==
  ASSUME NEW a \in Nat, NEW b \in Nat
  PROVE  a * b \in Nat
OBVIOUS

(* The protocol fee is a part of the reward.                                *)
LEMMA FeeIsPart ==
  ASSUME protocol_fee_bps \in Fees, NEW reward \in Nat
  PROVE  split_protocol_fee(reward) \in 0..reward
<1>1. PICK n \in Nat : n = protocol_fee_bps /\ n <= 2000
  BY StakePoolAssumption DEF MAX_PROTOCOL_FEE_BPS
<1>2. reward * n \in Nat /\ reward * n <= 10000 * reward
  <2>1. 10000 * reward - reward * n = reward * (10000 - n)
    OBVIOUS
  <2>2. reward * (10000 - n) \in Nat /\ reward * n \in Nat
    BY <1>1
  <2> QED BY <2>1, <2>2
<1>3. PICK m \in Nat : m = reward * n
  BY <1>2
<1>4. m \div 10000 \in Nat /\ m \div 10000 <= reward
  BY <1>2, <1>3
<1> QED
  BY <1>1, <1>3, <1>4 DEF split_protocol_fee, BPS_DENOMINATOR

(* Quotes and payouts are natural numbers.                                  *)
LEMMA QuoteIsNat ==
  ASSUME NEW near \in Nat, NEW S \in Nat, NEW supply \in Nat
  PROVE  near_to_lst(near, S, supply) \in Nat /\ lst_to_near(near, S, supply) \in Nat
<1>1. CASE supply = 0
  BY <1>1 DEF near_to_lst, lst_to_near
<1>2. CASE supply # 0
  <2>1. near * S \in Nat /\ near * supply \in Nat
    BY ProductIsNat
  <2>2. (near * S) \div supply \in Nat
    BY <1>2, <2>1, Floored
  <2>3. S # 0 => (near * supply) \div S \in Nat
    BY <2>1, Floored
  <2> QED BY <1>2, <2>2, <2>3 DEF near_to_lst, lst_to_near
<1> QED
  BY <1>1, <1>2

(* The accounts are finitely many, and the supply is a natural number.      *)
LEMMA AccountsFinite ==
  IsFiniteSet(Accounts)
<1>1. {"pool", "treasury"} = {"pool"} \cup {"treasury"}
  OBVIOUS
<1>2. IsFiniteSet({"pool"}) /\ IsFiniteSet({"treasury"})
  BY FS_Singleton
<1>3. IsFiniteSet({"pool"} \cup {"treasury"})
  BY <1>2, FS_Union
<1> QED
  BY <1>1, <1>3, FS_Union, StakePoolAssumption DEF Accounts

(* ft_total_supply adds up every account, so it is a natural.               *)
LEMMA Supplies ==
  ASSUME TypeOK
  PROVE  total_supply \in Nat
BY AccountsFinite, TotalType DEF total_supply, TypeOK

-----------------------------------------------------------------------------
(* A sync.                                                                  *)

(* A sync books one reward, all of it: it lifts the stake and the tracked   *)
(* total by the same amount, which the account held above the tracked total.*)
LEMMA SyncBooks ==
  ASSUME TypeOK, NEW attached \in Nat
  PROVE  LET y == SyncRewards(attached)
         IN  /\ y.reward \in Nat /\ y.minted \in Nat
             /\ y.staked = staked + y.reward
             /\ y.tracked = tracked + y.reward
             /\ y.epoch \in 0..MaxEpoch
             /\ y.reward > 0 => y.tracked = balance
<1> DEFINE y       == SyncRewards(attached)
           current == balance + attached - Excluded(attached)
           reward  == current - tracked
           fee     == split_protocol_fee(reward)
           S       == staked + (reward - fee)
<1>1. current = balance
  BY DEF Excluded, TypeOK
<1>2. CASE epoch = last_epoch_synced \/ current <= tracked
  BY <1>2 DEF SyncRewards, NothingSynced, TypeOK
<1>3. CASE ~(epoch = last_epoch_synced \/ current <= tracked)
  <2>1. y = [staked |-> S + fee, tracked |-> current,
             minted |-> near_to_lst(fee, S, total_supply),
             reward |-> reward, epoch |-> epoch]
    BY <1>3 DEF SyncRewards
  <2>2. reward \in Nat /\ balance = tracked + reward
    BY <1>1, <1>3 DEF TypeOK
  <2>3. fee \in Nat /\ fee <= reward
    BY <2>2, FeeIsPart DEF TypeOK
  <2> HIDE DEF fee, current, y
  <2>4. S \in Nat /\ S + fee = staked + reward
    BY <2>2, <2>3 DEF TypeOK
  <2> HIDE DEF S, reward
  <2>5. near_to_lst(fee, S, total_supply) \in Nat
    BY <2>3, <2>4, Supplies, QuoteIsNat
  <2> QED BY <1>1, <2>1, <2>2, <2>4, <2>5 DEF y, TypeOK
<1> QED
  BY <1>2, <1>3

-----------------------------------------------------------------------------
(* Sums over the chains in flight.                                          *)

ChainOrIdle == Chain \cup {Idle}

(* A chain in flight is not the idle one, and has its phase.                *)
LEMMA IdleIsNoChain ==
  Idle \notin Chain /\ Idle.phase = "idle"
BY DEF Idle, Chain

(* What a chain counts for in each sum.                                     *)
LEMMA PartsAreNat ==
  ASSUME NEW c \in ChainOrIdle, c # Idle => ChainSound(c)
  PROVE  PoolLst(c) \in Nat /\ InTransit(c) \in Nat /\ InChain(c) \in Nat
<1>1. CASE c = Idle
  BY <1>1 DEF Idle, PoolLst, InTransit, InChain
<1>2. CASE c # Idle
  <2>1. c \in Chain /\ ChainSound(c)
    BY <1>2 DEF ChainOrIdle
  <2>2. c.lst \in Nat /\ c.deposit \in Nat /\ c.fee \in Nat /\ c.near \in Nat
    BY <2>1 DEF Chain, ChainSound
  <2> QED BY <2>2 DEF PoolLst, InTransit, InChain
<1> QED
  BY <1>1, <1>2

(* An idle slot counts for nothing.                                         *)
LEMMA IdleParts ==
  PoolLst(Idle) = 0 /\ InTransit(Idle) = 0 /\ InChain(Idle) = 0
BY DEF Idle, PoolLst, InTransit, InChain

(* The chains in flight are finitely many.                                  *)
LEMMA ActiveFinite ==
  IsFiniteSet(Active)
BY StakePoolAssumption, FS_Subset DEF Active

(* The sums are natural numbers, and a chain counts for a part of each.     *)
LEMMA SumsAreNat ==
  ASSUME TypeOK, ChainsSound
  PROVE  /\ SumOver(PoolLst) \in Nat /\ SumOver(InTransit) \in Nat /\ SumOver(InChain) \in Nat
         /\ \A s \in Slots :
              /\ PoolLst(chains[s]) \in Nat /\ PoolLst(chains[s]) <= SumOver(PoolLst)
              /\ InTransit(chains[s]) \in Nat /\ InTransit(chains[s]) <= SumOver(InTransit)
              /\ InChain(chains[s]) \in Nat /\ InChain(chains[s]) <= SumOver(InChain)
<1> DEFINE f == [s \in Active |-> PoolLst(chains[s])]
           g == [s \in Active |-> InTransit(chains[s])]
           k == [s \in Active |-> InChain(chains[s])]
<1>1. \A s \in Slots : chains[s] \in ChainOrIdle /\ (s \notin Active <=> chains[s] = Idle)
  BY DEF TypeOK, ChainOrIdle, Active
<1>2. \A s \in Slots : /\ PoolLst(chains[s]) \in Nat /\ InTransit(chains[s]) \in Nat
                       /\ InChain(chains[s]) \in Nat
  BY <1>1, PartsAreNat DEF ChainsSound
<1>3. f \in [Active -> Nat] /\ g \in [Active -> Nat] /\ k \in [Active -> Nat]
  BY <1>2 DEF Active
<1>4. Total(f) = SumOver(PoolLst) /\ Total(g) = SumOver(InTransit) /\ Total(k) = SumOver(InChain)
  BY DEF SumOver
<1>5. \A s \in Active : /\ f[s] = PoolLst(chains[s]) /\ g[s] = InTransit(chains[s])
                        /\ k[s] = InChain(chains[s])
  OBVIOUS
<1> HIDE DEF f, g, k
<1>6. Total(f) \in Nat /\ Total(g) \in Nat /\ Total(k) \in Nat
  BY <1>3, ActiveFinite, TotalType
<1>7. \A s \in Active : f[s] <= Total(f) /\ g[s] <= Total(g) /\ k[s] <= Total(k)
  BY <1>3, ActiveFinite, TotalMember
<1>8. \A s \in Slots \ Active :
        PoolLst(chains[s]) = 0 /\ InTransit(chains[s]) = 0 /\ InChain(chains[s]) = 0
  BY <1>1, IdleParts
<1>9. \A s \in Slots :
        /\ PoolLst(chains[s]) <= Total(f)
        /\ InTransit(chains[s]) <= Total(g)
        /\ InChain(chains[s]) <= Total(k)
  BY <1>5, <1>6, <1>7, <1>8
<1> QED
  BY <1>2, <1>4, <1>6, <1>9

(* A chain's step moves each sum by what the chain counts for before and    *)
(* after.                                                                   *)
LEMMA SumsMove ==
  ASSUME TypeOK, ChainsSound, NEW s \in Slots, NEW c \in ChainOrIdle,
         c # Idle => ChainSound(c), chains' = [chains EXCEPT ![s] = c]
  PROVE  /\ SumOver(PoolLst)' = SumOver(PoolLst) - PoolLst(chains[s]) + PoolLst(c)
         /\ SumOver(InTransit)' = SumOver(InTransit) - InTransit(chains[s]) + InTransit(c)
         /\ SumOver(InChain)' = SumOver(InChain) - InChain(chains[s]) + InChain(c)
         /\ ChainsSound'
         /\ chains' \in [Slots -> ChainOrIdle]
<1> DEFINE B == {t \in Slots : chains'[t] # Idle}
<1>1. chains \in [Slots -> ChainOrIdle] /\ chains' \in [Slots -> ChainOrIdle]
  BY DEF TypeOK, ChainOrIdle
<1>2. /\ chains'[s] = c
      /\ \A t \in Slots \ {s} : chains'[t] = chains[t]
  BY <1>1
<1>3. /\ Active \ {s} = B \ {s}
      /\ s \in Active <=> chains[s] # Idle
      /\ s \in B <=> c # Idle
      /\ B \subseteq Slots /\ Active \subseteq Slots
      /\ \A t \in Active \ {s} : chains'[t] = chains[t]
  BY <1>1, <1>2 DEF Active
<1>4. IsFiniteSet(B)
  BY StakePoolAssumption, FS_Subset
<1>5. \A t \in B : ChainSound(chains'[t])
  BY <1>1, <1>2, <1>3 DEF ChainsSound
<1>6. Active' = B
  BY DEF Active
<1>7. ChainsSound'
  BY <1>5, <1>6 DEF ChainsSound
<1>8. /\ \A t \in Active : /\ PoolLst(chains[t]) \in Nat /\ InTransit(chains[t]) \in Nat
                           /\ InChain(chains[t]) \in Nat
      /\ \A t \in B : /\ PoolLst(chains'[t]) \in Nat /\ InTransit(chains'[t]) \in Nat
                      /\ InChain(chains'[t]) \in Nat
  BY <1>1, <1>3, <1>5, PartsAreNat DEF ChainsSound
<1> HIDE DEF B
<1> DEFINE f0 == [t \in Active |-> PoolLst(chains[t])]
           f1 == [t \in B |-> PoolLst(chains'[t])]
           g0 == [t \in Active |-> InTransit(chains[t])]
           g1 == [t \in B |-> InTransit(chains'[t])]
           k0 == [t \in Active |-> InChain(chains[t])]
           k1 == [t \in B |-> InChain(chains'[t])]
<1>9. /\ Total(f0) = SumOver(PoolLst) /\ Total(f1) = SumOver(PoolLst)'
      /\ Total(g0) = SumOver(InTransit) /\ Total(g1) = SumOver(InTransit)'
      /\ Total(k0) = SumOver(InChain) /\ Total(k1) = SumOver(InChain)'
  BY <1>6 DEF SumOver
<1>10. /\ f0 \in [Active -> Nat] /\ f1 \in [B -> Nat]
       /\ g0 \in [Active -> Nat] /\ g1 \in [B -> Nat]
       /\ k0 \in [Active -> Nat] /\ k1 \in [B -> Nat]
  BY <1>8
<1>11. \A t \in Active \ {s} : f0[t] = f1[t] /\ g0[t] = g1[t] /\ k0[t] = k1[t]
  BY <1>3
<1>12. /\ s \in Active => /\ f0[s] = PoolLst(chains[s]) /\ g0[s] = InTransit(chains[s])
                          /\ k0[s] = InChain(chains[s])
       /\ s \in B => /\ f1[s] = PoolLst(c) /\ g1[s] = InTransit(c)
                     /\ k1[s] = InChain(c)
  BY <1>2
<1> HIDE DEF f0, f1, g0, g1, k0, k1
<1>13. /\ Total(f1) = Total(f0) - (IF s \in Active THEN f0[s] ELSE 0)
                                + (IF s \in B THEN f1[s] ELSE 0)
       /\ Total(g1) = Total(g0) - (IF s \in Active THEN g0[s] ELSE 0)
                                + (IF s \in B THEN g1[s] ELSE 0)
       /\ Total(k1) = Total(k0) - (IF s \in Active THEN k0[s] ELSE 0)
                                + (IF s \in B THEN k1[s] ELSE 0)
  <2>1. B \ {s} = Active \ {s} /\ IsFiniteSet(Active) /\ IsFiniteSet(B)
    BY <1>3, <1>4, ActiveFinite
  <2>2. Total(f1) = Total(f0) - (IF s \in Active THEN f0[s] ELSE 0)
                                + (IF s \in B THEN f1[s] ELSE 0)
    <3>1. f0 \in [Active -> Nat] /\ f1 \in [B -> Nat]
          /\ \A t \in Active \ {s} : f0[t] = f1[t]
      BY <1>10, <1>11
    <3> QED BY <2>1, <3>1, TotalMove
  <2>3. Total(g1) = Total(g0) - (IF s \in Active THEN g0[s] ELSE 0)
                                + (IF s \in B THEN g1[s] ELSE 0)
    <3>1. g0 \in [Active -> Nat] /\ g1 \in [B -> Nat]
          /\ \A t \in Active \ {s} : g0[t] = g1[t]
      BY <1>10, <1>11
    <3> QED BY <2>1, <3>1, TotalMove
  <2>4. Total(k1) = Total(k0) - (IF s \in Active THEN k0[s] ELSE 0)
                                + (IF s \in B THEN k1[s] ELSE 0)
    <3>1. k0 \in [Active -> Nat] /\ k1 \in [B -> Nat]
          /\ \A t \in Active \ {s} : k0[t] = k1[t]
      BY <1>10, <1>11
    <3> QED BY <2>1, <3>1, TotalMove
  <2> QED BY <2>2, <2>3, <2>4
<1>14. /\ (IF s \in Active THEN f0[s] ELSE 0) = PoolLst(chains[s])
       /\ (IF s \in B THEN f1[s] ELSE 0) = PoolLst(c)
       /\ (IF s \in Active THEN g0[s] ELSE 0) = InTransit(chains[s])
       /\ (IF s \in B THEN g1[s] ELSE 0) = InTransit(c)
       /\ (IF s \in Active THEN k0[s] ELSE 0) = InChain(chains[s])
       /\ (IF s \in B THEN k1[s] ELSE 0) = InChain(c)
  BY <1>3, <1>12, IdleParts
<1> QED
  BY <1>1, <1>7, <1>9, <1>13, <1>14

-----------------------------------------------------------------------------
(* The ledgers.                                                             *)

LstInFlight   == SumOver(PoolLst)
NearInTransit == SumOver(InTransit)
NearInChains  == SumOver(InChain)
Deposited     == StorageCost * Cardinality(registered)

(* The ledgers in terms of these sums.                                      *)
LEMMA LedgersAre ==
  /\ PoolLstIsInFlight <=> lst["pool"] = LstInFlight + stranded
  /\ TrackerLedger <=> balance + returning + NearInTransit = tracked + surplus
  /\ Solvency <=> tracked = staked + pending + NearInChains + Reserve + kept + Deposited
BY DEF PoolLstIsInFlight, TrackerLedger, Solvency, LstInFlight, NearInTransit,
       NearInChains, Deposited

(* The storage deposits are a natural number of yocto.                      *)
LEMMA DepositedType ==
  ASSUME registered \subseteq Users
  PROVE  Deposited \in Nat
<1>1. IsFiniteSet(registered) /\ StorageCost \in Nat
  BY StakePoolAssumption, FS_Subset
<1> QED
  BY <1>1, FS_CardinalityType, ProductIsNat DEF Deposited

(* The storage deposits follow the registered users.                        *)
LEMMA DepositsMove ==
  ASSUME TypeOK, NEW u \in Users
  PROVE  /\ Deposited \in Nat
         /\ u \notin registered =>
              StorageCost * Cardinality(registered \cup {u}) = Deposited + StorageCost
         /\ u \in registered =>
              /\ StorageCost * Cardinality(registered \ {u}) = Deposited - StorageCost
              /\ Deposited >= StorageCost
<1>1. IsFiniteSet(registered) /\ StorageCost \in Nat
  BY StakePoolAssumption, FS_Subset DEF TypeOK
<1>2. PICK n \in Nat : n = Cardinality(registered)
  BY <1>1, FS_CardinalityType
<1>3. Deposited = StorageCost * n /\ StorageCost * n \in Nat
  BY <1>1, <1>2, ProductIsNat DEF Deposited
<1>4. ASSUME u \notin registered
      PROVE  StorageCost * Cardinality(registered \cup {u}) = Deposited + StorageCost
  <2>1. Cardinality(registered \cup {u}) = n + 1
    BY <1>1, <1>2, <1>4, FS_AddElement
  <2>2. StorageCost * (n + 1) = StorageCost * n + StorageCost
    BY <1>1, <1>2
  <2> QED BY <1>3, <2>1, <2>2
<1>5. ASSUME u \in registered
      PROVE  /\ StorageCost * Cardinality(registered \ {u}) = Deposited - StorageCost
             /\ Deposited >= StorageCost
  <2>1. Cardinality(registered \ {u}) = n - 1 /\ Cardinality(registered \ {u}) \in Nat
    BY <1>1, <1>2, <1>5, FS_RemoveElement, FS_CardinalityType
  <2>2. PICK m \in Nat : m = n - 1 /\ n = m + 1
    BY <1>2, <2>1
  <2>3. StorageCost * (m + 1) = StorageCost * m + StorageCost
    BY <1>1, <2>2
  <2>4. StorageCost * m \in Nat
    BY <1>1, <2>2, ProductIsNat
  <2>5. Deposited = StorageCost * m + StorageCost
    BY <1>3, <2>2, <2>3
  <2>6. StorageCost * Cardinality(registered \ {u}) = StorageCost * m
    BY <2>1, <2>2
  <2>7. PICK k \in Nat : k = StorageCost * m
    BY <2>4
  <2> QED BY <1>1, <2>5, <2>6, <2>7
<1> QED
  BY <1>3, <1>4, <1>5

(* NEAR in transit belongs to a chain that has it in the tracked total.     *)
LEMMA TransitIsInChains ==
  ASSUME IInv
  PROVE  /\ NearInTransit <= NearInChains
         /\ \A s \in Slots :
              NearInTransit - InTransit(chains[s]) <= NearInChains - InChain(chains[s])
<1> DEFINE g == [t \in Active |-> InTransit(chains[t])]
           k == [t \in Active |-> InChain(chains[t])]
<1>1. /\ NearInTransit \in Nat /\ NearInChains \in Nat
      /\ \A t \in Slots : InTransit(chains[t]) \in Nat /\ InChain(chains[t]) \in Nat
  BY SumsAreNat DEF IInv, NearInTransit, NearInChains
<1>2. \A t \in Active : InTransit(chains[t]) <= InChain(chains[t])
  <2> SUFFICES ASSUME NEW t \in Active PROVE InTransit(chains[t]) <= InChain(chains[t])
    OBVIOUS
  <2>1. chains[t] \in Chain /\ ChainSound(chains[t])
    BY DEF IInv, TypeOK, Active, ChainsSound
  <2>2. PICK c \in Chain : c = chains[t] /\ ChainSound(c)
    BY <2>1
  <2>3. c.deposit \in Nat /\ c.fee \in Nat /\ c.near \in Nat
    BY <2>2 DEF Chain, ChainSound
  <2>4. InTransit(c) <= InChain(c)
    BY <2>2, <2>3 DEF InTransit, InChain, ChainSound
  <2> QED BY <2>2, <2>4
<1>3. g \in [Active -> Nat] /\ k \in [Active -> Nat] /\ \A t \in Active : g[t] <= k[t]
  BY <1>1, <1>2 DEF Active
<1>4. Total(g) = NearInTransit /\ Total(k) = NearInChains
  BY DEF SumOver, NearInTransit, NearInChains
<1>5. \A s \in Active : g[s] = InTransit(chains[s]) /\ k[s] = InChain(chains[s])
  OBVIOUS
<1> HIDE DEF g, k
<1>6. NearInTransit <= NearInChains
  BY <1>3, <1>4, ActiveFinite, TotalMonotone
<1>7. ASSUME NEW s \in Slots
      PROVE  NearInTransit - InTransit(chains[s]) <= NearInChains - InChain(chains[s])
  <2>1. CASE s \in Active
    BY <1>3, <1>4, <1>5, <2>1, ActiveFinite, TotalDominates
  <2>2. CASE s \notin Active
    <3>1. InTransit(chains[s]) = 0 /\ InChain(chains[s]) = 0
      BY <2>2, IdleParts DEF Active
    <3> QED BY <1>1, <1>6, <3>1
  <2> QED BY <2>1, <2>2
<1> QED
  BY <1>6, <1>7

(* So the account holds the stake, the claims, the storage deposits and     *)
(* what any one chain has on it; the tracked total and the pool's LST       *)
(* account cover any one chain too.                                         *)
LEMMA Covered ==
  ASSUME IInv, NEW s \in Slots
  PROVE  /\ balance >= staked + pending + Reserve + Deposited
                         + (InChain(chains[s]) - InTransit(chains[s]))
         /\ balance >= staked + pending + Reserve + Deposited
         /\ tracked >= staked + pending + Reserve + Deposited + InChain(chains[s])
         /\ lst["pool"] >= PoolLst(chains[s]) + stranded
<1>1. /\ LstInFlight \in Nat /\ NearInTransit \in Nat /\ NearInChains \in Nat
      /\ PoolLst(chains[s]) \in Nat /\ PoolLst(chains[s]) <= LstInFlight
      /\ InTransit(chains[s]) \in Nat
      /\ InChain(chains[s]) \in Nat /\ InChain(chains[s]) <= NearInChains
  BY SumsAreNat DEF IInv, LstInFlight, NearInTransit, NearInChains
<1>2. /\ NearInTransit <= NearInChains
      /\ NearInTransit - InTransit(chains[s]) <= NearInChains - InChain(chains[s])
  BY TransitIsInChains
<1>3. /\ lst["pool"] = LstInFlight + stranded
      /\ balance + returning + NearInTransit = tracked + surplus
      /\ tracked = staked + pending + NearInChains + Reserve + kept + Deposited
  BY LedgersAre DEF IInv
<1>4. Deposited \in Nat
  BY DepositedType DEF IInv, TypeOK
<1>5. /\ staked \in Nat /\ tracked \in Nat /\ pending \in Nat /\ Reserve \in Nat
      /\ kept \in Nat /\ balance \in Nat /\ returning \in Nat /\ surplus \in Int
      /\ stranded \in Nat /\ returning <= surplus + kept
  BY StakePoolAssumption DEF IInv, TypeOK, ReturnsAreCounted
<1> QED
  BY <1>1, <1>2, <1>3, <1>4, <1>5

(* What IInv says beside the chains and the ledgers.                        *)
Typed ==
  /\ staked \in Nat /\ tracked \in Nat /\ pending \in Nat
  /\ last_epoch_synced \in 0..MaxEpoch /\ epoch \in 0..MaxEpoch
  /\ protocol_fee_bps \in Fees
  /\ lst \in [Accounts -> Nat]
  /\ registered \subseteq Users
  /\ balance \in Nat /\ returning \in Nat
  /\ started \in 0..MaxChains
  /\ surplus \in Nat /\ kept \in Nat /\ stranded \in Nat
  /\ returning <= surplus + kept

(* A step that replaces the chain of a slot by another moves each ledger's  *)
(* two sides by the same amount.                                            *)
Balanced(s, c) ==
  /\ lst'["pool"] + PoolLst(chains[s]) + stranded = lst["pool"] + PoolLst(c) + stranded'
  /\ (balance' + returning' + InTransit(c)) + (tracked + surplus)
       = (balance + returning + InTransit(chains[s])) + (tracked' + surplus')
  /\ tracked' + (staked + pending + InChain(chains[s]) + kept + Deposited)
       = tracked + (staked' + pending' + InChain(c) + kept' + Deposited')

(* The invariant includes the types the arithmetic below needs.             *)
LEMMA TypedAre ==
  IInv => Typed
BY DEF IInv, Typed, TypeOK, OnlyEarnedIsRecognised, ReturnsAreCounted

(* A chain's step keeps the invariant if it keeps the ledgers balanced.     *)
LEMMA ChainStep ==
  ASSUME IInv, NEW s \in Slots, NEW c \in ChainOrIdle, c # Idle => ChainSound(c),
         chains' = [chains EXCEPT ![s] = c], Typed', Balanced(s, c)
  PROVE  IInv'
<1>1. /\ LstInFlight' = LstInFlight - PoolLst(chains[s]) + PoolLst(c)
      /\ NearInTransit' = NearInTransit - InTransit(chains[s]) + InTransit(c)
      /\ NearInChains' = NearInChains - InChain(chains[s]) + InChain(c)
      /\ ChainsSound' /\ chains' \in [Slots -> ChainOrIdle]
  BY SumsMove DEF IInv, LstInFlight, NearInTransit, NearInChains
<1>2. /\ LstInFlight \in Nat /\ NearInTransit \in Nat /\ NearInChains \in Nat
      /\ PoolLst(chains[s]) \in Nat /\ InTransit(chains[s]) \in Nat /\ InChain(chains[s]) \in Nat
  BY SumsAreNat DEF IInv, LstInFlight, NearInTransit, NearInChains
<1>3. PoolLst(c) \in Nat /\ InTransit(c) \in Nat /\ InChain(c) \in Nat
  BY PartsAreNat
<1>4. TypeOK'
  BY <1>1 DEF Typed, TypeOK, ChainOrIdle
<1>5. OnlyEarnedIsRecognised' /\ ReturnsAreCounted'
  <2>1. surplus' \in Nat /\ returning' <= surplus' + kept'
    BY DEF Typed
  <2>2. surplus' >= 0
    BY <2>1
  <2> QED BY <2>1, <2>2 DEF OnlyEarnedIsRecognised, ReturnsAreCounted
<1>6. /\ lst["pool"] = LstInFlight + stranded
      /\ balance + returning + NearInTransit = tracked + surplus
      /\ tracked = staked + pending + NearInChains + Reserve + kept + Deposited
  BY LedgersAre DEF IInv
<1>7. Deposited \in Nat /\ Deposited' \in Nat
  BY DepositedType, StakePoolAssumption, FS_Subset, FS_CardinalityType, ProductIsNat
     DEF IInv, TypeOK, Typed, Deposited
<1>8. /\ staked \in Nat /\ tracked \in Nat /\ pending \in Nat /\ Reserve \in Nat
      /\ kept \in Nat /\ balance \in Nat /\ returning \in Nat /\ surplus \in Int
      /\ stranded \in Nat /\ lst["pool"] \in Nat
  BY StakePoolAssumption DEF IInv, TypeOK, Accounts
<1>9. /\ staked' \in Nat /\ tracked' \in Nat /\ pending' \in Nat
      /\ kept' \in Nat /\ balance' \in Nat /\ returning' \in Nat /\ surplus' \in Int
      /\ stranded' \in Nat /\ lst'["pool"] \in Nat
  BY DEF Typed, Accounts
<1>10. lst'["pool"] = LstInFlight' + stranded'
  <2>1. lst'["pool"] + PoolLst(chains[s]) + stranded = lst["pool"] + PoolLst(c) + stranded'
    BY DEF Balanced
  <2>2. LstInFlight' = LstInFlight - PoolLst(chains[s]) + PoolLst(c)
    BY <1>1
  <2>3. /\ lst["pool"] = LstInFlight + stranded /\ LstInFlight \in Nat
        /\ PoolLst(chains[s]) \in Nat /\ PoolLst(c) \in Nat
        /\ stranded \in Nat /\ stranded' \in Nat /\ lst'["pool"] \in Nat
    BY <1>2, <1>3, <1>6, <1>8, <1>9
  <2> QED BY <2>1, <2>2, <2>3
<1>11. balance' + returning' + NearInTransit' = tracked' + surplus'
  <2>1. (balance' + returning' + InTransit(c)) + (tracked + surplus)
          = (balance + returning + InTransit(chains[s])) + (tracked' + surplus')
    BY DEF Balanced
  <2>2. NearInTransit' = NearInTransit - InTransit(chains[s]) + InTransit(c)
    BY <1>1
  <2>3. /\ balance + returning + NearInTransit = tracked + surplus /\ NearInTransit \in Nat
        /\ InTransit(chains[s]) \in Nat /\ InTransit(c) \in Nat
        /\ balance \in Nat /\ returning \in Nat /\ tracked \in Nat /\ surplus \in Int
        /\ balance' \in Nat /\ returning' \in Nat /\ tracked' \in Nat /\ surplus' \in Int
    BY <1>2, <1>3, <1>6, <1>8, <1>9
  <2> QED BY <2>1, <2>2, <2>3
<1>12. tracked' = staked' + pending' + NearInChains' + Reserve + kept' + Deposited'
  BY <1>1, <1>2, <1>3, <1>6, <1>7, <1>8, <1>9 DEF Balanced
<1>13. /\ PoolLstIsInFlight' <=> lst'["pool"] = LstInFlight' + stranded'
       /\ TrackerLedger' <=> balance' + returning' + NearInTransit' = tracked' + surplus'
       /\ Solvency' <=>
            tracked' = staked' + pending' + NearInChains' + Reserve + kept' + Deposited'
  BY DEF PoolLstIsInFlight, TrackerLedger, Solvency, LstInFlight, NearInTransit,
         NearInChains, Deposited
<1> QED
  BY <1>1, <1>4, <1>5, <1>10, <1>11, <1>12, <1>13 DEF IInv

-----------------------------------------------------------------------------
(* The steps.                                                               *)

(* A sync never recognises NEAR that is on its way back to the account or   *)
(* in a chain: that much of the surplus stays.                              *)
LEMMA SyncIsEarned ==
  ASSUME IInv, NEW attached \in Nat
  PROVE  LET y == SyncRewards(attached)
         IN  /\ y.reward \in Nat /\ y.minted \in Nat
             /\ y.staked = staked + y.reward
             /\ y.tracked = tracked + y.reward
             /\ y.epoch \in 0..MaxEpoch
             /\ surplus - y.reward \in Nat
             /\ returning <= (surplus - y.reward) + kept
<1> DEFINE y == SyncRewards(attached)
<1>1. /\ y.reward \in Nat /\ y.minted \in Nat
      /\ y.staked = staked + y.reward
      /\ y.tracked = tracked + y.reward
      /\ y.epoch \in 0..MaxEpoch
      /\ y.reward > 0 => y.tracked = balance
  BY SyncBooks DEF IInv
<1> HIDE DEF y
<1>2. /\ balance + returning + NearInTransit = tracked + surplus
      /\ NearInTransit \in Nat
  BY LedgersAre, SumsAreNat DEF IInv, NearInTransit
<1>3. /\ balance \in Nat /\ returning \in Nat /\ tracked \in Nat /\ surplus \in Nat
      /\ kept \in Nat /\ returning <= surplus + kept
  BY TypedAre DEF Typed
<1>4. CASE y.reward = 0
  BY <1>1, <1>3, <1>4 DEF y
<1>5. CASE y.reward > 0
  <2>1. balance = tracked + y.reward
    BY <1>1, <1>5
  <2>2. surplus - y.reward = returning + NearInTransit
    BY <1>1, <1>2, <1>3, <2>1
  <2>3. surplus - y.reward \in Nat /\ returning <= (surplus - y.reward) + kept
    BY <1>2, <1>3, <2>2
  <2> QED BY <1>1, <2>3 DEF y
<1> QED
  BY <1>1, <1>4, <1>5

(* A slot in some phase other than "idle" holds a sound chain.              *)
LEMMA InPhase ==
  ASSUME IInv, NEW s \in Slots, chains[s].phase # "idle"
  PROVE  /\ chains[s] \in Chain /\ chains[s] # Idle /\ ChainSound(chains[s])
         /\ chains[s].deposit \in Nat /\ chains[s].fee \in Nat
         /\ chains[s].near \in Nat /\ chains[s].lst \in Nat /\ chains[s].user \in Users
<1>1. chains[s] \in Chain /\ chains[s] # Idle
  BY IdleIsNoChain DEF IInv, TypeOK
<1>2. ChainSound(chains[s])
  BY <1>1 DEF IInv, ChainsSound, Active
<1> QED
  BY <1>1, <1>2 DEF Chain, ChainSound

(* A new contract, whose stake and reserve are in place, satisfies the      *)
(* invariant.                                                               *)
LEMMA InitIInv ==
  Init => IInv
<1> SUFFICES ASSUME Init PROVE IInv
  OBVIOUS
<1>1. Active = {}
  BY DEF Init, Active
<1>2. SumOver(PoolLst) = 0 /\ SumOver(InTransit) = 0 /\ SumOver(InChain) = 0
  BY <1>1, TotalEmpty DEF SumOver
<1>3. StorageCost * Cardinality(registered) = 0
  <2>1. Cardinality(registered) = 0
    BY FS_EmptySet DEF Init
  <2> QED BY <2>1, StakePoolAssumption
<1>4. Stake \in Nat /\ Reserve \in Nat /\ 0 \in Fees /\ MaxEpoch \in Nat /\ MaxChains \in Nat
  BY StakePoolAssumption
<1>5. TypeOK
  BY <1>4 DEF Init, TypeOK, Accounts
<1>6. PoolLstIsInFlight
  BY <1>2 DEF Init, PoolLstIsInFlight, Accounts
<1>7. TrackerLedger /\ Solvency
  BY <1>2, <1>3, <1>4 DEF Init, TrackerLedger, Solvency
<1> QED
  BY <1>1, <1>5, <1>6, <1>7
     DEF Init, IInv, ChainsSound, OnlyEarnedIsRecognised, ReturnsAreCounted

(* A new stake is a chain; its storage deposit is the contract's.           *)
LEMMA NewStakeIs ==
  ASSUME NEW u \in Users, NEW m \in Messages, NEW d \in Deposits,
         NEW phase \in {"batch", "unwrap"}
  PROVE  LET c == NewStake(u, m, d, phase)
         IN  /\ c \in Chain /\ c # Idle
             /\ c.fee \in {0, StorageCost} /\ c.fee \in Nat /\ c.near = 0
             /\ c.deposit = d /\ d \in Nat /\ c.native = m.native /\ c.phase = phase
<1>1. /\ m \in [native : BOOLEAN, storage : BOOLEAN, notify : BOOLEAN]
      /\ d \in Nat /\ StorageCost \in Nat
  BY StakePoolAssumption
<1>2. PICK fee \in {0, StorageCost} : fee = IF m.storage THEN StorageCost ELSE 0
  BY <1>1
<1> DEFINE c == [phase |-> phase, user |-> u, native |-> m.native, notify |-> m.notify,
                 deposit |-> d, fee |-> fee, near |-> 0, lst |-> 0,
                 trigger |-> "RefundByContract"]
<1>3. NewStake(u, m, d, phase) = c
  BY <1>2 DEF NewStake
<1>4. c \in Chain
  BY <1>1, <1>2 DEF Chain
<1> QED
  BY <1>1, <1>2, <1>3, <1>4, IdleIsNoChain

(* A quoted chain stakes what its storage deposit leaves.                   *)
LEMMA QuotedIs ==
  ASSUME NEW c \in Chain, c.fee \in {0, StorageCost}, NEW y, Buys(c, y),
         y.staked \in Nat, Supply(y) \in Nat
  PROVE  LET q == Quoted(c, y)
         IN  /\ q \in Chain /\ q # Idle /\ ChainSound(q)
             /\ PoolLst(q) = 0
             /\ InTransit(q) = IF c.native THEN 0 ELSE c.fee
             /\ InChain(q) = IF c.native THEN 0 ELSE c.deposit
<1> DEFINE n == c.deposit - c.fee
           l == near_to_lst(n, y.staked, Supply(y))
           q == [c EXCEPT !.phase = "batch", !.near = n, !.lst = l]
<1>1. c.deposit \in Nat /\ c.fee \in Nat /\ c.deposit > c.fee
  BY DEF Chain, Buys
<1>2. n \in Nat /\ n = c.deposit - c.fee
  BY <1>1
<1>3. Quoted(c, y) = q
  BY DEF Quoted
<1> HIDE DEF n
<1>4. l \in Nat
  BY <1>2, QuoteIsNat
<1> HIDE DEF l
<1>5. /\ q \in Chain /\ q.phase = "batch" /\ q.native = c.native /\ q.fee = c.fee
      /\ q.deposit = c.deposit /\ q.near = n
  <2>1. PICK p, u, a, b, d, f, x, o, t :
          c = [phase |-> p, user |-> u, native |-> a, notify |-> b, deposit |-> d,
               fee |-> f, near |-> x, lst |-> o, trigger |-> t]
    BY DEF Chain
  <2>2. q = [c EXCEPT !.phase = "batch", !.near = n, !.lst = l]
    OBVIOUS
  <2> HIDE DEF q
  <2>3. q = [phase |-> "batch", user |-> u, native |-> a, notify |-> b, deposit |-> d,
             fee |-> f, near |-> n, lst |-> l, trigger |-> t]
    BY <2>1, <2>2
  <2>4. /\ u \in Users /\ a \in BOOLEAN /\ b \in BOOLEAN /\ d \in Nat /\ f \in Nat
        /\ t \in {"UserRequest", "RefundByContract"}
    BY <2>1 DEF Chain
  <2>5. q \in Chain
    BY <1>2, <1>4, <2>3, <2>4 DEF Chain
  <2> QED BY <2>1, <2>3, <2>5
<1> HIDE DEF q
<1>6. ChainSound(q)
  BY <1>1, <1>2, <1>5 DEF ChainSound
<1>7. /\ PoolLst(q) = 0
      /\ InTransit(q) = IF c.native THEN 0 ELSE c.fee
      /\ InChain(q) = IF c.native THEN 0 ELSE c.deposit
  BY <1>5 DEF PoolLst, InTransit, InChain
<1> QED
  BY <1>3, <1>5, <1>6, <1>7, IdleIsNoChain

(* stake with an attached deposit: the sync and the quote; the deposit      *)
(* travels on with the batch, untracked.                                    *)
LEMMA StakeNativeStep ==
  ASSUME IInv, NEW s \in Slots, NEW u \in Users, NEW m \in Messages, NEW d \in Deposits,
         StakeNative(s, u, m, d)
  PROVE  IInv'
<1> DEFINE y == SyncRewards(d)
           c == NewStake(u, m, d, "batch")
           q == Quoted(c, y)
<1>1. /\ c \in Chain /\ c.fee \in {0, StorageCost} /\ c.native = m.native /\ d \in Nat
  BY NewStakeIs
<1>2. /\ y.reward \in Nat /\ y.minted \in Nat
      /\ y.staked = staked + y.reward /\ y.tracked = tracked + y.reward
      /\ y.epoch \in 0..MaxEpoch
      /\ surplus - y.reward \in Nat
      /\ returning <= (surplus - y.reward) + kept
  BY <1>1, SyncIsEarned
<1>3. /\ m.native /\ Buys(c, y) /\ Start(s, q) /\ Commit(y)
      /\ tracked' = y.tracked
      /\ lst' = [lst EXCEPT !["treasury"] = @ + y.minted]
      /\ UNCHANGED <<pending, protocol_fee_bps, registered, epoch, balance,
                     returning, kept, stranded>>
  BY DEF StakeNative
<1> HIDE DEF y, c
<1>4. Typed /\ total_supply \in Nat
  BY TypedAre, Supplies DEF IInv
<1>5. y.staked \in Nat /\ Supply(y) \in Nat
  BY <1>2, <1>4 DEF Typed, Supply
<1>6. /\ q \in Chain /\ q # Idle /\ ChainSound(q)
      /\ PoolLst(q) = 0 /\ InTransit(q) = 0 /\ InChain(q) = 0
  BY <1>1, <1>3, <1>5, QuotedIs
<1> HIDE DEF q
<1>7. /\ chains[s] = Idle /\ chains' = [chains EXCEPT ![s] = q]
      /\ started' = started + 1 /\ started < MaxChains
  BY <1>3 DEF Start
<1>8. Typed'
  <2>1. tracked' \in Nat /\ staked' \in Nat /\ started' \in 0..MaxChains
    BY <1>2, <1>3, <1>4, <1>7, StakePoolAssumption DEF Typed, Commit
  <2>2. lst' \in [Accounts -> Nat]
    BY <1>2, <1>3, <1>4 DEF Typed, Accounts
  <2> QED BY <1>2, <1>3, <1>4, <2>1, <2>2 DEF Typed, Commit
<1>9. Balanced(s, q)
  <2>1. lst'["pool"] = lst["pool"] /\ Deposited' = Deposited /\ Deposited \in Nat
    BY <1>3, <1>4, DepositedType DEF Typed, Accounts, Deposited
  <2>2. lst["pool"] \in Nat
    BY <1>4 DEF Typed, Accounts
  <2>3. PoolLst(chains[s]) = 0 /\ InTransit(chains[s]) = 0 /\ InChain(chains[s]) = 0
    BY <1>7, IdleParts
  <2>4. /\ tracked' = tracked + y.reward /\ staked' = staked + y.reward
        /\ surplus' = surplus - y.reward /\ balance' = balance /\ returning' = returning
        /\ pending' = pending /\ kept' = kept /\ stranded' = stranded
    BY <1>2, <1>3 DEF Commit
  <2> QED BY <1>2, <1>4, <1>6, <2>1, <2>2, <2>3, <2>4 DEF Typed, Balanced
<1> QED
  BY <1>6, <1>7, <1>8, <1>9, ChainStep DEF ChainOrIdle

Phases == {"unwrap", "unwrapped", "batch", "booked", "unbooked", "staking",
           "notified", "rewrap", "sent", "unstaking", "resolving"}

(* Continuing a chain changes its phase and nothing else of it.             *)
LEMMA Continues ==
  ASSUME IInv, NEW s \in Slots, chains[s] \in Chain, NEW p \in Phases, Continue(s, p)
  PROVE  LET q == [chains[s] EXCEPT !.phase = p]
         IN  /\ chains' = [chains EXCEPT ![s] = q]
             /\ q \in Chain /\ q # Idle /\ q.phase = p
             /\ q.native = chains[s].native /\ q.deposit = chains[s].deposit
             /\ q.fee = chains[s].fee /\ q.near = chains[s].near /\ q.lst = chains[s].lst
             /\ started' = started
<1> DEFINE q == [chains[s] EXCEPT !.phase = p]
<1>1. chains' = [chains EXCEPT ![s] = q] /\ started' = started
  BY DEF Continue
<1>2. q \in Chain
  BY DEF Chain, Phases
<1>3. /\ q.phase = p /\ q.native = chains[s].native /\ q.deposit = chains[s].deposit
      /\ q.fee = chains[s].fee /\ q.near = chains[s].near /\ q.lst = chains[s].lst
  BY DEF Chain
<1> QED
  BY <1>1, <1>2, <1>3, IdleIsNoChain

(* A step that changes the phase and the NEAR of a chain, or its LST too.   *)
WithNear(c, p, n)   == [c EXCEPT !.phase = p, !.near = n]
WithLst(c, p, l, n) == [c EXCEPT !.phase = p, !.lst = l, !.near = n]

(* What a chain is after its phase and its NEAR are set.                    *)
LEMMA WithNearIs ==
  ASSUME NEW c \in Chain, NEW p \in Phases, NEW n \in Nat
  PROVE  LET q == WithNear(c, p, n)
         IN  /\ q \in Chain /\ q # Idle /\ q.phase = p /\ q.near = n /\ q.lst = c.lst
             /\ q.native = c.native /\ q.deposit = c.deposit /\ q.fee = c.fee
<1> DEFINE q == WithNear(c, p, n)
<1>1. PICK h, u, a, b, d, f, x, o, t :
        c = [phase |-> h, user |-> u, native |-> a, notify |-> b, deposit |-> d,
             fee |-> f, near |-> x, lst |-> o, trigger |-> t]
  BY DEF Chain
<1>2. q = [c EXCEPT !.phase = p, !.near = n]
  BY DEF WithNear
<1> HIDE DEF q
<1>3. q = [phase |-> p, user |-> u, native |-> a, notify |-> b, deposit |-> d,
           fee |-> f, near |-> n, lst |-> o, trigger |-> t]
  BY <1>1, <1>2
<1>4. /\ u \in Users /\ a \in BOOLEAN /\ b \in BOOLEAN /\ d \in Nat /\ f \in Nat
      /\ o \in Nat /\ t \in {"UserRequest", "RefundByContract"}
  BY <1>1 DEF Chain
<1>5. q \in Chain
  BY <1>3, <1>4 DEF Chain, Phases
<1> QED
  BY <1>1, <1>3, <1>5, IdleIsNoChain DEF q

(* What a chain is after its phase, its LST and its NEAR are set.           *)
LEMMA WithLstIs ==
  ASSUME NEW c \in Chain, NEW p \in Phases, NEW l \in Nat, NEW n \in Nat
  PROVE  LET q == WithLst(c, p, l, n)
         IN  /\ q \in Chain /\ q # Idle /\ q.phase = p /\ q.near = n /\ q.lst = l
             /\ q.native = c.native /\ q.deposit = c.deposit /\ q.fee = c.fee
<1> DEFINE q == WithLst(c, p, l, n)
<1>1. PICK h, u, a, b, d, f, x, o, t :
        c = [phase |-> h, user |-> u, native |-> a, notify |-> b, deposit |-> d,
             fee |-> f, near |-> x, lst |-> o, trigger |-> t]
  BY DEF Chain
<1>2. q = [c EXCEPT !.phase = p, !.lst = l, !.near = n]
  BY DEF WithLst
<1> HIDE DEF q
<1>3. q = [phase |-> p, user |-> u, native |-> a, notify |-> b, deposit |-> d,
           fee |-> f, near |-> n, lst |-> l, trigger |-> t]
  BY <1>1, <1>2
<1>4. /\ u \in Users /\ a \in BOOLEAN /\ b \in BOOLEAN /\ d \in Nat /\ f \in Nat
      /\ o \in Nat /\ t \in {"UserRequest", "RefundByContract"}
  BY <1>1 DEF Chain
<1>5. q \in Chain
  BY <1>3, <1>4 DEF Chain, Phases
<1> QED
  BY <1>1, <1>3, <1>5, IdleIsNoChain DEF q

(* Updating fields of one chain, as the code does, updates the chain.       *)
SetNear(s, p, n)   == chains' = [chains EXCEPT ![s].phase = p, ![s].near = n]
SetLst(s, p, l, n) == chains' = [chains EXCEPT ![s].phase = p, ![s].lst = l, ![s].near = n]

(* The updates of a chain field by field, as one update of the chain.       *)
LEMMA ChainChanged ==
  ASSUME TypeOK, NEW s \in Slots, NEW p, NEW l, NEW n
  PROVE  /\ SetNear(s, p, n) => chains' = [chains EXCEPT ![s] = WithNear(chains[s], p, n)]
         /\ SetLst(s, p, l, n) => chains' = [chains EXCEPT ![s] = WithLst(chains[s], p, l, n)]
<1>1. chains \in [Slots -> Chain \cup {Idle}]
  BY DEF TypeOK
<1>2. [chains EXCEPT ![s].phase = p, ![s].near = n]
        = [chains EXCEPT ![s] = WithNear(chains[s], p, n)]
  BY <1>1 DEF WithNear
<1>3. [chains EXCEPT ![s].phase = p, ![s].lst = l, ![s].near = n]
        = [chains EXCEPT ![s] = WithLst(chains[s], p, l, n)]
  BY <1>1 DEF WithLst
<1> QED
  BY <1>2, <1>3 DEF SetNear, SetLst

(* What the chains of each phase count for.                                 *)
LEMMA PartsOf ==
  ASSUME NEW c \in Chain
  PROVE  /\ PoolLst(c) = IF c.phase \in {"booked", "staking", "sent", "resolving"}
                         THEN c.lst ELSE 0
         /\ c.phase \in {"unwrap"} => InTransit(c) = c.deposit /\ InChain(c) = c.deposit
         /\ c.phase = "unwrapped" => InTransit(c) = 0 /\ InChain(c) = c.deposit
         /\ c.phase = "batch" /\ ~c.native => InTransit(c) = c.fee /\ InChain(c) = c.deposit
         /\ c.phase = "unbooked" /\ ~c.native => InTransit(c) = 0 /\ InChain(c) = c.deposit
         /\ c.phase \in {"batch", "unbooked"} /\ c.native => InTransit(c) = 0 /\ InChain(c) = 0
         /\ c.phase = "unstaking" => InTransit(c) = 0 /\ InChain(c) = c.near
         /\ c.phase \in {"booked", "staking", "notified", "rewrap", "sent", "resolving"} =>
              InTransit(c) = 0 /\ InChain(c) = 0
BY DEF PoolLst, InTransit, InChain

(* ft_on_transfer of wNEAR: the tracker counts the deposit before wNEAR has *)
(* paid it out.                                                             *)
LEMMA StakeWnearStep ==
  ASSUME IInv, NEW s \in Slots, NEW u \in Users, NEW m \in Messages, NEW d \in Deposits,
         StakeWnear(s, u, m, d)
  PROVE  IInv'
<1> DEFINE c == NewStake(u, m, d, "unwrap")
<1>1. /\ c \in Chain /\ c # Idle /\ c.fee \in {0, StorageCost} /\ c.near = 0
      /\ c.deposit = d /\ d \in Nat /\ c.phase = "unwrap" /\ ~c.native
  BY NewStakeIs DEF StakeWnear
<1>2. /\ Start(s, c) /\ tracked' = tracked + d
      /\ UNCHANGED <<staked, pending, last_epoch_synced, protocol_fee_bps, token,
                     epoch, balance, returning, ghostVars>>
  BY DEF StakeWnear
<1> HIDE DEF c
<1>3. /\ chains[s] = Idle /\ chains' = [chains EXCEPT ![s] = c]
      /\ started' = started + 1 /\ started < MaxChains
  BY <1>2 DEF Start
<1>4. Typed
  BY TypedAre
<1>5. ChainSound(c) /\ PoolLst(c) = 0 /\ InTransit(c) = d /\ InChain(c) = d
  BY <1>1, PartsOf DEF ChainSound
<1>6. Typed'
  BY <1>1, <1>2, <1>3, <1>4, StakePoolAssumption DEF Typed, token, ghostVars
<1>7. Balanced(s, c)
  <2>1. lst'["pool"] = lst["pool"] /\ Deposited' = Deposited /\ Deposited \in Nat
    BY <1>2, <1>4, DepositedType DEF Typed, Accounts, Deposited, token
  <2>2. lst["pool"] \in Nat
    BY <1>4 DEF Typed, Accounts
  <2>3. PoolLst(chains[s]) = 0 /\ InTransit(chains[s]) = 0 /\ InChain(chains[s]) = 0
    BY <1>3, IdleParts
  <2>4. /\ tracked' = tracked + d /\ staked' = staked
        /\ surplus' = surplus /\ balance' = balance /\ returning' = returning
        /\ pending' = pending /\ kept' = kept /\ stranded' = stranded
    BY <1>2 DEF ghostVars
  <2> QED BY <1>1, <1>4, <1>5, <2>1, <2>2, <2>3, <2>4 DEF Typed, Balanced
<1> QED
  BY <1>1, <1>3, <1>5, <1>6, <1>7, ChainStep DEF ChainOrIdle

(* near_withdraw paid: the NEAR enters the account and stays in the chain.  *)
LEMMA UnwrapArrivesStep ==
  ASSUME IInv, NEW s \in Slots, UnwrapArrives(s)
  PROVE  IInv'
<1> DEFINE c == chains[s]
           q == [chains[s] EXCEPT !.phase = "unwrapped"]
<1>1. /\ c.phase = "unwrap" /\ Continue(s, "unwrapped") /\ balance' = balance + c.deposit
      /\ UNCHANGED <<statistics, token, epoch, returning, ghostVars>>
  BY DEF UnwrapArrives, At
<1>2. c \in Chain /\ ChainSound(c) /\ c.deposit \in Nat
  BY <1>1, InPhase
<1>3. /\ chains' = [chains EXCEPT ![s] = q] /\ started' = started
      /\ q \in Chain /\ q # Idle /\ q.phase = "unwrapped" /\ q.deposit = c.deposit
      /\ q.fee = c.fee /\ q.near = c.near /\ q.native = c.native
  <2>1. "unwrapped" \in Phases
    BY DEF Phases
  <2> QED BY <1>1, <1>2, <2>1, Continues
<1> HIDE DEF q
<1>4. ChainSound(q)
  BY <1>1, <1>2, <1>3 DEF ChainSound
<1>5. /\ PoolLst(c) = 0 /\ InTransit(c) = c.deposit /\ InChain(c) = c.deposit
      /\ PoolLst(q) = 0 /\ InTransit(q) = 0 /\ InChain(q) = c.deposit
  BY <1>1, <1>2, <1>3, PartsOf
<1>6. Typed
  BY TypedAre
<1>7. Typed'
  BY <1>1, <1>2, <1>3, <1>6 DEF Typed, statistics, token, ghostVars
<1>8. Balanced(s, q)
  <2>1. lst'["pool"] = lst["pool"] /\ Deposited' = Deposited /\ Deposited \in Nat
    BY <1>1, <1>6, DepositedType DEF Typed, Accounts, Deposited, token
  <2>2. lst["pool"] \in Nat
    BY <1>6 DEF Typed, Accounts
  <2>3. /\ tracked' = tracked /\ staked' = staked /\ pending' = pending
        /\ surplus' = surplus /\ balance' = balance + c.deposit /\ returning' = returning
        /\ kept' = kept /\ stranded' = stranded
    BY <1>1 DEF statistics, ghostVars
  <2> HIDE DEF c
  <2> QED BY <1>2, <1>5, <1>6, <2>1, <2>2, <2>3 DEF c, Typed, Balanced
<1> QED
  BY <1>3, <1>4, <1>7, <1>8, ChainStep DEF ChainOrIdle

(* near_withdraw failed: the tracker gives back what it counted.            *)
LEMMA UnwrapFailsStep ==
  ASSUME IInv, NEW s \in Slots, UnwrapFails(s)
  PROVE  IInv'
<1> DEFINE c == chains[s]
<1>1. /\ c.phase = "unwrap" /\ tracked' = tracked - c.deposit
      /\ chains' = [chains EXCEPT ![s] = Idle] /\ started' = started
      /\ UNCHANGED <<staked, pending, last_epoch_synced, protocol_fee_bps, token,
                     epoch, balance, returning, ghostVars>>
  BY DEF UnwrapFails, At, End
<1>2. c \in Chain /\ c.deposit \in Nat
  BY <1>1, InPhase
<1>3. /\ PoolLst(c) = 0 /\ InTransit(c) = c.deposit /\ InChain(c) = c.deposit
      /\ PoolLst(Idle) = 0 /\ InTransit(Idle) = 0 /\ InChain(Idle) = 0
  BY <1>1, <1>2, PartsOf, IdleParts
<1>4. Typed
  BY TypedAre
<1>5. Deposited \in Nat /\ Reserve \in Nat
  BY <1>4, DepositedType, StakePoolAssumption DEF Typed
<1>6. tracked >= c.deposit
  <2>1. tracked >= staked + pending + Reserve + Deposited + InChain(c)
    BY Covered
  <2> QED BY <1>2, <1>3, <1>4, <1>5, <2>1 DEF Typed
<1>7. Typed'
  <2>1. tracked' \in Nat
    BY <1>1, <1>2, <1>4, <1>6 DEF Typed
  <2> QED BY <1>1, <1>4, <2>1 DEF Typed, token, ghostVars
<1>8. Balanced(s, Idle)
  <2>1. lst'["pool"] = lst["pool"] /\ Deposited' = Deposited
    BY <1>1 DEF Deposited, token
  <2>2. lst["pool"] \in Nat
    BY <1>4 DEF Typed, Accounts
  <2>3. /\ tracked' = tracked - c.deposit /\ staked' = staked /\ pending' = pending
        /\ surplus' = surplus /\ balance' = balance /\ returning' = returning
        /\ kept' = kept /\ stranded' = stranded
    BY <1>1 DEF ghostVars
  <2> HIDE DEF c
  <2> QED BY <1>2, <1>3, <1>4, <1>5, <2>1, <2>2, <2>3 DEF c, Typed, Balanced
<1> QED
  BY <1>1, <1>7, <1>8, ChainStep DEF ChainOrIdle

(* on_near_withdraw has the deposit on the account, so it can pay the       *)
(* storage deposit out of it, or give all of it back.                       *)
LEMMA OnNearWithdrawStep ==
  ASSUME IInv, NEW s \in Slots, OnNearWithdraw(s)
  PROVE  IInv'
<1> DEFINE c == chains[s]
           y == SyncRewards(0)
<1>1. /\ c.phase = "unwrapped" /\ Commit(y)
      /\ lst' = [lst EXCEPT !["treasury"] = @ + y.minted]
      /\ UNCHANGED <<pending, protocol_fee_bps, registered, epoch, returning,
                     started, kept, stranded>>
  BY DEF OnNearWithdraw, At
<1>2. \/ /\ Buys(c, y) /\ chains' = [chains EXCEPT ![s] = Quoted(c, y)]
         /\ tracked' = y.tracked /\ balance' = balance - c.fee
      \/ /\ ~Buys(c, y)
         /\ chains' = [chains EXCEPT ![s].phase = "rewrap", ![s].near = c.deposit]
         /\ tracked' = y.tracked - c.deposit /\ balance' = balance - c.deposit
  BY DEF OnNearWithdraw
<1>3. /\ y.reward \in Nat /\ y.minted \in Nat
      /\ y.staked = staked + y.reward /\ y.tracked = tracked + y.reward
      /\ y.epoch \in 0..MaxEpoch
      /\ surplus - y.reward \in Nat
      /\ returning <= (surplus - y.reward) + kept
  BY SyncIsEarned
<1> HIDE DEF y
<1>4. c \in Chain /\ ChainSound(c) /\ c.deposit \in Nat /\ c.fee \in Nat
  BY <1>1, InPhase
<1>5. PoolLst(c) = 0 /\ InTransit(c) = 0 /\ InChain(c) = c.deposit
  BY <1>1, <1>4, PartsOf
<1>6. Typed /\ total_supply \in Nat
  BY TypedAre, Supplies DEF IInv
<1>7. /\ Deposited \in Nat /\ Deposited' = Deposited /\ Reserve \in Nat
      /\ lst["pool"] \in Nat /\ lst'["pool"] = lst["pool"]
  BY <1>1, <1>6, DepositedType, StakePoolAssumption DEF Typed, Accounts, Deposited
<1>8. balance >= c.deposit /\ tracked >= c.deposit
  <2>1. /\ tracked >= staked + pending + Reserve + Deposited + InChain(c)
        /\ balance >= staked + pending + Reserve + Deposited + (InChain(c) - InTransit(c))
    BY Covered
  <2> QED BY <1>4, <1>5, <1>6, <1>7, <2>1 DEF Typed
<1>9. lst' \in [Accounts -> Nat] /\ staked' \in Nat
  BY <1>1, <1>3, <1>6 DEF Typed, Accounts, Commit
<1>10. /\ staked' = staked + y.reward /\ surplus' = surplus - y.reward
       /\ last_epoch_synced' = y.epoch
  BY <1>1, <1>3 DEF Commit
<1>11. CASE Buys(c, y)
  <2> DEFINE q == Quoted(c, y)
  <2>1. /\ chains' = [chains EXCEPT ![s] = q]
        /\ tracked' = tracked + y.reward /\ balance' = balance - c.fee
    BY <1>2, <1>3, <1>11
  <2>2. /\ q \in Chain /\ q # Idle /\ ChainSound(q) /\ PoolLst(q) = 0
        /\ InTransit(q) = (IF c.native THEN 0 ELSE c.fee)
        /\ InChain(q) = (IF c.native THEN 0 ELSE c.deposit)
    <3>1. y.staked \in Nat /\ Supply(y) \in Nat
      BY <1>3, <1>6 DEF Typed, Supply
    <3> QED BY <1>4, <1>11, <3>1, QuotedIs DEF ChainSound
  <2> HIDE DEF q
  <2>3. ~c.native /\ c.fee <= c.deposit
    BY <1>1, <1>4, <1>11 DEF ChainSound, Buys
  <2>4. balance' \in Nat /\ tracked' \in Nat
    BY <1>3, <1>4, <1>6, <1>8, <2>1, <2>3 DEF Typed
  <2>5. Typed'
    BY <1>1, <1>3, <1>6, <1>9, <1>10, <2>4 DEF Typed
  <2>6. Balanced(s, q)
    <3>1. /\ tracked' = tracked + y.reward /\ staked' = staked + y.reward
          /\ surplus' = surplus - y.reward /\ balance' = balance - c.fee
          /\ returning' = returning /\ pending' = pending /\ kept' = kept
          /\ stranded' = stranded
      BY <1>1, <1>10, <2>1
    <3>2. InTransit(q) = c.fee /\ InChain(q) = c.deposit
      BY <2>2, <2>3
    <3>3. PoolLst(q) = 0
      BY <2>2
    <3> HIDE DEF c
    <3> QED BY <1>3, <1>4, <1>5, <1>6, <1>7, <3>1, <3>2, <3>3 DEF c, Typed, Balanced
  <2> QED BY <2>1, <2>2, <2>5, <2>6, ChainStep DEF ChainOrIdle
<1>12. CASE ~Buys(c, y)
  <2> DEFINE q == WithNear(c, "rewrap", c.deposit)
  <2>1. /\ chains' = [chains EXCEPT ![s] = q]
        /\ tracked' = tracked + y.reward - c.deposit /\ balance' = balance - c.deposit
    <3>1. SetNear(s, "rewrap", c.deposit)
      BY <1>2, <1>12 DEF SetNear
    <3>2. tracked' = y.tracked - c.deposit /\ balance' = balance - c.deposit
      BY <1>2, <1>12
    <3>3. chains' = [chains EXCEPT ![s] = q]
      BY <3>1, ChainChanged DEF IInv
    <3>4. y.tracked = tracked + y.reward
      BY <1>3
    <3>5. tracked \in Nat /\ y.reward \in Nat /\ y.tracked \in Nat /\ c.deposit \in Nat
      BY <1>3, <1>4, <1>6 DEF Typed
    <3> HIDE DEF c
    <3>6. tracked' = tracked + y.reward - c.deposit
      BY <3>2, <3>4, <3>5
    <3> QED BY <3>2, <3>3, <3>6 DEF c
  <2>2. /\ q \in Chain /\ q # Idle /\ q.phase = "rewrap" /\ q.near = c.deposit
        /\ q.fee = c.fee
    <3>1. "rewrap" \in Phases
      BY DEF Phases
    <3> QED BY <1>4, <3>1, WithNearIs
  <2> HIDE DEF q
  <2>3. ChainSound(q) /\ PoolLst(q) = 0 /\ InTransit(q) = 0 /\ InChain(q) = 0
    BY <1>4, <2>2, PartsOf DEF ChainSound
  <2>4. balance' \in Nat /\ tracked' \in Nat
    BY <1>3, <1>4, <1>6, <1>8, <2>1 DEF Typed
  <2>5. Typed'
    BY <1>1, <1>3, <1>6, <1>9, <1>10, <2>4 DEF Typed
  <2>6. Balanced(s, q)
    <3>1. /\ tracked' = tracked + y.reward - c.deposit /\ staked' = staked + y.reward
          /\ surplus' = surplus - y.reward /\ balance' = balance - c.deposit
          /\ returning' = returning /\ pending' = pending /\ kept' = kept
          /\ stranded' = stranded
      BY <1>1, <1>10, <2>1
    <3> HIDE DEF c
    <3> QED BY <1>3, <1>4, <1>5, <1>6, <1>7, <2>3, <3>1 DEF c, Typed, Balanced
  <2> QED BY <2>1, <2>2, <2>3, <2>5, <2>6, ChainStep DEF ChainOrIdle
<1> QED
  BY <1>11, <1>12

(* A chain that ends, or only has a callback to hear of, counts for nothing.*)
LEMMA Leaves ==
  ASSUME IInv, NEW s \in Slots, chains[s] \in Chain, ChainSound(chains[s]),
         NEW p \in {"notified", "rewrap"}, Continue(s, p) \/ End(s)
  PROVE  \E q \in ChainOrIdle :
           /\ q # Idle => ChainSound(q)
           /\ chains' = [chains EXCEPT ![s] = q] /\ started' = started
           /\ PoolLst(q) = 0 /\ InTransit(q) = 0 /\ InChain(q) = 0
<1>1. CASE End(s)
  BY <1>1, IdleParts DEF End, ChainOrIdle
<1>2. CASE Continue(s, p)
  <2> DEFINE q == [chains[s] EXCEPT !.phase = p]
  <2>1. p \in Phases
    BY DEF Phases
  <2>2. /\ chains' = [chains EXCEPT ![s] = q] /\ started' = started
        /\ q \in Chain /\ q.phase = p /\ q.native = chains[s].native
        /\ q.fee = chains[s].fee /\ q.near = chains[s].near
    BY <1>2, <2>1, Continues
  <2> HIDE DEF q
  <2>3. ChainSound(q)
    BY <2>2 DEF ChainSound
  <2>4. PoolLst(q) = 0 /\ InTransit(q) = 0 /\ InChain(q) = 0
    BY <2>2, PartsOf
  <2> QED BY <2>2, <2>3, <2>4 DEF ChainOrIdle
<1> QED
  BY <1>1, <1>2

(* The batch moves the deposit into the stake and into one storage deposit, *)
(* the receiver's own or, if it has one, the account's to keep.             *)
LEMMA BatchSucceedsStep ==
  ASSUME IInv, NEW s \in Slots, BatchSucceeds(s)
  PROVE  IInv'
<1> DEFINE c     == chains[s]
           q     == [chains[s] EXCEPT !.phase = "booked"]
           again == IF c.fee > 0 /\ c.user \in registered THEN c.fee ELSE 0
           in    == IF c.native THEN c.deposit ELSE c.fee
<1>1. /\ c.phase = "batch" /\ (c.fee > 0 \/ c.user \in registered)
      /\ Continue(s, "booked")
      /\ registered' = registered \cup {c.user}
      /\ balance' = balance + in - again
      /\ returning' = returning + again /\ kept' = kept + again
      /\ tracked' = tracked + Booked(c) /\ staked' = staked + c.near
      /\ lst' = [lst EXCEPT !["pool"] = @ + c.lst]
      /\ UNCHANGED <<pending, last_epoch_synced, protocol_fee_bps, epoch,
                     surplus, stranded>>
  BY DEF BatchSucceeds, At
<1>2. /\ c \in Chain /\ ChainSound(c) /\ c.deposit \in Nat /\ c.fee \in Nat
      /\ c.near \in Nat /\ c.lst \in Nat /\ c.user \in Users
      /\ c.deposit > c.fee /\ c.near = c.deposit - c.fee /\ c.fee \in {0, StorageCost}
  BY <1>1, InPhase DEF ChainSound
<1>3. /\ chains' = [chains EXCEPT ![s] = q] /\ started' = started
      /\ q \in Chain /\ q # Idle /\ q.phase = "booked" /\ q.deposit = c.deposit
      /\ q.fee = c.fee /\ q.near = c.near /\ q.lst = c.lst
  <2>1. "booked" \in Phases
    BY DEF Phases
  <2> QED BY <1>1, <1>2, <2>1, Continues
<1> HIDE DEF q
<1>4. ChainSound(q)
  BY <1>2, <1>3 DEF ChainSound
<1>5. PoolLst(q) = c.lst /\ InTransit(q) = 0 /\ InChain(q) = 0
  BY <1>3, PartsOf
<1>6. /\ PoolLst(c) = 0
      /\ InTransit(c) = (IF c.native THEN 0 ELSE c.fee)
      /\ InChain(c) = (IF c.native THEN 0 ELSE c.deposit)
      /\ Booked(c) = (IF c.native THEN c.deposit ELSE 0)
  BY <1>1, <1>2, PartsOf DEF Booked
<1>7. Typed
  BY TypedAre
<1>8. Deposited \in Nat /\ Reserve \in Nat
  BY <1>7, DepositedType, StakePoolAssumption DEF Typed
<1>9. again \in Nat /\ again <= c.fee /\ Deposited' = Deposited + (c.fee - again)
  <2>1. CASE c.user \in registered
    <3>1. registered' = registered
      BY <1>1, <2>1
    <3>2. Deposited' = Deposited
      BY <3>1 DEF Deposited
    <3>3. again = c.fee
      BY <1>2, <2>1
    <3> QED BY <1>2, <1>8, <3>2, <3>3
  <2>2. CASE c.user \notin registered
    <3>1. c.fee = StorageCost /\ again = 0
      BY <1>1, <1>2, <2>2
    <3>2. Deposited' = StorageCost * Cardinality(registered \cup {c.user})
      BY <1>1 DEF Deposited
    <3>3. Deposited' = Deposited + StorageCost
      BY <1>2, <2>2, <3>2, DepositsMove DEF IInv
    <3> QED BY <1>2, <1>8, <3>1, <3>3
  <2> QED BY <2>1, <2>2
<1>10. /\ in \in Nat /\ c.fee <= in /\ Booked(c) \in Nat
       /\ in = InTransit(c) + Booked(c)
       /\ InChain(c) + Booked(c) = c.deposit
  BY <1>2, <1>6
<1> HIDE DEF again, in
<1>11. Typed'
  <2>1. balance' \in Nat /\ returning' \in Nat /\ kept' \in Nat /\ tracked' \in Nat
        /\ staked' \in Nat /\ returning' <= surplus' + kept'
    BY <1>1, <1>2, <1>7, <1>9, <1>10 DEF Typed
  <2>2. lst' \in [Accounts -> Nat]
    BY <1>1, <1>2, <1>7 DEF Typed, Accounts
  <2> QED BY <1>1, <1>2, <1>3, <1>7, <2>1, <2>2 DEF Typed
<1>12. Balanced(s, q)
  <2>1. lst'["pool"] = lst["pool"] + c.lst /\ lst["pool"] \in Nat
    BY <1>1, <1>7 DEF Typed, Accounts
  <2>2. /\ tracked' = tracked + Booked(c) /\ staked' = staked + c.near
        /\ surplus' = surplus /\ balance' = balance + in - again
        /\ returning' = returning + again /\ pending' = pending /\ kept' = kept + again
        /\ stranded' = stranded
    BY <1>1
  <2>3. InTransit(c) \in Nat /\ InChain(c) \in Nat
    BY <1>2, <1>6
  <2>4. /\ PoolLst(c) = 0
        /\ c.lst \in Nat /\ c.fee \in Nat /\ c.deposit \in Nat /\ c.near = c.deposit - c.fee
    BY <1>2, <1>6
  <2> HIDE DEF c
  <2>5. lst'["pool"] + PoolLst(c) + stranded = lst["pool"] + PoolLst(q) + stranded'
    BY <1>5, <1>7, <2>1, <2>2, <2>4 DEF Typed
  <2>6. (balance' + returning' + InTransit(q)) + (tracked + surplus)
          = (balance + returning + InTransit(c)) + (tracked' + surplus')
    BY <1>5, <1>7, <1>9, <1>10, <2>2, <2>3 DEF Typed
  <2>7. tracked' + (staked + pending + InChain(c) + kept + Deposited)
          = tracked + (staked' + pending' + InChain(q) + kept' + Deposited')
    BY <1>5, <1>7, <1>8, <1>9, <1>10, <2>2, <2>3, <2>4 DEF Typed
  <2> QED BY <2>5, <2>6, <2>7 DEF c, Balanced
<1> QED
  BY <1>3, <1>4, <1>11, <1>12, ChainStep DEF ChainOrIdle

(* The batch was reverted: nothing is booked, minted or moved.              *)
LEMMA BatchFailsStep ==
  ASSUME IInv, NEW s \in Slots, BatchFails(s)
  PROVE  IInv'
<1> DEFINE c == chains[s]
           q == [chains[s] EXCEPT !.phase = "unbooked"]
<1>1. /\ c.phase = "batch" /\ c.fee = 0 /\ Continue(s, "unbooked")
      /\ UNCHANGED <<statistics, token, epoch, balance, returning, ghostVars>>
  BY DEF BatchFails, At
<1>2. c \in Chain /\ ChainSound(c) /\ c.deposit \in Nat
  BY <1>1, InPhase
<1>3. /\ chains' = [chains EXCEPT ![s] = q] /\ started' = started
      /\ q \in Chain /\ q # Idle /\ q.phase = "unbooked" /\ q.deposit = c.deposit
      /\ q.fee = c.fee /\ q.near = c.near /\ q.native = c.native
  <2>1. "unbooked" \in Phases
    BY DEF Phases
  <2> QED BY <1>1, <1>2, <2>1, Continues
<1> HIDE DEF q
<1>4. ChainSound(q)
  BY <1>1, <1>2, <1>3 DEF ChainSound
<1>5. PoolLst(q) = PoolLst(c) /\ InTransit(q) = InTransit(c) /\ InChain(q) = InChain(c)
  BY <1>1, <1>2, <1>3, PartsOf
<1>6. Typed
  BY TypedAre
<1>7. Typed'
  BY <1>1, <1>3, <1>6 DEF Typed, statistics, token, ghostVars
<1>8. Balanced(s, q)
  <2>1. lst' = lst /\ Deposited' = Deposited
    BY <1>1 DEF Deposited, token
  <2>2. /\ tracked' = tracked /\ staked' = staked /\ pending' = pending
        /\ surplus' = surplus /\ balance' = balance /\ returning' = returning
        /\ kept' = kept /\ stranded' = stranded
    BY <1>1 DEF statistics, ghostVars
  <2> HIDE DEF c
  <2> QED BY <1>5, <2>1, <2>2 DEF c, Balanced
<1> QED
  BY <1>3, <1>4, <1>7, <1>8, ChainStep DEF ChainOrIdle

(* restake_or_refund asks for the stake, or takes a deposit that was not    *)
(* booked off the tracked total and sends it back.                          *)
LEMMA RestakeOrRefundStep ==
  ASSUME IInv, NEW s \in Slots, RestakeOrRefund(s)
  PROVE  IInv'
<1> DEFINE c == chains[s]
<1>1. UNCHANGED <<staked, pending, last_epoch_synced, protocol_fee_bps, token,
                  epoch, returning, ghostVars>>
  BY DEF RestakeOrRefund
<1>2. c.phase \in {"booked", "unbooked"}
  BY DEF RestakeOrRefund, At
<1>3. /\ c \in Chain /\ ChainSound(c) /\ c.deposit \in Nat /\ c.fee \in Nat
      /\ c.near \in Nat /\ c.lst \in Nat
  BY <1>2, InPhase
<1>4. Typed
  BY TypedAre
<1>5. Deposited \in Nat /\ Reserve \in Nat /\ Deposited' = Deposited /\ lst' = lst
  BY <1>1, <1>4, DepositedType, StakePoolAssumption DEF Typed, Deposited, token
<1>6. /\ staked' = staked /\ pending' = pending /\ surplus' = surplus
      /\ returning' = returning /\ kept' = kept /\ stranded' = stranded
  BY <1>1 DEF ghostVars
<1>7. CASE At(s, "booked") /\ Continue(s, "staking") /\ UNCHANGED <<tracked, balance>>
  <2> DEFINE q == [chains[s] EXCEPT !.phase = "staking"]
  <2>1. "staking" \in Phases
    BY DEF Phases
  <2>2. /\ chains' = [chains EXCEPT ![s] = q] /\ started' = started
        /\ q \in Chain /\ q # Idle /\ q.phase = "staking" /\ q.deposit = c.deposit
        /\ q.fee = c.fee /\ q.near = c.near /\ q.native = c.native /\ q.lst = c.lst
    BY <1>3, <1>7, <2>1, Continues
  <2> HIDE DEF q
  <2>3. c.phase = "booked"
    BY <1>7 DEF At
  <2>4. ChainSound(q)
    BY <1>3, <2>2, <2>3 DEF ChainSound
  <2>5. PoolLst(q) = PoolLst(c) /\ InTransit(q) = InTransit(c) /\ InChain(q) = InChain(c)
    BY <1>3, <2>2, <2>3, PartsOf
  <2>6. Typed'
    BY <1>1, <1>4, <1>7, <2>2 DEF Typed, token, ghostVars
  <2>7. Balanced(s, q)
    BY <1>5, <1>6, <1>7, <2>5 DEF Balanced
  <2> QED BY <2>2, <2>4, <2>6, <2>7, ChainStep DEF ChainOrIdle
<1>8. CASE At(s, "unbooked") /\ c.native /\ End(s) /\ UNCHANGED <<tracked, balance>>
  <2>1. PoolLst(c) = 0 /\ InTransit(c) = 0 /\ InChain(c) = 0
    BY <1>3, <1>8, PartsOf DEF At
  <2>2. chains' = [chains EXCEPT ![s] = Idle] /\ started' = started
    BY <1>8 DEF End
  <2>3. Typed'
    BY <1>1, <1>4, <1>8, <2>2 DEF Typed, token, ghostVars
  <2>4. Balanced(s, Idle)
    BY <1>5, <1>6, <1>8, <2>1, IdleParts DEF Balanced
  <2> QED BY <2>2, <2>3, <2>4, ChainStep DEF ChainOrIdle
<1>9. CASE /\ At(s, "unbooked") /\ ~c.native
           /\ chains' = [chains EXCEPT ![s].phase = "rewrap", ![s].near = c.deposit]
           /\ tracked' = tracked - BookedOut(c.deposit)
           /\ balance' = balance - c.deposit
           /\ UNCHANGED started
  <2> DEFINE q == WithNear(c, "rewrap", c.deposit)
  <2>1. SetNear(s, "rewrap", c.deposit)
    BY <1>9 DEF SetNear
  <2>2. chains' = [chains EXCEPT ![s] = q]
    BY <2>1, ChainChanged DEF IInv
  <2>3. "rewrap" \in Phases
    BY DEF Phases
  <2>4. /\ q \in Chain /\ q # Idle /\ q.phase = "rewrap" /\ q.near = c.deposit
        /\ q.fee = c.fee
    <3>1. c \in Chain /\ c.deposit \in Nat
      BY <1>3
    <3> QED BY <2>3, <3>1, WithNearIs
  <2> HIDE DEF q
  <2>5. ChainSound(q) /\ PoolLst(q) = 0 /\ InTransit(q) = 0 /\ InChain(q) = 0
    BY <1>3, <2>4, PartsOf DEF ChainSound
  <2>6. PoolLst(c) = 0 /\ InTransit(c) = 0 /\ InChain(c) = c.deposit
    BY <1>3, <1>9, PartsOf DEF At
  <2>7. balance >= c.deposit /\ tracked >= c.deposit
    <3>1. /\ tracked >= staked + pending + Reserve + Deposited + InChain(c)
          /\ balance >= staked + pending + Reserve + Deposited + (InChain(c) - InTransit(c))
      BY Covered
    <3> QED BY <1>3, <1>4, <1>5, <2>6, <3>1 DEF Typed
  <2>8. tracked' = tracked - c.deposit /\ balance' = balance - c.deposit
    BY <1>9 DEF BookedOut
  <2>9. Typed'
    <3>1. tracked' \in Nat /\ balance' \in Nat /\ started' = started
      BY <1>3, <1>4, <1>9, <2>7, <2>8 DEF Typed
    <3> QED BY <1>1, <1>4, <3>1 DEF Typed, token, ghostVars
  <2>10. Balanced(s, q)
    <3>1. lst["pool"] \in Nat
      BY <1>4 DEF Typed, Accounts
    <3>2. c.deposit \in Nat
      BY <1>3
    <3> HIDE DEF c
    <3> QED BY <1>4, <1>5, <1>6, <2>5, <2>6, <2>8, <3>1, <3>2 DEF c, Typed, Balanced
  <2> QED BY <2>2, <2>4, <2>5, <2>9, <2>10, ChainStep DEF ChainOrIdle
<1> QED
  BY <1>7, <1>8, <1>9 DEF RestakeOrRefund

(* After a successful restake the LST leaves the pool's account for the     *)
(* receiver, or stays there if the receiver is gone.                        *)
LEMMA OnRestakeOkStep ==
  ASSUME IInv, NEW s \in Slots, OnRestakeOk(s)
  PROVE  IInv'
<1> DEFINE c == chains[s]
<1>1. /\ c.phase = "staking"
      /\ UNCHANGED <<statistics, registered, epoch, balance, returning, surplus, kept>>
  BY DEF OnRestakeOk, At
<1>2. /\ c \in Chain /\ ChainSound(c) /\ c.lst \in Nat /\ c.user \in Users
  BY <1>1, InPhase
<1>3. PICK q \in ChainOrIdle :
        /\ q # Idle => ChainSound(q)
        /\ chains' = [chains EXCEPT ![s] = q] /\ started' = started
        /\ PoolLst(q) = 0 /\ InTransit(q) = 0 /\ InChain(q) = 0
  <2>1. Continue(s, "notified") \/ End(s)
    BY DEF OnRestakeOk
  <2> QED BY <1>2, <2>1, Leaves
<1>4. PoolLst(c) = c.lst /\ InTransit(c) = 0 /\ InChain(c) = 0
  BY <1>1, <1>2, PartsOf
<1>5. Typed
  BY TypedAre
<1>6. c.user # "pool" /\ c.user \in Accounts /\ "pool" \in Accounts
  BY <1>2, StakePoolAssumption DEF Accounts
<1>7. /\ lst' \in [Accounts -> Nat] /\ stranded' \in Nat
      /\ lst'["pool"] + c.lst + stranded = lst["pool"] + stranded'
  <2>1. CASE /\ c.lst <= lst["pool"]
             /\ lst' = [lst EXCEPT !["pool"] = @ - c.lst, ![c.user] = @ + c.lst]
             /\ UNCHANGED stranded
    <3>1. lst["pool"] \in Nat /\ lst[c.user] \in Nat /\ lst["pool"] - c.lst \in Nat
      BY <1>2, <1>5, <1>6, <2>1 DEF Typed
    <3>2. lst' \in [Accounts -> Nat]
      BY <1>2, <1>5, <1>6, <2>1, <3>1 DEF Typed
    <3>3. lst'["pool"] = lst["pool"] - c.lst
      BY <1>5, <1>6, <2>1 DEF Typed
    <3> QED BY <1>2, <1>5, <2>1, <3>1, <3>2, <3>3 DEF Typed
  <2>2. CASE stranded' = stranded + c.lst /\ UNCHANGED lst
    <3>1. lst["pool"] \in Nat
      BY <1>5, <1>6 DEF Typed
    <3> QED BY <1>2, <1>5, <2>2, <3>1 DEF Typed
  <2> QED BY <2>1, <2>2 DEF OnRestakeOk
<1>8. Typed'
  BY <1>1, <1>3, <1>5, <1>7 DEF Typed, statistics
<1>9. Balanced(s, q)
  <2>1. Deposited' = Deposited /\ Deposited \in Nat
    BY <1>1, <1>5, DepositedType DEF Deposited, Typed
  <2>2. /\ tracked' = tracked /\ staked' = staked /\ pending' = pending
        /\ surplus' = surplus /\ balance' = balance /\ returning' = returning
        /\ kept' = kept
    BY <1>1 DEF statistics
  <2>3. lst["pool"] \in Nat /\ lst'["pool"] \in Nat
    BY <1>5, <1>6, <1>7 DEF Typed
  <2> HIDE DEF c
  <2>4. lst'["pool"] + PoolLst(c) + stranded = lst["pool"] + PoolLst(q) + stranded'
    BY <1>2, <1>3, <1>4, <1>5, <1>7, <2>3 DEF Typed
  <2> QED BY <1>3, <1>4, <1>5, <2>1, <2>2, <2>4 DEF c, Typed, Balanced
<1> QED
  BY <1>3, <1>8, <1>9, ChainStep

(* A rollback burns the chain's own LST and gives back the chain's own NEAR;*)
(* the account has it, because it holds all of the stake.                   *)
LEMMA OnRestakeFailedStep ==
  ASSUME IInv, NEW s \in Slots, OnRestakeFailed(s)
  PROVE  IInv'
<1> DEFINE c == chains[s]
<1>1. /\ c.phase = "staking"
      /\ UNCHANGED <<pending, last_epoch_synced, protocol_fee_bps, registered,
                     epoch, returning, surplus, kept>>
  BY DEF OnRestakeFailed, At
<1>2. /\ c \in Chain /\ ChainSound(c) /\ c.lst \in Nat /\ c.near \in Nat
  BY <1>1, InPhase
<1>3. PICK q \in ChainOrIdle :
        /\ q # Idle => ChainSound(q)
        /\ chains' = [chains EXCEPT ![s] = q] /\ started' = started
        /\ PoolLst(q) = 0 /\ InTransit(q) = 0 /\ InChain(q) = 0
  <2>1. Continue(s, "rewrap") \/ End(s)
    BY DEF OnRestakeFailed
  <2> QED BY <1>2, <2>1, Leaves
<1>4. PoolLst(c) = c.lst /\ InTransit(c) = 0 /\ InChain(c) = 0
  BY <1>1, <1>2, PartsOf
<1>5. Typed /\ lst["pool"] \in Nat
  BY TypedAre DEF Typed, Accounts
<1>6. Deposited \in Nat /\ Deposited' = Deposited /\ Reserve \in Nat
  BY <1>1, <1>5, DepositedType, StakePoolAssumption DEF Deposited, Typed
<1>7. \/ /\ RollbackFits(c)
         /\ lst' = [lst EXCEPT !["pool"] = @ - c.lst]
         /\ staked' = staked - c.near /\ tracked' = tracked - c.near
         /\ balance' = balance - c.near /\ UNCHANGED stranded
      \/ /\ stranded' = stranded + c.lst
         /\ UNCHANGED <<staked, tracked, lst, balance>>
  BY DEF OnRestakeFailed, BurnedBack, RolledBack
<1>8. CASE /\ RollbackFits(c)
           /\ lst' = [lst EXCEPT !["pool"] = @ - c.lst]
           /\ staked' = staked - c.near /\ tracked' = tracked - c.near
           /\ balance' = balance - c.near /\ UNCHANGED stranded
  <2>1. c.lst <= lst["pool"] /\ c.near <= staked /\ c.near <= tracked
    BY <1>8 DEF RollbackFits
  <2>2. balance >= c.near
    <3>1. balance >= staked + pending + Reserve + Deposited
      BY Covered
    <3> QED BY <1>2, <1>5, <1>6, <2>1, <3>1 DEF Typed
  <2>3. lst["pool"] - c.lst \in Nat
    BY <1>2, <1>5, <2>1
  <2>4. lst' \in [Accounts -> Nat] /\ lst'["pool"] = lst["pool"] - c.lst
    BY <1>5, <1>8, <2>3 DEF Typed, Accounts
  <2>5. staked' \in Nat /\ tracked' \in Nat /\ balance' \in Nat
    BY <1>2, <1>5, <1>8, <2>1, <2>2 DEF Typed
  <2>6. Typed'
    BY <1>1, <1>3, <1>5, <1>8, <2>4, <2>5 DEF Typed
  <2>7. Balanced(s, q)
    <3> HIDE DEF c
    <3>1. /\ staked' = staked - c.near /\ tracked' = tracked - c.near
          /\ balance' = balance - c.near /\ stranded' = stranded
      BY <1>8
    <3> QED BY <1>1, <1>2, <1>3, <1>4, <1>5, <1>6, <2>4, <3>1 DEF c, Typed, Balanced
  <2> QED BY <1>3, <2>6, <2>7, ChainStep
<1>9. CASE /\ stranded' = stranded + c.lst
           /\ UNCHANGED <<staked, tracked, lst, balance>>
  <2>1. Typed'
    BY <1>1, <1>2, <1>3, <1>5, <1>9 DEF Typed
  <2>2. Balanced(s, q)
    <3> HIDE DEF c
    <3> QED BY <1>1, <1>2, <1>3, <1>4, <1>5, <1>6, <1>9 DEF c, Typed, Balanced
  <2> QED BY <1>3, <2>1, <2>2, ChainStep
<1> QED
  BY <1>7, <1>8, <1>9

(* refund_wnear_deposit: NEAR that comes back is still to be recognised.    *)
LEMMA RewrapStep ==
  ASSUME IInv, NEW s \in Slots, Rewrap(s)
  PROVE  IInv'
<1> DEFINE c == chains[s]
<1>1. PICK back \in {0, c.near} :
        returning' = returning + back /\ surplus' = surplus + back
  BY DEF Rewrap
<1>2. /\ c.phase = "rewrap"
      /\ UNCHANGED <<statistics, token, epoch, balance, kept, stranded>>
  BY DEF Rewrap, At
<1>3. c \in Chain /\ c.near \in Nat
  BY <1>2, InPhase
<1>4. chains' = [chains EXCEPT ![s] = Idle] /\ started' = started
  BY DEF Rewrap, End
<1>5. PoolLst(c) = 0 /\ InTransit(c) = 0 /\ InChain(c) = 0
  BY <1>2, <1>3, PartsOf
<1>6. Typed /\ back \in Nat
  BY <1>1, <1>3, TypedAre
<1>7. Typed'
  <2>1. returning' \in Nat /\ surplus' \in Nat /\ returning' <= surplus' + kept'
    BY <1>1, <1>2, <1>6 DEF Typed
  <2> QED BY <1>2, <1>4, <1>6, <2>1 DEF Typed, statistics, token
<1>8. Balanced(s, Idle)
  <2>1. lst' = lst /\ Deposited' = Deposited
    BY <1>2 DEF Deposited, token
  <2>2. /\ tracked' = tracked /\ staked' = staked /\ pending' = pending
        /\ balance' = balance /\ kept' = kept /\ stranded' = stranded
    BY <1>2 DEF statistics
  <2> HIDE DEF c
  <2> QED BY <1>1, <1>5, <1>6, <2>1, <2>2, IdleParts DEF c, Typed, Balanced
<1> QED
  BY <1>4, <1>7, <1>8, ChainStep DEF ChainOrIdle

(* ft_transfer_call moves the LST to the pool's account, as its chain's.    *)
LEMMA SendUnstakeStep ==
  ASSUME IInv, NEW s \in Slots, NEW u \in Users, NEW amount \in 1..lst[u],
         SendUnstake(s, u, amount)
  PROVE  IInv'
<1> DEFINE q == NewUnstake(u, amount)
<1>1. /\ amount <= lst[u]
      /\ lst' = [lst EXCEPT ![u] = @ - amount, !["pool"] = @ + amount]
      /\ UNCHANGED <<statistics, registered, epoch, balance, returning, ghostVars>>
  BY DEF SendUnstake
<1>2. /\ chains[s] = Idle /\ chains' = [chains EXCEPT ![s] = q]
      /\ started' = started + 1 /\ started < MaxChains
  BY DEF SendUnstake, Start
<1>3. Typed
  BY TypedAre
<1>4. u # "pool" /\ u \in Accounts /\ "pool" \in Accounts
  BY StakePoolAssumption DEF Accounts
<1>5. lst[u] \in Nat /\ lst["pool"] \in Nat /\ amount \in Nat /\ lst[u] - amount \in Nat
  BY <1>1, <1>3, <1>4 DEF Typed
<1>6. /\ q \in Chain /\ q # Idle /\ ChainSound(q)
      /\ PoolLst(q) = amount /\ InTransit(q) = 0 /\ InChain(q) = 0
  <2>1. q = [phase |-> "sent", user |-> u, native |-> FALSE, notify |-> FALSE,
             deposit |-> 0, fee |-> 0, near |-> 0, lst |-> amount, trigger |-> "UserRequest"]
    BY DEF NewUnstake
  <2> HIDE DEF q
  <2>2. q \in Chain
    BY <1>5, <2>1 DEF Chain
  <2>3. ChainSound(q)
    BY <2>1 DEF ChainSound
  <2>4. PoolLst(q) = amount /\ InTransit(q) = 0 /\ InChain(q) = 0
    BY <2>1 DEF PoolLst, InTransit, InChain
  <2> QED BY <2>2, <2>3, <2>4, IdleIsNoChain
<1> HIDE DEF q
<1>7. lst' \in [Accounts -> Nat] /\ lst'["pool"] = lst["pool"] + amount
  BY <1>1, <1>3, <1>4, <1>5 DEF Typed
<1>8. Typed'
  BY <1>1, <1>2, <1>3, <1>7, StakePoolAssumption DEF Typed, statistics, ghostVars
<1>9. Balanced(s, q)
  <2>1. Deposited' = Deposited
    BY <1>1 DEF Deposited
  <2>2. /\ tracked' = tracked /\ staked' = staked /\ pending' = pending
        /\ surplus' = surplus /\ balance' = balance /\ returning' = returning
        /\ kept' = kept /\ stranded' = stranded
    BY <1>1 DEF statistics, ghostVars
  <2>3. PoolLst(chains[s]) = 0 /\ InTransit(chains[s]) = 0 /\ InChain(chains[s]) = 0
    BY <1>2, IdleParts
  <2> QED BY <1>3, <1>5, <1>6, <1>7, <2>1, <2>2, <2>3 DEF Typed, Balanced
<1> QED
  BY <1>2, <1>6, <1>8, <1>9, ChainStep DEF ChainOrIdle

(* What a sync returns is a record with these fields.                       *)
LEMMA SyncIsRecord ==
  ASSUME NEW attached
  PROVE  \E a, b, m, r, e :
           SyncRewards(attached) =
             [staked |-> a, tracked |-> b, minted |-> m, reward |-> r, epoch |-> e]
<1> DEFINE current == balance + attached - Excluded(attached)
           reward  == current - tracked
           fee     == split_protocol_fee(reward)
           S       == staked + (reward - fee)
           y1      == [staked |-> S + fee, tracked |-> current,
                       minted |-> near_to_lst(fee, S, total_supply),
                       reward |-> reward, epoch |-> epoch]
<1>1. SyncRewards(attached) = NothingSynced \/ SyncRewards(attached) = y1
  BY DEF SyncRewards
<1> QED
  BY <1>1 DEF NothingSynced

(* An unstake pays for LST that the holder has handed over: the pool for    *)
(* the tokens sent to it, a receiver for its refund.                        *)
LEMMA UnstakesStep ==
  ASSUME IInv, NEW s \in Slots, NEW holder \in Users \cup {"pool"}, NEW amount \in Nat,
         chains[s] \in Chain, chains[s].fee \in {0, StorageCost},
         amount <= lst[holder], Unstakes(s, holder, amount),
         PoolLst(chains[s]) = (IF holder = "pool" THEN amount ELSE 0),
         InTransit(chains[s]) = 0, InChain(chains[s]) = 0
  PROVE  IInv'
<1> DEFINE c    == chains[s]
           y    == SyncRewards(0)
           near == Pays(y, amount)
           q    == WithLst(c, "unstaking", amount, near)
<1>1. /\ near > 0 /\ near <= y.staked
      /\ SetLst(s, "unstaking", amount, near)
      /\ Commit([y EXCEPT !.staked = @ - near])
      /\ tracked' = y.tracked
      /\ lst' = [lst EXCEPT !["treasury"] = @ + y.minted, ![holder] = @ - amount]
      /\ UNCHANGED <<pending, protocol_fee_bps, registered, epoch, balance,
                     returning, started, kept, stranded>>
  BY DEF Unstakes, SetLst
<1>2. /\ y.reward \in Nat /\ y.minted \in Nat
      /\ y.staked = staked + y.reward /\ y.tracked = tracked + y.reward
      /\ y.epoch \in 0..MaxEpoch
      /\ surplus - y.reward \in Nat
      /\ returning <= (surplus - y.reward) + kept
  BY SyncIsEarned
<1>3. PICK a, b, m, r, e :
        y = [staked |-> a, tracked |-> b, minted |-> m, reward |-> r, epoch |-> e]
  BY SyncIsRecord
<1> HIDE DEF y
<1>4. Typed /\ total_supply \in Nat
  BY TypedAre, Supplies DEF IInv
<1>5. near \in Nat
  <2>1. y.staked \in Nat /\ Supply(y) \in Nat
    BY <1>2, <1>4 DEF Typed, Supply
  <2> QED BY <2>1, QuoteIsNat DEF Pays
<1> HIDE DEF near
<1>6. /\ staked' = y.staked - near /\ last_epoch_synced' = y.epoch
      /\ surplus' = surplus - y.reward
  BY <1>1, <1>3 DEF Commit
<1>7. chains' = [chains EXCEPT ![s] = q]
  BY <1>1, ChainChanged DEF IInv
<1>8. /\ q \in Chain /\ q # Idle /\ q.phase = "unstaking" /\ q.near = near
      /\ q.fee = c.fee
  <2>1. "unstaking" \in Phases
    BY DEF Phases
  <2> QED BY <1>5, <2>1, WithLstIs
<1> HIDE DEF q
<1>9. ChainSound(q) /\ PoolLst(q) = 0 /\ InTransit(q) = 0 /\ InChain(q) = near
  BY <1>1, <1>5, <1>8, PartsOf DEF ChainSound
<1>10. /\ holder \in Accounts /\ "pool" \in Accounts /\ "treasury" \in Accounts
       /\ holder # "treasury" /\ "pool" # "treasury"
  BY StakePoolAssumption DEF Accounts
<1>11. /\ lst' \in [Accounts -> Nat]
       /\ lst'["pool"] = lst["pool"] - (IF holder = "pool" THEN amount ELSE 0)
       /\ lst["pool"] \in Nat
  <2>1. /\ lst[holder] \in Nat /\ lst["pool"] \in Nat /\ lst["treasury"] \in Nat
        /\ lst[holder] - amount \in Nat /\ lst["treasury"] + y.minted \in Nat
    BY <1>2, <1>4, <1>10 DEF Typed
  <2>2. lst' \in [Accounts -> Nat]
    BY <1>1, <1>4, <1>10, <2>1 DEF Typed
  <2>3. lst'["pool"] = lst["pool"] - (IF holder = "pool" THEN amount ELSE 0)
    BY <1>1, <1>4, <1>10, <2>1 DEF Typed
  <2> QED BY <2>1, <2>2, <2>3
<1>12. Typed'
  <2>1. staked' \in Nat /\ tracked' \in Nat
    BY <1>1, <1>2, <1>4, <1>5, <1>6 DEF Typed
  <2> QED BY <1>1, <1>2, <1>4, <1>6, <1>11, <2>1 DEF Typed
<1>13. Balanced(s, q)
  <2>1. Deposited' = Deposited /\ Deposited \in Nat
    BY <1>1, <1>4, DepositedType DEF Deposited, Typed
  <2>2. /\ tracked' = tracked + y.reward /\ staked' = staked + y.reward - near
        /\ surplus' = surplus - y.reward /\ balance' = balance /\ returning' = returning
        /\ pending' = pending /\ kept' = kept /\ stranded' = stranded
    <3>1. y.staked \in Nat /\ y.tracked \in Nat /\ y.reward \in Nat /\ staked \in Nat
      BY <1>2, <1>4 DEF Typed
    <3>2. y.staked = staked + y.reward /\ y.tracked = tracked + y.reward
      BY <1>2
    <3>3. staked' = staked + y.reward - near
      BY <1>5, <1>6, <3>1, <3>2
    <3> QED BY <1>1, <1>6, <3>2, <3>3
  <2>3. lst'["pool"] + PoolLst(c) + stranded = lst["pool"] + PoolLst(q) + stranded'
    BY <1>4, <1>9, <1>11, <2>2 DEF Typed
  <2>4. (balance' + returning' + InTransit(q)) + (tracked + surplus)
          = (balance + returning + InTransit(c)) + (tracked' + surplus')
    BY <1>2, <1>4, <1>9, <2>2 DEF Typed
  <2>5. tracked' + (staked + pending + InChain(c) + kept + Deposited)
          = tracked + (staked' + pending' + InChain(q) + kept' + Deposited')
    BY <1>2, <1>4, <1>5, <1>9, <2>1, <2>2 DEF Typed
  <2> QED BY <2>3, <2>4, <2>5 DEF Balanced
<1> QED
  BY <1>7, <1>8, <1>9, <1>12, <1>13, ChainStep DEF ChainOrIdle

(* ft_on_transfer unstakes the LST that was sent, or leaves it for the      *)
(* resolver to return.                                                      *)
LEMMA OnUnstakeTransferStep ==
  ASSUME IInv, NEW s \in Slots, OnUnstakeTransfer(s)
  PROVE  IInv'
<1> DEFINE c == chains[s]
<1>1. c.phase = "sent"
  BY DEF OnUnstakeTransfer, At
<1>2. /\ c \in Chain /\ ChainSound(c) /\ c.lst \in Nat
      /\ PoolLst(c) = c.lst /\ InTransit(c) = 0 /\ InChain(c) = 0
  BY <1>1, InPhase, PartsOf
<1>3. Typed /\ lst["pool"] \in Nat
  BY TypedAre DEF Typed, Accounts
<1>4. CASE Unstakes(s, "pool", c.lst)
  <2>1. lst["pool"] >= PoolLst(c) + stranded
    BY Covered
  <2>2. c.lst <= lst["pool"]
    BY <1>2, <1>3, <2>1 DEF Typed
  <2>3. c.fee \in {0, StorageCost}
    BY <1>2 DEF ChainSound
  <2> QED BY <1>2, <1>4, <2>2, <2>3, UnstakesStep
<1>5. CASE /\ Continue(s, "resolving")
           /\ UNCHANGED <<statistics, token, epoch, balance, returning, ghostVars>>
  <2> DEFINE q == [chains[s] EXCEPT !.phase = "resolving"]
  <2>1. "resolving" \in Phases
    BY DEF Phases
  <2>2. /\ chains' = [chains EXCEPT ![s] = q] /\ started' = started
        /\ q \in Chain /\ q # Idle /\ q.phase = "resolving"
        /\ q.fee = c.fee /\ q.near = c.near /\ q.lst = c.lst
    BY <1>2, <1>5, <2>1, Continues
  <2> HIDE DEF q
  <2>3. ChainSound(q)
    BY <1>2, <2>2 DEF ChainSound
  <2>4. PoolLst(q) = PoolLst(c) /\ InTransit(q) = InTransit(c) /\ InChain(q) = InChain(c)
    BY <1>2, <2>2, PartsOf
  <2>5. Typed'
    BY <1>3, <1>5, <2>2 DEF Typed, statistics, token, ghostVars
  <2>6. Balanced(s, q)
    BY <1>5, <2>4 DEF Balanced, Deposited, statistics, token, ghostVars
  <2> QED BY <2>2, <2>3, <2>5, <2>6, ChainStep DEF ChainOrIdle
<1> QED
  BY <1>4, <1>5 DEF OnUnstakeTransfer

(* on_ft_on_transfer unstakes what the receiver gave back, or ends the      *)
(* chain.                                                                   *)
LEMMA OnFtOnTransferStep ==
  ASSUME IInv, NEW s \in Slots, OnFtOnTransfer(s)
  PROVE  IInv'
<1> DEFINE c == chains[s]
<1>1. c.phase = "notified"
  BY DEF OnFtOnTransfer, At
<1>2. /\ c \in Chain /\ ChainSound(c) /\ c.lst \in Nat /\ c.user \in Users
      /\ PoolLst(c) = 0 /\ InTransit(c) = 0 /\ InChain(c) = 0
  BY <1>1, InPhase, PartsOf
<1>3. Typed
  BY TypedAre
<1>4. ASSUME NEW refund \in 1..c.lst, refund <= lst[c.user], Unstakes(s, c.user, refund)
      PROVE  IInv'
  <2>1. refund \in Nat /\ c.user \in Users \cup {"pool"} /\ c.user # "pool"
    BY <1>2, <1>4, StakePoolAssumption
  <2>2. c.fee \in {0, StorageCost}
    BY <1>2 DEF ChainSound
  <2> QED BY <1>2, <1>4, <2>1, <2>2, UnstakesStep
<1>5. CASE /\ End(s)
           /\ UNCHANGED <<statistics, token, epoch, balance, returning, ghostVars>>
  <2>1. chains' = [chains EXCEPT ![s] = Idle] /\ started' = started
    BY <1>5 DEF End
  <2>2. Typed'
    BY <1>3, <1>5, <2>1 DEF Typed, statistics, token, ghostVars
  <2>3. Balanced(s, Idle)
    BY <1>2, <1>5, IdleParts DEF Balanced, Deposited, statistics, token, ghostVars
  <2> QED BY <2>1, <2>2, <2>3, ChainStep DEF ChainOrIdle
<1> QED
  BY <1>4, <1>5 DEF OnFtOnTransfer

(* After a successful restake the NEAR of the chain becomes a pending       *)
(* withdrawal.                                                              *)
LEMMA OnUnstakeOkStep ==
  ASSUME IInv, NEW s \in Slots, OnUnstakeOk(s)
  PROVE  IInv'
<1> DEFINE c == chains[s]
<1>1. /\ c.phase = "unstaking" /\ pending' = pending + c.near
      /\ UNCHANGED <<staked, tracked, last_epoch_synced, protocol_fee_bps, token,
                     epoch, balance, returning, ghostVars>>
  BY DEF OnUnstakeOk, At
<1>2. chains' = [chains EXCEPT ![s] = Idle] /\ started' = started
  BY DEF OnUnstakeOk, End
<1>3. /\ c \in Chain /\ c.near \in Nat
      /\ PoolLst(c) = 0 /\ InTransit(c) = 0 /\ InChain(c) = c.near
  BY <1>1, InPhase, PartsOf
<1>4. Typed
  BY TypedAre
<1>5. Typed'
  BY <1>1, <1>2, <1>3, <1>4 DEF Typed, token, ghostVars
<1>6. Balanced(s, Idle)
  <2>1. lst' = lst /\ Deposited' = Deposited /\ Deposited \in Nat /\ lst["pool"] \in Nat
    BY <1>1, <1>4, DepositedType DEF Deposited, token, Typed, Accounts
  <2>2. /\ tracked' = tracked /\ staked' = staked
        /\ surplus' = surplus /\ balance' = balance /\ returning' = returning
        /\ kept' = kept /\ stranded' = stranded
    BY <1>1 DEF ghostVars
  <2> HIDE DEF c
  <2> QED BY <1>1, <1>3, <1>4, <2>1, <2>2, IdleParts DEF c, Typed, Balanced
<1> QED
  BY <1>2, <1>5, <1>6, ChainStep DEF ChainOrIdle

(* After a failed restake the NEAR is stake again, and the LST is minted    *)
(* back to the pool's account.                                              *)
LEMMA OnUnstakeFailedStep ==
  ASSUME IInv, NEW s \in Slots, OnUnstakeFailed(s)
  PROVE  IInv'
<1> DEFINE c == chains[s]
<1>1. /\ c.phase = "unstaking" /\ staked' = staked + c.near
      /\ lst' = [lst EXCEPT !["pool"] = @ + c.lst]
      /\ UNCHANGED <<tracked, pending, last_epoch_synced, protocol_fee_bps,
                     registered, epoch, balance, returning, surplus, kept>>
  BY DEF OnUnstakeFailed, At
<1>2. /\ c \in Chain /\ ChainSound(c) /\ c.near \in Nat /\ c.lst \in Nat
      /\ PoolLst(c) = 0 /\ InTransit(c) = 0 /\ InChain(c) = c.near
  BY <1>1, InPhase, PartsOf
<1>3. Typed /\ lst["pool"] \in Nat
  BY TypedAre DEF Typed, Accounts
<1>4. PICK q \in ChainOrIdle :
        /\ q # Idle => ChainSound(q)
        /\ chains' = [chains EXCEPT ![s] = q] /\ started' = started
        /\ InTransit(q) = 0 /\ InChain(q) = 0
        /\ stranded' + PoolLst(q) = stranded + c.lst /\ stranded' \in Nat
        /\ PoolLst(q) \in Nat
  <2>1. CASE Continue(s, "resolving") /\ UNCHANGED stranded
    <3> DEFINE q == [chains[s] EXCEPT !.phase = "resolving"]
    <3>1. "resolving" \in Phases
      BY DEF Phases
    <3>2. /\ chains' = [chains EXCEPT ![s] = q] /\ started' = started
          /\ q \in Chain /\ q # Idle /\ q.phase = "resolving"
          /\ q.fee = c.fee /\ q.near = c.near /\ q.lst = c.lst
      BY <1>2, <2>1, <3>1, Continues
    <3> HIDE DEF q
    <3>3. ChainSound(q)
      BY <1>2, <3>2 DEF ChainSound
    <3>4. PoolLst(q) = c.lst /\ InTransit(q) = 0 /\ InChain(q) = 0
      BY <3>2, PartsOf
    <3>5. stranded' + PoolLst(q) = stranded + c.lst /\ stranded' \in Nat
      BY <1>3, <2>1, <3>4 DEF Typed
    <3> QED BY <1>2, <3>2, <3>3, <3>4, <3>5 DEF ChainOrIdle
  <2>2. CASE End(s) /\ stranded' = stranded + c.lst
    <3>1. stranded' + PoolLst(Idle) = stranded + c.lst /\ stranded' \in Nat
      BY <1>2, <1>3, <2>2, IdleParts DEF Typed
    <3>2. /\ Idle \in ChainOrIdle /\ PoolLst(Idle) = 0
          /\ InTransit(Idle) = 0 /\ InChain(Idle) = 0 /\ PoolLst(Idle) \in Nat
      BY IdleParts DEF ChainOrIdle
    <3>3. chains' = [chains EXCEPT ![s] = Idle] /\ started' = started
      BY <2>2 DEF End
    <3> HIDE DEF c
    <3> QED BY <3>1, <3>2, <3>3
  <2> QED BY <2>1, <2>2 DEF OnUnstakeFailed
<1>5. lst' \in [Accounts -> Nat] /\ lst'["pool"] = lst["pool"] + c.lst
  BY <1>1, <1>2, <1>3 DEF Typed, Accounts
<1>6. Typed'
  BY <1>1, <1>2, <1>3, <1>4, <1>5 DEF Typed
<1>7. Balanced(s, q)
  <2>1. Deposited' = Deposited /\ Deposited \in Nat
    BY <1>1, <1>3, DepositedType DEF Deposited, Typed
  <2> HIDE DEF c
  <2>2. lst'["pool"] + PoolLst(c) + stranded = lst["pool"] + PoolLst(q) + stranded'
    BY <1>2, <1>3, <1>4, <1>5 DEF Typed
  <2>3. (balance' + returning' + InTransit(q)) + (tracked + surplus)
          = (balance + returning + InTransit(c)) + (tracked' + surplus')
    BY <1>1, <1>2, <1>3, <1>4 DEF Typed
  <2>4. tracked' + (staked + pending + InChain(c) + kept + Deposited)
          = tracked + (staked' + pending' + InChain(q) + kept' + Deposited')
    BY <1>1, <1>2, <1>3, <1>4, <2>1 DEF Typed
  <2> QED BY <2>2, <2>3, <2>4 DEF c, Balanced
<1> QED
  BY <1>4, <1>6, <1>7, ChainStep

(* ft_resolve_transfer gives the LST back to its sender, or burns it.       *)
LEMMA ResolveTransferStep ==
  ASSUME IInv, NEW s \in Slots, ResolveTransfer(s)
  PROVE  IInv'
<1> DEFINE c == chains[s]
<1>1. /\ c.phase = "resolving" /\ c.lst <= lst["pool"]
      /\ UNCHANGED <<statistics, registered, epoch, balance, returning, ghostVars>>
  BY DEF ResolveTransfer, At
<1>2. chains' = [chains EXCEPT ![s] = Idle] /\ started' = started
  BY DEF ResolveTransfer, End
<1>3. /\ c \in Chain /\ c.lst \in Nat /\ c.user \in Users
      /\ PoolLst(c) = c.lst /\ InTransit(c) = 0 /\ InChain(c) = 0
  BY <1>1, InPhase, PartsOf
<1>4. c.user # "pool" /\ c.user \in Accounts /\ "pool" \in Accounts
  BY <1>3, StakePoolAssumption DEF Accounts
<1>5. Typed /\ lst["pool"] \in Nat /\ lst[c.user] \in Nat /\ lst["pool"] - c.lst \in Nat
  BY <1>1, <1>3, <1>4, TypedAre DEF Typed
<1>6. lst' \in [Accounts -> Nat] /\ lst'["pool"] = lst["pool"] - c.lst
  <2>1. CASE lst' = [lst EXCEPT !["pool"] = @ - c.lst, ![c.user] = @ + c.lst]
    <3>1. lst' \in [Accounts -> Nat]
      BY <1>3, <1>4, <1>5, <2>1 DEF Typed
    <3>2. lst'["pool"] = lst["pool"] - c.lst
      BY <1>4, <1>5, <2>1 DEF Typed
    <3> QED BY <3>1, <3>2
  <2>2. CASE lst' = [lst EXCEPT !["pool"] = @ - c.lst]
    BY <1>4, <1>5, <2>2 DEF Typed
  <2> QED BY <2>1, <2>2 DEF ResolveTransfer
<1>7. Typed'
  BY <1>1, <1>2, <1>5, <1>6 DEF Typed, statistics, ghostVars
<1>8. Balanced(s, Idle)
  <2>1. Deposited' = Deposited
    BY <1>1 DEF Deposited
  <2>2. /\ tracked' = tracked /\ staked' = staked /\ pending' = pending
        /\ surplus' = surplus /\ balance' = balance /\ returning' = returning
        /\ kept' = kept /\ stranded' = stranded
    BY <1>1 DEF statistics, ghostVars
  <2> HIDE DEF c
  <2> QED BY <1>3, <1>5, <1>6, <2>1, <2>2, IdleParts DEF c, Typed, Balanced
<1> QED
  BY <1>2, <1>7, <1>8, ChainStep DEF ChainOrIdle

(* A step that starts, continues and ends no chain.                         *)
BalancedAlone ==
  /\ lst'["pool"] = lst["pool"] /\ stranded' = stranded
  /\ (balance' + returning') + (tracked + surplus)
       = (balance + returning) + (tracked' + surplus')
  /\ tracked' + (staked + pending + kept + Deposited)
       = tracked + (staked' + pending' + kept' + Deposited')

(* A step outside every chain keeps the invariant if it keeps the ledgers   *)
(* balanced.                                                                *)
LEMMA OtherStep ==
  ASSUME IInv, UNCHANGED chains, Typed', BalancedAlone
  PROVE  IInv'
<1>1. /\ LstInFlight' = LstInFlight /\ NearInTransit' = NearInTransit
      /\ NearInChains' = NearInChains /\ ChainsSound'
  BY DEF IInv, LstInFlight, NearInTransit, NearInChains, SumOver, ChainsSound, Active
<1>2. LstInFlight \in Nat /\ NearInTransit \in Nat /\ NearInChains \in Nat
  BY SumsAreNat DEF IInv, LstInFlight, NearInTransit, NearInChains
<1>3. TypeOK'
  BY DEF Typed, TypeOK, IInv
<1>4. OnlyEarnedIsRecognised' /\ ReturnsAreCounted'
  <2>1. surplus' \in Nat /\ returning' <= surplus' + kept'
    BY DEF Typed
  <2>2. surplus' >= 0
    BY <2>1
  <2> QED BY <2>1, <2>2 DEF OnlyEarnedIsRecognised, ReturnsAreCounted
<1>5. /\ lst["pool"] = LstInFlight + stranded
      /\ balance + returning + NearInTransit = tracked + surplus
      /\ tracked = staked + pending + NearInChains + Reserve + kept + Deposited
  BY LedgersAre DEF IInv
<1>6. Deposited \in Nat /\ Deposited' \in Nat
  BY DepositedType, StakePoolAssumption, FS_Subset, FS_CardinalityType, ProductIsNat
     DEF IInv, TypeOK, Typed, Deposited
<1>7. /\ staked \in Nat /\ tracked \in Nat /\ pending \in Nat /\ Reserve \in Nat
      /\ kept \in Nat /\ balance \in Nat /\ returning \in Nat /\ surplus \in Int
  BY StakePoolAssumption DEF IInv, TypeOK
<1>8. /\ staked' \in Nat /\ tracked' \in Nat /\ pending' \in Nat
      /\ kept' \in Nat /\ balance' \in Nat /\ returning' \in Nat /\ surplus' \in Int
  BY DEF Typed
<1>9. lst'["pool"] = LstInFlight' + stranded'
  BY <1>1, <1>5 DEF BalancedAlone
<1>10. balance' + returning' + NearInTransit' = tracked' + surplus'
  <2>1. (balance' + returning') + (tracked + surplus)
          = (balance + returning) + (tracked' + surplus')
    BY DEF BalancedAlone
  <2>2. /\ NearInTransit' = NearInTransit /\ NearInTransit \in Nat
        /\ balance + returning + NearInTransit = tracked + surplus
    BY <1>1, <1>2, <1>5
  <2> QED BY <1>7, <1>8, <2>1, <2>2
<1>11. tracked' = staked' + pending' + NearInChains' + Reserve + kept' + Deposited'
  <2>1. tracked' + (staked + pending + kept + Deposited)
          = tracked + (staked' + pending' + kept' + Deposited')
    BY DEF BalancedAlone
  <2>2. /\ NearInChains' = NearInChains /\ NearInChains \in Nat
        /\ tracked = staked + pending + NearInChains + Reserve + kept + Deposited
    BY <1>1, <1>2, <1>5
  <2>3. PICK p \in Nat, q \in Nat, r \in Nat, k \in Nat, d \in Nat :
          /\ p = staked' /\ q = pending' /\ r = tracked' /\ k = kept' /\ d = Deposited'
    BY <1>6, <1>8
  <2>4. r + (staked + pending + kept + Deposited) = tracked + (p + q + k + d)
    BY <2>1, <2>3
  <2>5. PICK p0 \in Nat, q0 \in Nat, r0 \in Nat, k0 \in Nat, d0 \in Nat, n \in Nat :
          /\ p0 = staked /\ q0 = pending /\ r0 = tracked /\ k0 = kept /\ d0 = Deposited
          /\ n = NearInChains
    BY <1>6, <1>7, <2>2
  <2>6. r + (p0 + q0 + k0 + d0) = r0 + (p + q + k + d)
    BY <2>4, <2>5
  <2>7. r0 = p0 + q0 + n + Reserve + k0 + d0 /\ Reserve \in Nat
    BY <1>7, <2>2, <2>5
  <2>8. r = p + q + n + Reserve + k + d
    BY <2>6, <2>7
  <2> QED BY <2>2, <2>3, <2>5, <2>8
<1>12. /\ PoolLstIsInFlight' <=> lst'["pool"] = LstInFlight' + stranded'
       /\ TrackerLedger' <=> balance' + returning' + NearInTransit' = tracked' + surplus'
       /\ Solvency' <=>
            tracked' = staked' + pending' + NearInChains' + Reserve + kept' + Deposited'
  BY DEF PoolLstIsInFlight, TrackerLedger, Solvency, LstInFlight, NearInTransit,
         NearInChains, Deposited
<1> QED
  BY <1>1, <1>3, <1>4, <1>9, <1>10, <1>11, <1>12 DEF IInv

(* storage_deposit: its cost enters the account and the tracked total       *)
(* together.                                                                *)
LEMMA RegisterStep ==
  ASSUME IInv, NEW u \in Users, Register(u)
  PROVE  IInv'
<1>1. /\ u \notin registered /\ registered' = registered \cup {u}
      /\ tracked' = tracked + StorageCost /\ balance' = balance + StorageCost
      /\ UNCHANGED <<staked, pending, last_epoch_synced, protocol_fee_bps, lst,
                     epoch, returning, chains, started, ghostVars>>
  BY DEF Register
<1>2. Typed /\ StorageCost \in Nat
  BY TypedAre, StakePoolAssumption
<1>3. Deposited' = Deposited + StorageCost /\ Deposited \in Nat
  <2>1. Deposited' = StorageCost * Cardinality(registered \cup {u})
    BY <1>1 DEF Deposited
  <2> QED BY <1>1, <2>1, DepositsMove DEF IInv
<1>4. Typed'
  BY <1>1, <1>2 DEF Typed, ghostVars
<1>5. /\ (balance' + returning') + (tracked + surplus)
           = (balance + returning) + (tracked' + surplus')
      /\ tracked' + (staked + pending + kept + Deposited)
           = tracked + (staked' + pending' + kept' + Deposited')
  BY <1>1, <1>2, <1>3 DEF Typed, ghostVars
<1> QED
  BY <1>1, <1>4, <1>5, OtherStep DEF BalancedAlone, ghostVars

(* storage_unregister gives the cost back and burns what LST is left.       *)
LEMMA UnregisterStep ==
  ASSUME IInv, NEW u \in Users, Unregister(u)
  PROVE  IInv'
<1>1. /\ u \in registered /\ registered' = registered \ {u}
      /\ lst' = [lst EXCEPT ![u] = 0]
      /\ tracked' = tracked - StorageCost /\ balance' = balance - StorageCost
      /\ UNCHANGED <<staked, pending, last_epoch_synced, protocol_fee_bps, epoch,
                     returning, chains, started, ghostVars>>
  BY DEF Unregister
<1>2. Typed /\ StorageCost \in Nat /\ Reserve \in Nat
  BY TypedAre, StakePoolAssumption
<1>3. Deposited' = Deposited - StorageCost /\ Deposited \in Nat /\ Deposited >= StorageCost
  <2>1. Deposited' = StorageCost * Cardinality(registered \ {u})
    BY <1>1 DEF Deposited
  <2> QED BY <1>1, <2>1, DepositsMove DEF IInv
<1>4. tracked >= StorageCost /\ balance >= StorageCost
  <2>1. /\ balance + returning + NearInTransit = tracked + surplus
        /\ tracked = staked + pending + NearInChains + Reserve + kept + Deposited
        /\ NearInTransit \in Nat /\ NearInChains \in Nat
    BY LedgersAre, SumsAreNat DEF IInv, NearInTransit, NearInChains
  <2>2. NearInTransit <= NearInChains
    BY TransitIsInChains
  <2> QED BY <1>2, <1>3, <2>1, <2>2 DEF Typed
<1>5. lst' \in [Accounts -> Nat] /\ lst'["pool"] = lst["pool"]
  BY <1>1, <1>2, StakePoolAssumption DEF Typed, Accounts
<1>6. Typed'
  <2>1. tracked' \in Nat /\ balance' \in Nat
    BY <1>1, <1>2, <1>4 DEF Typed
  <2> QED BY <1>1, <1>2, <1>5, <2>1 DEF Typed, ghostVars
<1>7. /\ (balance' + returning') + (tracked + surplus)
           = (balance + returning) + (tracked' + surplus')
      /\ tracked' + (staked + pending + kept + Deposited)
           = tracked + (staked' + pending' + kept' + Deposited')
  BY <1>1, <1>2, <1>3 DEF Typed, ghostVars
<1> QED
  BY <1>1, <1>5, <1>6, <1>7, OtherStep DEF BalancedAlone, ghostVars

(* ping and set_protocol_fee_bps recognise what the account has earned.     *)
LEMMA SyncStep ==
  ASSUME IInv, NEW bps \in Fees, Sync(bps)
  PROVE  IInv'
<1> DEFINE y == SyncRewards(0)
<1>1. /\ Commit(y) /\ tracked' = y.tracked
      /\ lst' = [lst EXCEPT !["treasury"] = @ + y.minted]
      /\ protocol_fee_bps' = bps
      /\ UNCHANGED <<pending, registered, epoch, balance, returning, chains,
                     started, kept, stranded>>
  BY DEF Sync
<1>2. /\ y.reward \in Nat /\ y.minted \in Nat
      /\ y.staked = staked + y.reward /\ y.tracked = tracked + y.reward
      /\ y.epoch \in 0..MaxEpoch
      /\ surplus - y.reward \in Nat
      /\ returning <= (surplus - y.reward) + kept
  BY SyncIsEarned
<1> HIDE DEF y
<1>3. /\ tracked' = tracked + y.reward /\ staked' = staked + y.reward
      /\ surplus' = surplus - y.reward /\ last_epoch_synced' = y.epoch
  BY <1>1, <1>2 DEF Commit
<1>4. Typed
  BY TypedAre
<1>5. lst' \in [Accounts -> Nat] /\ lst'["pool"] = lst["pool"]
  BY <1>1, <1>2, <1>4, StakePoolAssumption DEF Typed, Accounts
<1>6. Typed'
  BY <1>1, <1>2, <1>3, <1>4, <1>5 DEF Typed
<1>7. Deposited' = Deposited /\ Deposited \in Nat
  BY <1>1, <1>4, DepositedType DEF Deposited, Typed
<1>8. /\ (balance' + returning') + (tracked + surplus)
           = (balance + returning) + (tracked' + surplus')
      /\ tracked' + (staked + pending + kept + Deposited)
           = tracked + (staked' + pending' + kept' + Deposited')
  BY <1>1, <1>2, <1>3, <1>4, <1>7 DEF Typed
<1> QED
  BY <1>1, <1>5, <1>6, <1>8, OtherStep DEF BalancedAlone

(* NEAR that arrives from elsewhere, an epoch that passes, a stutter.       *)
LEMMA EnvironmentStep ==
  ASSUME IInv, ReturnArrives \/ NextEpoch \/ UNCHANGED vars
  PROVE  IInv'
<1>1. Typed
  BY TypedAre
<1>2. Deposited' = Deposited /\ Deposited \in Nat
  BY <1>1, DepositedType DEF Deposited, Typed, ReturnArrives, NextEpoch, vars, token
<1>3. CASE ReturnArrives
  <2>1. PICK n \in 1..returning : returning' = returning - n /\ balance' = balance + n
    BY <1>3 DEF ReturnArrives
  <2>2. UNCHANGED <<statistics, token, epoch, chains, started, ghostVars>>
    BY <1>3 DEF ReturnArrives
  <2>3. returning' \in Nat /\ balance' \in Nat /\ returning' <= surplus + kept
    BY <1>1, <2>1 DEF Typed
  <2>4. Typed'
    BY <1>1, <2>2, <2>3 DEF Typed, statistics, token, ghostVars
  <2>5. /\ (balance' + returning') + (tracked + surplus)
             = (balance + returning) + (tracked' + surplus')
        /\ tracked' + (staked + pending + kept + Deposited)
             = tracked + (staked' + pending' + kept' + Deposited')
    BY <1>1, <1>2, <2>1, <2>2 DEF Typed, statistics, ghostVars
  <2> QED BY <2>2, <2>4, <2>5, OtherStep DEF BalancedAlone, token, ghostVars
<1>4. CASE NextEpoch
  <2>1. PICK r \in Rewards : balance' = balance + r /\ surplus' = surplus + r
    BY <1>4 DEF NextEpoch
  <2>2. /\ epoch < MaxEpoch /\ epoch' = epoch + 1
        /\ UNCHANGED <<statistics, token, returning, chains, started, kept, stranded>>
    BY <1>4 DEF NextEpoch
  <2>3. r \in Nat /\ MaxEpoch \in Nat
    BY StakePoolAssumption
  <2>4. Typed'
    BY <1>1, <2>1, <2>2, <2>3 DEF Typed, statistics, token
  <2>5. /\ (balance' + returning') + (tracked + surplus)
             = (balance + returning) + (tracked' + surplus')
        /\ tracked' + (staked + pending + kept + Deposited)
             = tracked + (staked' + pending' + kept' + Deposited')
    BY <1>1, <1>2, <2>1, <2>2, <2>3 DEF Typed, statistics
  <2> QED BY <2>2, <2>4, <2>5, OtherStep DEF BalancedAlone, token
<1>5. CASE UNCHANGED vars
  <2>1. Typed'
    BY <1>1, <1>5 DEF Typed, vars, statistics, token, ghostVars
  <2> QED
    BY <1>2, <1>5, <2>1, OtherStep DEF BalancedAlone, vars, statistics, token, ghostVars
<1> QED
  BY <1>3, <1>4, <1>5

(* Every step of the pool keeps the invariant.                              *)
LEMMA NextIInv ==
  IInv /\ [Next]_vars => IInv'
<1> SUFFICES ASSUME IInv, [Next]_vars
             PROVE  IInv'
  OBVIOUS
<1>1. ASSUME NEW s \in Slots, Begin(s)
      PROVE  IInv'
  <2>1. PICK u \in Users :
          \/ \E m \in Messages, d \in Deposits :
               StakeNative(s, u, m, d) \/ StakeWnear(s, u, m, d)
          \/ \E amount \in 1..lst[u] : SendUnstake(s, u, amount)
    BY <1>1 DEF Begin
  <2> QED BY <2>1, StakeNativeStep, StakeWnearStep, SendUnstakeStep
<1>2. ASSUME NEW s \in Slots, Receipt(s)
      PROVE  IInv'
  BY <1>2, UnwrapArrivesStep, UnwrapFailsStep, OnNearWithdrawStep, BatchSucceedsStep,
     BatchFailsStep, RestakeOrRefundStep, OnRestakeOkStep, OnRestakeFailedStep,
     RewrapStep, OnFtOnTransferStep, OnUnstakeTransferStep, OnUnstakeOkStep,
     OnUnstakeFailedStep, ResolveTransferStep DEF Receipt
<1>3. ASSUME NEW u \in Users, Register(u) \/ Unregister(u)
      PROVE  IInv'
  BY <1>3, RegisterStep, UnregisterStep
<1>4. ASSUME Ping \/ SetProtocolFee
      PROVE  IInv'
  <2>1. protocol_fee_bps \in Fees
    BY DEF IInv, TypeOK
  <2> QED BY <1>4, <2>1, SyncStep DEF Ping, SetProtocolFee
<1>5. ASSUME ReturnArrives \/ NextEpoch \/ UNCHANGED vars
      PROVE  IInv'
  BY <1>5, EnvironmentStep
<1> QED
  BY <1>1, <1>2, <1>3, <1>4, <1>5 DEF Next

(* The ledgers of the stake pool agree after every receipt, whatever the    *)
(* order in which the receipts of stakes and unstakes in flight, reward     *)
(* syncs and registrations arrive.                                          *)
THEOREM Invariance ==
  Spec => []IInv
BY InitIInv, NextIInv, PTL DEF Spec

(* The totals, the account's NEAR and every LST balance stay natural        *)
(* numbers: no rollback, refund or burn of stake.rs and unstake.rs takes    *)
(* more than there is, and rollback_state_after_stake panics rather than    *)
(* book one that no longer fits.                                            *)
THEOREM TypeCorrect ==
  Spec => []TypeOK
<1>1. IInv => TypeOK
  BY DEF IInv
<1> QED
  BY <1>1, Invariance, PTL

(* The pool's own LST account holds exactly the LST of the stakes and       *)
(* unstakes in flight and what ended ones have left: on_restake_or_refund,  *)
(* handle_unstaking and ft_resolve_transfer never burn or deliver the LST   *)
(* of another chain.                                                        *)
THEOREM PoolLstIsChains ==
  Spec => []PoolLstIsInFlight
<1>1. IInv => PoolLstIsInFlight
  BY DEF IInv
<1> QED
  BY <1>1, Invariance, PTL

(* latest_total_balance differs from the NEAR on the account by exactly     *)
(* what is in transit and what is still to be recognised, at every receipt: *)
(* no path of a stake or a refund books a deposit twice or forgets it.      *)
THEOREM TrackerIsExact ==
  Spec => []TrackerLedger
<1>1. IInv => TrackerLedger
  BY DEF IInv
<1> QED
  BY <1>1, Invariance, PTL

(* latest_total_balance is always the stake behind the LST, the pending     *)
(* withdrawals, the NEAR of stakes and unstakes in flight, the storage      *)
(* deposits and the reserve, with nothing missing.                          *)
THEOREM PoolIsSolvent ==
  Spec => []Solvency
<1>1. IInv => Solvency
  BY DEF IInv
<1> QED
  BY <1>1, Invariance, PTL

(* sync_rewards_internal never takes a deposit in flight for a reward: what *)
(* all syncs have recognised was earned or forfeited.                       *)
THEOREM SyncsAreEarned ==
  Spec => []OnlyEarnedIsRecognised
<1>1. IInv => OnlyEarnedIsRecognised
  BY DEF IInv
<1> QED
  BY <1>1, Invariance, PTL

-----------------------------------------------------------------------------
(* The rate never falls.                                                    *)

(* S NEAR behind Q LST is no better a rate than T NEAR behind R LST.        *)
NoWorse(S, Q, T, R) == T * Q >= S * R

(* Multiplication by a natural is monotone.                                 *)
LEMMA LargerFactor ==
  ASSUME NEW S \in Nat, NEW R \in Nat, NEW Q \in Nat, R <= Q
  PROVE  S * R <= S * Q /\ R * S <= Q * S
<1>1. PICK k \in Nat : Q = R + k
  <2>1. Q - R \in Nat /\ Q = R + (Q - R)
    OBVIOUS
  <2> QED BY <2>1
<1>2. S * Q = S * R + S * k /\ S * k \in Nat /\ S * R \in Nat
  BY <1>1
<1>3. S * R = R * S /\ S * Q = Q * S
  OBVIOUS
<1> QED
  BY <1>2, <1>3

(* A positive factor cancels in an inequality.                              *)
LEMMA CancelFactor ==
  ASSUME NEW x \in Nat, NEW y \in Nat, NEW q \in Nat, q > 0, x * q >= y * q
  PROVE  x >= y
<1> SUFFICES ASSUME x < y PROVE FALSE
  OBVIOUS
<1>1. PICK k \in Nat : y = x + 1 + k
  <2>1. y - x - 1 \in Nat /\ y = x + 1 + (y - x - 1)
    OBVIOUS
  <2> QED BY <2>1
<1>2. y * q = x * q + q + k * q
  BY <1>1
<1>3. k * q \in Nat /\ x * q \in Nat
  OBVIOUS
<1> QED
  BY <1>2, <1>3

(* A rate that is no worse than one that is no worse is no worse.           *)
LEMMA RatesCompose ==
  ASSUME NEW S0 \in Nat, NEW Q0 \in Nat, NEW S1 \in Nat, NEW Q1 \in Nat,
         NEW S2 \in Nat, NEW Q2 \in Nat, Q1 > 0,
         NoWorse(S0, Q0, S1, Q1), NoWorse(S1, Q1, S2, Q2)
  PROVE  NoWorse(S0, Q0, S2, Q2)
<1>1. PICK a \in Nat, b \in Nat, c \in Nat, d \in Nat, e \in Nat, f \in Nat :
        /\ a = S1 * Q0 /\ b = S0 * Q1 /\ c = S2 * Q1 /\ d = S1 * Q2
        /\ e = S2 * Q0 /\ f = S0 * Q2
  BY ProductIsNat
<1>2. a >= b /\ c >= d
  BY <1>1 DEF NoWorse
<1>3. d * Q0 <= c * Q0 /\ b * Q2 <= a * Q2
  BY <1>2, LargerFactor
<1>4. e * Q1 = c * Q0 /\ d * Q0 = a * Q2 /\ b * Q2 = f * Q1
  <2>1. (S2 * Q0) * Q1 = (S2 * Q1) * Q0
    OBVIOUS
  <2>2. (S1 * Q2) * Q0 = (S1 * Q0) * Q2
    OBVIOUS
  <2>3. (S0 * Q1) * Q2 = (S0 * Q2) * Q1
    OBVIOUS
  <2> QED BY <1>1, <2>1, <2>2, <2>3
<1>5. e * Q1 \in Nat /\ f * Q1 \in Nat /\ a * Q2 \in Nat
  BY ProductIsNat
<1>6. e * Q1 >= f * Q1
  BY <1>3, <1>4, <1>5
<1>7. e >= f
  BY <1>6, CancelFactor
<1> QED
  BY <1>1, <1>7 DEF NoWorse

(* Fewer LST share the same NEAR.                                           *)
LEMMA BurnsAreFair ==
  ASSUME NEW S \in Nat, NEW Q \in Nat, NEW R \in Nat, R <= Q
  PROVE  NoWorse(S, Q, S, R)
BY LargerFactor DEF NoWorse

(* The fee is minted at the lifted rate, and the floor favours the others.  *)
LEMMA FeesAreFair ==
  ASSUME NEW S \in Nat, NEW Q \in Nat, Q > 0, NEW reward \in Nat, NEW fee \in Nat,
         fee <= reward, NEW T \in Nat, T = S + (reward - fee)
  PROVE  NoWorse(S, Q, T + fee, Q + near_to_lst(fee, T, Q))
<1>1. PICK m \in Nat : m = near_to_lst(fee, T, Q)
  BY QuoteIsNat
<1>2. S <= T
  OBVIOUS
<1>3. T * m <= fee * Q
  <2>1. CASE T = 0
    BY <2>1, ProductIsNat
  <2>2. CASE T # 0
    <3>1. m = (fee * Q) \div T
      BY <1>1, <2>2 DEF near_to_lst
    <3>2. fee * Q \in Nat
      BY ProductIsNat
    <3> QED BY <2>2, <3>1, <3>2, Floored
  <2> QED BY <2>1, <2>2
<1>4. S * m <= T * m /\ S * Q <= T * Q
  BY <1>2, LargerFactor
<1>5. (T + fee) * Q = T * Q + fee * Q /\ S * (Q + m) = S * Q + S * m
  OBVIOUS
<1>6. S * m \in Nat /\ T * m \in Nat /\ S * Q \in Nat /\ T * Q \in Nat /\ fee * Q \in Nat
  BY ProductIsNat
<1>7. S * (Q + m) <= (T + fee) * Q
  BY <1>3, <1>4, <1>5, <1>6
<1> QED
  BY <1>1, <1>7 DEF NoWorse

(* The payout of an unstake is floored in favour of the LST that stay.      *)
LEMMA PayoutsAreFair ==
  ASSUME NEW S \in Nat, NEW Q \in Nat, Q > 0, NEW amount \in Nat, amount <= Q,
         NEW near \in Nat, near = lst_to_near(amount, S, Q), near <= S
  PROVE  NoWorse(S, Q, S - near, Q - amount)
<1>1. near = (amount * S) \div Q
  BY DEF lst_to_near
<1>2. Q * near <= amount * S
  BY <1>1, Floored, ProductIsNat
<1>3. (S - near) * Q = S * Q - Q * near /\ S * (Q - amount) = S * Q - amount * S
  OBVIOUS
<1>4. Q * near \in Nat /\ amount * S \in Nat /\ S * Q \in Nat
  BY ProductIsNat
<1>5. S * (Q - amount) <= (S - near) * Q
  BY <1>2, <1>3, <1>4
<1> QED
  BY <1>5 DEF NoWorse

(* What the updates of the LST balances do to their sum.                    *)
Plus(f, a, n)        == [f EXCEPT ![a] = @ + n]
Minus(f, a, n)       == [f EXCEPT ![a] = @ - n]
Transfer(f, a, b, n) == [f EXCEPT ![a] = @ - n, ![b] = @ + n]
Zeroed(f, a)         == [f EXCEPT ![a] = 0]

(* Minting n to an account raises the supply by n.                          *)
LEMMA TotalOfPlus ==
  ASSUME NEW f \in [Accounts -> Nat], NEW a \in Accounts, NEW n \in Nat
  PROVE  Plus(f, a, n) \in [Accounts -> Nat] /\ Total(Plus(f, a, n)) = Total(f) + n
<1>1. f[a] \in Nat /\ f[a] + n \in Nat /\ Total(f) \in Nat
  BY AccountsFinite, TotalType
<1>2. Total([f EXCEPT ![a] = f[a] + n]) = Total(f) - f[a] + (f[a] + n)
  BY <1>1, AccountsFinite, TotalUpdate
<1>3. Plus(f, a, n) = [f EXCEPT ![a] = f[a] + n]
  BY DEF Plus
<1>4. Total(Plus(f, a, n)) = Total(f) + n
  BY <1>1, <1>2, <1>3
<1> QED
  BY <1>1, <1>3, <1>4

(* Burning n of an account lowers the supply by n.                          *)
LEMMA TotalOfMinus ==
  ASSUME NEW f \in [Accounts -> Nat], NEW a \in Accounts, NEW n \in Nat, n <= f[a]
  PROVE  Minus(f, a, n) \in [Accounts -> Nat] /\ Total(Minus(f, a, n)) = Total(f) - n
<1>1. f[a] \in Nat /\ f[a] - n \in Nat /\ Total(f) \in Nat
  BY AccountsFinite, TotalType
<1>2. Total([f EXCEPT ![a] = f[a] - n]) = Total(f) - f[a] + (f[a] - n)
  BY <1>1, AccountsFinite, TotalUpdate
<1>3. Minus(f, a, n) = [f EXCEPT ![a] = f[a] - n]
  BY DEF Minus
<1>4. Total(Minus(f, a, n)) = Total(f) - n
  BY <1>1, <1>2, <1>3
<1> QED
  BY <1>1, <1>3, <1>4

(* Burning all an account holds does not raise the supply.                  *)
LEMMA TotalOfZeroed ==
  ASSUME NEW f \in [Accounts -> Nat], NEW a \in Accounts
  PROVE  Total(Zeroed(f, a)) <= Total(f) /\ Total(Zeroed(f, a)) \in Nat
<1>1. f[a] \in Nat /\ f[a] <= f[a] /\ f[a] - f[a] = 0
  OBVIOUS
<1>2. Minus(f, a, f[a]) = Zeroed(f, a)
  <2>1. Minus(f, a, f[a]) = [f EXCEPT ![a] = f[a] - f[a]]
    BY DEF Minus
  <2> QED BY <1>1, <2>1 DEF Zeroed
<1>3. Total(Minus(f, a, f[a])) = Total(f) - f[a] /\ Zeroed(f, a) \in [Accounts -> Nat]
  BY <1>1, <1>2, TotalOfMinus
<1>4. Total(f) \in Nat /\ Total(Zeroed(f, a)) \in Nat
  BY <1>3, AccountsFinite, TotalType
<1> QED
  BY <1>1, <1>2, <1>3, <1>4

(* A transfer leaves the sum as it is.                                      *)
LEMMA TotalOfTransfer ==
  ASSUME NEW f \in [Accounts -> Nat], NEW a \in Accounts, NEW b \in Accounts, a # b,
         NEW n \in Nat, n <= f[a]
  PROVE  Total(Transfer(f, a, b, n)) = Total(f)
<1> DEFINE g == Minus(f, a, n)
<1>1. g \in [Accounts -> Nat] /\ Total(g) = Total(f) - n
  BY TotalOfMinus
<1>2. Transfer(f, a, b, n) = Plus(g, b, n)
  BY DEF Transfer, Plus, Minus
<1> HIDE DEF g
<1>3. Total(Plus(g, b, n)) = Total(g) + n
  BY <1>1, TotalOfPlus
<1>4. Total(f) \in Nat
  BY AccountsFinite, TotalType
<1> QED
  BY <1>1, <1>2, <1>3, <1>4

(* The rate after a step that keeps the stake and mints nothing.            *)
LEMMA RateOfBurn ==
  ASSUME IInv, staked' = staked, total_supply' \in Nat, total_supply' <= total_supply
  PROVE  NoWorse(staked, total_supply, staked', total_supply')
BY Supplies, BurnsAreFair DEF IInv, TypeOK

(* The rate after a sync.                                                   *)
LEMMA RateOfSync ==
  ASSUME IInv, NEW attached \in Nat, total_supply > 0
  PROVE  LET y == SyncRewards(attached)
         IN  /\ NoWorse(staked, total_supply, y.staked, Supply(y))
             /\ y.staked \in Nat /\ Supply(y) \in Nat /\ Supply(y) > 0
<1> DEFINE y       == SyncRewards(attached)
           current == balance + attached - Excluded(attached)
           reward  == current - tracked
           fee     == split_protocol_fee(reward)
           S       == staked + (reward - fee)
<1>1. TypeOK /\ total_supply \in Nat /\ staked \in Nat
  BY Supplies DEF IInv, TypeOK
<1>2. CASE epoch = last_epoch_synced \/ current <= tracked
  <2>1. y = NothingSynced
    BY <1>2 DEF SyncRewards
  <2>2. y.staked = staked /\ y.minted = 0
    BY <2>1 DEF NothingSynced
  <2> HIDE DEF y
  <2>3. Supply(y) = total_supply
    BY <1>1, <2>2 DEF Supply
  <2>4. NoWorse(staked, total_supply, staked, total_supply)
    BY <1>1, BurnsAreFair
  <2> QED BY <1>1, <2>2, <2>3, <2>4 DEF y
<1>3. CASE ~(epoch = last_epoch_synced \/ current <= tracked)
  <2>1. y = [staked |-> S + fee, tracked |-> current,
             minted |-> near_to_lst(fee, S, total_supply),
             reward |-> reward, epoch |-> epoch]
    BY <1>3 DEF SyncRewards
  <2>2. reward \in Nat
    BY <1>1, <1>3 DEF Excluded, TypeOK
  <2>3. fee \in Nat /\ fee <= reward
    BY <1>1, <2>2, FeeIsPart DEF TypeOK
  <2> HIDE DEF y, current, fee, reward
  <2>4. S \in Nat /\ S = staked + (reward - fee)
    BY <1>1, <2>2, <2>3
  <2> HIDE DEF S
  <2>5. near_to_lst(fee, S, total_supply) \in Nat
    BY <1>1, <2>3, <2>4, QuoteIsNat
  <2>6. y.staked = S + fee /\ Supply(y) = total_supply + near_to_lst(fee, S, total_supply)
    BY <2>1 DEF Supply
  <2>7. NoWorse(staked, total_supply, S + fee,
                total_supply + near_to_lst(fee, S, total_supply))
    BY <1>1, <2>2, <2>3, <2>4, FeesAreFair
  <2>8. S + fee \in Nat /\ Supply(y) \in Nat /\ Supply(y) > 0
    BY <1>1, <2>3, <2>4, <2>5, <2>6
  <2> QED BY <2>6, <2>7, <2>8 DEF y
<1> QED
  BY <1>2, <1>3

(* The rate after a step that syncs and mints the treasury's part.          *)
LEMMA RateOfSyncStep ==
  ASSUME IInv, NEW attached \in Nat, total_supply > 0,
         staked' = SyncRewards(attached).staked,
         lst' = Plus(lst, "treasury", SyncRewards(attached).minted)
  PROVE  NoWorse(staked, total_supply, staked', total_supply')
<1> DEFINE y == SyncRewards(attached)
<1>1. /\ NoWorse(staked, total_supply, y.staked, Supply(y))
      /\ y.minted \in Nat
  BY RateOfSync, SyncIsEarned
<1>2. staked' = y.staked /\ lst' = Plus(lst, "treasury", y.minted)
  OBVIOUS
<1> HIDE DEF y
<1>3. total_supply' = total_supply + y.minted
  <2>1. lst \in [Accounts -> Nat] /\ "treasury" \in Accounts
    BY DEF IInv, TypeOK, Accounts
  <2> QED BY <1>1, <1>2, <2>1, TotalOfPlus DEF total_supply
<1> QED
  BY <1>1, <1>2, <1>3 DEF Supply

Fresh == \A s \in Active : ~AtOldRate(s)

(* The steps that leave the stake and the LST balances alone.               *)
LEMMA RateOfQuietStep ==
  ASSUME IInv, staked' = staked, lst' = lst
  PROVE  NoWorse(staked, total_supply, staked', total_supply')
<1>1. total_supply' = total_supply /\ total_supply \in Nat
  BY Supplies DEF total_supply, IInv
<1> QED
  BY <1>1, RateOfBurn

(* The rate after an unstake, which syncs first.                            *)
LEMMA RateOfUnstake ==
  ASSUME IInv, NEW s \in Slots, NEW holder \in Users \cup {"pool"}, NEW amount \in Nat,
         amount <= lst[holder], total_supply > 0, Unstakes(s, holder, amount)
  PROVE  NoWorse(staked, total_supply, staked', total_supply')
<1> DEFINE y    == SyncRewards(0)
           near == Pays(y, amount)
           g    == Plus(lst, "treasury", y.minted)
<1>1. /\ near <= y.staked
      /\ Commit([y EXCEPT !.staked = @ - near])
      /\ lst' = [lst EXCEPT !["treasury"] = @ + y.minted, ![holder] = @ - amount]
  BY DEF Unstakes
<1>2. /\ NoWorse(staked, total_supply, y.staked, Supply(y))
      /\ y.staked \in Nat /\ Supply(y) \in Nat /\ Supply(y) > 0 /\ y.minted \in Nat
  BY RateOfSync, SyncIsEarned
<1>3. PICK a, b, m, r, e :
        y = [staked |-> a, tracked |-> b, minted |-> m, reward |-> r, epoch |-> e]
  BY SyncIsRecord
<1> HIDE DEF y
<1>4. near \in Nat /\ near = lst_to_near(amount, y.staked, Supply(y))
  BY <1>2, QuoteIsNat DEF Pays
<1> HIDE DEF near
<1>5. staked' = y.staked - near
  BY <1>1, <1>3 DEF Commit
<1>6. /\ holder \in Accounts /\ "treasury" \in Accounts /\ holder # "treasury"
      /\ lst \in [Accounts -> Nat]
  BY StakePoolAssumption DEF Accounts, IInv, TypeOK
<1>7. g \in [Accounts -> Nat] /\ Total(g) = Supply(y)
  BY <1>2, <1>6, TotalOfPlus DEF Supply, total_supply
<1>8. lst' = Minus(g, holder, amount) /\ g[holder] = lst[holder]
  BY <1>1, <1>6 DEF Plus, Minus
<1> HIDE DEF g
<1>9. Total(Minus(g, holder, amount)) = Total(g) - amount
  BY <1>6, <1>7, <1>8, TotalOfMinus
<1>10. amount <= Supply(y)
  <2>1. g[holder] <= Total(g) /\ g[holder] \in Nat
    BY <1>6, <1>7, AccountsFinite, TotalMember
  <2>2. Total(g) \in Nat
    BY <1>2, <1>7
  <2> QED BY <1>7, <1>8, <2>1, <2>2
<1>11. total_supply' = Supply(y) - amount
  BY <1>7, <1>8, <1>9 DEF total_supply
<1>12. NoWorse(y.staked, Supply(y), y.staked - near, Supply(y) - amount)
  BY <1>1, <1>2, <1>4, <1>10, PayoutsAreFair
<1>13. /\ y.staked - near \in Nat /\ Supply(y) - amount \in Nat
       /\ staked \in Nat /\ total_supply \in Nat
  BY <1>1, <1>2, <1>4, <1>10, Supplies DEF IInv, TypeOK
<1>14. NoWorse(staked, total_supply, y.staked - near, Supply(y) - amount)
  <2>1. PICK S0 \in Nat, Q0 \in Nat, S1 \in Nat, Q1 \in Nat, S2 \in Nat, Q2 \in Nat :
          /\ S0 = staked /\ Q0 = total_supply /\ S1 = y.staked /\ Q1 = Supply(y)
          /\ S2 = y.staked - near /\ Q2 = Supply(y) - amount
    BY <1>2, <1>13
  <2>2. NoWorse(S0, Q0, S1, Q1) /\ NoWorse(S1, Q1, S2, Q2) /\ Q1 > 0
    BY <1>2, <1>12, <2>1
  <2>3. NoWorse(S0, Q0, S2, Q2)
    BY <2>2, RatesCompose
  <2> QED BY <2>1, <2>3
<1> QED
  BY <1>5, <1>11, <1>14

(* The receipt that starts a stake or an unstake keeps the rate.            *)
LEMMA RateOfBegin ==
  ASSUME IInv, total_supply > 0, NEW s \in Slots, Begin(s)
  PROVE  NoWorse(staked, total_supply, staked', total_supply')
<1>1. PICK u \in Users :
        \/ \E m \in Messages, d \in Deposits :
             StakeNative(s, u, m, d) \/ StakeWnear(s, u, m, d)
        \/ \E amount \in 1..lst[u] : SendUnstake(s, u, amount)
  BY DEF Begin
<1>2. ASSUME NEW m \in Messages, NEW d \in Deposits, StakeNative(s, u, m, d)
      PROVE  NoWorse(staked, total_supply, staked', total_supply')
  <2>1. d \in Nat
    BY StakePoolAssumption
  <2>2. /\ staked' = SyncRewards(d).staked
        /\ lst' = Plus(lst, "treasury", SyncRewards(d).minted)
    BY <1>2 DEF StakeNative, Commit, Plus
  <2> QED BY <2>1, <2>2, RateOfSyncStep
<1>3. ASSUME NEW m \in Messages, NEW d \in Deposits, StakeWnear(s, u, m, d)
      PROVE  NoWorse(staked, total_supply, staked', total_supply')
  BY <1>3, RateOfQuietStep DEF StakeWnear, token
<1>4. ASSUME NEW amount \in 1..lst[u], SendUnstake(s, u, amount)
      PROVE  NoWorse(staked, total_supply, staked', total_supply')
  <2>1. /\ u \in Accounts /\ "pool" \in Accounts /\ u # "pool" /\ lst \in [Accounts -> Nat]
    BY StakePoolAssumption DEF Accounts, IInv, TypeOK
  <2>2. staked' = staked /\ lst' = Transfer(lst, u, "pool", amount) /\ amount <= lst[u]
    BY <1>4 DEF SendUnstake, statistics, Transfer
  <2>3. amount \in Nat
    BY <2>1
  <2>4. total_supply' = total_supply
    BY <2>1, <2>2, <2>3, TotalOfTransfer DEF total_supply
  <2> QED BY <2>2, <2>4, Supplies, RateOfBurn DEF IInv
<1> QED
  BY <1>1, <1>2, <1>3, <1>4

(* The chain whose receipt it is changes, even if it only goes on.          *)
LEMMA ChainMoves ==
  ASSUME chains \in [Slots -> Chain \cup {Idle}], NEW s \in Slots,
         chains[s] \in Chain, NEW phase, chains[s].phase # phase,
         Continue(s, phase) \/ End(s)
  PROVE  chains'[s] # chains[s]
<1>1. CASE Continue(s, phase)
  <2>1. chains'[s] = [chains[s] EXCEPT !.phase = phase]
    BY <1>1 DEF Continue
  <2>2. [chains[s] EXCEPT !.phase = phase].phase = phase
    BY DEF Chain
  <2> QED BY <2>1, <2>2
<1>2. CASE End(s)
  <2>1. chains'[s] = Idle
    BY <1>2 DEF End
  <2> QED BY <2>1, IdleIsNoChain
<1> QED BY <1>1, <1>2

(* Booking a stake and rolling one back are steps at the old rate.          *)
LEMMA OldRateSteps ==
  ASSUME IInv, NEW s \in Slots, Fresh
  PROVE  /\ ~BatchSucceeds(s) /\ ~OnUnstakeFailed(s)
         /\ OnRestakeFailed(s) => staked' = staked /\ lst' = lst
<1> DEFINE c == chains[s]
<1>0. chains \in [Slots -> Chain \cup {Idle}]
  BY DEF IInv, TypeOK
<1>1. ASSUME BatchSucceeds(s) PROVE FALSE
  <2>1. c.phase = "batch" /\ Continue(s, "booked") /\ staked' = staked + c.near
    BY <1>1 DEF BatchSucceeds, At
  <2>2. c \in Chain /\ c # Idle /\ ChainSound(c) /\ c.near \in Nat /\ staked \in Nat
        /\ c.deposit \in Nat /\ c.fee \in Nat
    BY <2>1, InPhase DEF IInv, TypeOK
  <2>3. staked' # staked
    BY <2>1, <2>2 DEF ChainSound
  <2>4. chains'[s] # c
    BY <1>0, <2>1, <2>2, ChainMoves
  <2> QED BY <2>1, <2>2, <2>3, <2>4 DEF Fresh, AtOldRate, Active
<1>2. ASSUME OnUnstakeFailed(s) PROVE FALSE
  <2>1. /\ c.phase = "unstaking" /\ staked' = staked + c.near
        /\ Continue(s, "resolving") \/ End(s)
    BY <1>2 DEF OnUnstakeFailed, At
  <2>2. c \in Chain /\ c # Idle /\ ChainSound(c) /\ c.near \in Nat /\ staked \in Nat
    BY <2>1, InPhase DEF IInv, TypeOK
  <2>3. staked' # staked
    BY <2>1, <2>2 DEF ChainSound
  <2>4. chains'[s] # c
    BY <1>0, <2>1, <2>2, ChainMoves
  <2> QED BY <2>1, <2>2, <2>3, <2>4 DEF Fresh, AtOldRate, Active
<1>3. ASSUME OnRestakeFailed(s) PROVE staked' = staked /\ lst' = lst
  <2>1. c.phase = "staking"
    BY <1>3 DEF OnRestakeFailed, At
  <2>2. /\ c \in Chain /\ c # Idle /\ ChainSound(c) /\ c.near \in Nat
        /\ c.deposit \in Nat /\ c.fee \in Nat /\ staked \in Nat
    BY <2>1, InPhase DEF IInv, TypeOK
  <2>3. c.near > 0
    BY <2>1, <2>2 DEF ChainSound
  <2>4. staked' # staked - c.near
    <3> SUFFICES ASSUME staked' = staked - c.near PROVE FALSE
      OBVIOUS
    <3>1. staked' # staked
      BY <2>2, <2>3
    <3>2. Continue(s, "rewrap") \/ End(s)
      BY <1>3 DEF OnRestakeFailed
    <3>3. chains'[s] # c
      BY <1>0, <2>1, <2>2, <3>2, ChainMoves
    <3> QED BY <2>1, <2>2, <3>1, <3>3 DEF Fresh, AtOldRate, Active
  <2> QED BY <1>3, <2>4 DEF OnRestakeFailed
<1> QED
  BY <1>1, <1>2, <1>3

(* Each later receipt keeps the rate while its quote is fresh.              *)
LEMMA RateOfReceipt ==
  ASSUME IInv, total_supply > 0, Fresh, NEW s \in Slots, Receipt(s)
  PROVE  NoWorse(staked, total_supply, staked', total_supply')
<1> DEFINE c == chains[s]
<1>1. lst \in [Accounts -> Nat] /\ "pool" \in Accounts /\ "treasury" \in Accounts
  BY DEF IInv, TypeOK, Accounts
<1>2. CASE OnNearWithdraw(s)
  <2>1. /\ staked' = SyncRewards(0).staked
        /\ lst' = Plus(lst, "treasury", SyncRewards(0).minted)
    BY <1>2 DEF OnNearWithdraw, Commit, Plus
  <2> QED BY <2>1, RateOfSyncStep
<1>3. CASE OnRestakeOk(s)
  <2>1. c.phase = "staking" /\ staked' = staked
    BY <1>3 DEF OnRestakeOk, At, statistics
  <2>2. c.lst \in Nat /\ c.user \in Users
    BY <2>1, InPhase
  <2>3. c.user \in Accounts /\ c.user # "pool"
    BY <2>2, StakePoolAssumption DEF Accounts
  <2>4. \/ c.lst <= lst["pool"] /\ lst' = Transfer(lst, "pool", c.user, c.lst)
        \/ lst' = lst
    BY <1>3 DEF OnRestakeOk, Transfer
  <2>5. total_supply' = total_supply
    BY <1>1, <2>2, <2>3, <2>4, TotalOfTransfer DEF total_supply
  <2> QED BY <2>1, <2>5, Supplies, RateOfBurn DEF IInv
<1>4. CASE ResolveTransfer(s)
  <2>1. c.phase = "resolving" /\ staked' = staked /\ c.lst <= lst["pool"]
    BY <1>4 DEF ResolveTransfer, At, statistics
  <2>2. c.lst \in Nat /\ c.user \in Users
    BY <2>1, InPhase
  <2>3. c.user \in Accounts /\ c.user # "pool"
    BY <2>2, StakePoolAssumption DEF Accounts
  <2>4. \/ lst' = Transfer(lst, "pool", c.user, c.lst)
        \/ lst' = Minus(lst, "pool", c.lst)
    BY <1>4 DEF ResolveTransfer, Transfer, Minus
  <2>5. total_supply \in Nat /\ total_supply' \in Nat /\ total_supply' <= total_supply
    <3>1. total_supply \in Nat
      BY Supplies DEF IInv
    <3>2. CASE lst' = Transfer(lst, "pool", c.user, c.lst)
      <4>1. total_supply' = total_supply
        BY <1>1, <2>1, <2>2, <2>3, <3>2, TotalOfTransfer DEF total_supply
      <4> QED BY <3>1, <4>1
    <3>3. CASE lst' = Minus(lst, "pool", c.lst)
      <4>1. total_supply' = total_supply - c.lst /\ lst' \in [Accounts -> Nat]
        BY <1>1, <2>1, <2>2, <3>3, TotalOfMinus DEF total_supply
      <4>2. total_supply' \in Nat
        BY <4>1, AccountsFinite, TotalType DEF total_supply
      <4> QED BY <2>2, <3>1, <4>1, <4>2
    <3> QED BY <2>4, <3>2, <3>3
  <2> QED BY <2>1, <2>5, RateOfBurn
<1>5. CASE OnUnstakeTransfer(s)
  <2>1. c.phase = "sent"
    BY <1>5 DEF OnUnstakeTransfer, At
  <2>2. c \in Chain /\ c.lst \in Nat /\ PoolLst(c) = c.lst
    BY <2>1, InPhase, PartsOf
  <2>3. c.lst <= lst["pool"]
    <3>1. lst["pool"] >= PoolLst(c) + stranded /\ lst["pool"] \in Nat /\ stranded \in Nat
      BY <1>1, Covered DEF IInv, TypeOK
    <3> QED BY <2>2, <3>1
  <2>4. CASE Unstakes(s, "pool", c.lst)
    BY <2>2, <2>3, <2>4, RateOfUnstake
  <2>5. CASE UNCHANGED <<statistics, token>>
    BY <2>5, RateOfQuietStep DEF statistics, token
  <2> QED BY <1>5, <2>4, <2>5 DEF OnUnstakeTransfer
<1>6. CASE OnFtOnTransfer(s)
  <2>1. c.phase = "notified"
    BY <1>6 DEF OnFtOnTransfer, At
  <2>2. c.lst \in Nat /\ c.user \in Users
    BY <2>1, InPhase
  <2>3. ASSUME NEW refund \in 1..c.lst, refund <= lst[c.user], Unstakes(s, c.user, refund)
        PROVE  NoWorse(staked, total_supply, staked', total_supply')
    <3>1. refund \in Nat /\ c.user \in Users \cup {"pool"}
      BY <2>2
    <3> QED BY <2>3, <3>1, RateOfUnstake
  <2>4. CASE UNCHANGED <<statistics, token>>
    BY <2>4, RateOfQuietStep DEF statistics, token
  <2> QED BY <1>6, <2>3, <2>4 DEF OnFtOnTransfer
<1>7. CASE \/ UnwrapArrives(s) \/ UnwrapFails(s) \/ BatchFails(s) \/ RestakeOrRefund(s)
           \/ Rewrap(s) \/ OnUnstakeOk(s)
  <2>1. staked' = staked /\ lst' = lst
    BY <1>7 DEF UnwrapArrives, UnwrapFails, BatchFails, RestakeOrRefund, Rewrap,
                OnUnstakeOk, statistics, token
  <2> QED BY <2>1, RateOfQuietStep
<1>8. CASE BatchSucceeds(s) \/ OnRestakeFailed(s) \/ OnUnstakeFailed(s)
  <2>1. staked' = staked /\ lst' = lst
    BY <1>8, OldRateSteps
  <2> QED BY <2>1, RateOfQuietStep
<1> QED
  BY <1>2, <1>3, <1>4, <1>5, <1>6, <1>7, <1>8 DEF Receipt

(* Every step keeps the rate while quotes are fresh.                        *)
LEMMA RateOfNext ==
  ASSUME IInv, total_supply > 0, Fresh, [Next]_vars
  PROVE  NoWorse(staked, total_supply, staked', total_supply')
<1>1. ASSUME NEW u \in Users, Register(u)
      PROVE  NoWorse(staked, total_supply, staked', total_supply')
  BY <1>1, RateOfQuietStep DEF Register
<1>2. ASSUME NEW u \in Users, Unregister(u)
      PROVE  NoWorse(staked, total_supply, staked', total_supply')
  <2>1. lst \in [Accounts -> Nat] /\ u \in Accounts
    BY DEF IInv, TypeOK, Accounts
  <2>2. lst' = Zeroed(lst, u) /\ staked' = staked
    BY <1>2 DEF Unregister, Zeroed
  <2>3. total_supply' <= total_supply /\ total_supply' \in Nat
    BY <2>1, <2>2, TotalOfZeroed DEF total_supply
  <2> QED BY <2>2, <2>3, RateOfBurn
<1>3. ASSUME NEW bps, Sync(bps)
      PROVE  NoWorse(staked, total_supply, staked', total_supply')
  <2>1. /\ staked' = SyncRewards(0).staked
        /\ lst' = Plus(lst, "treasury", SyncRewards(0).minted)
    BY <1>3 DEF Sync, Commit, Plus
  <2> QED BY <2>1, RateOfSyncStep
<1>4. CASE ReturnArrives \/ NextEpoch \/ UNCHANGED vars
  <2>1. staked' = staked /\ lst' = lst
    BY <1>4 DEF ReturnArrives, NextEpoch, vars, statistics, token
  <2> QED BY <2>1, RateOfQuietStep
<1> QED
  BY <1>1, <1>2, <1>3, <1>4, RateOfBegin, RateOfReceipt DEF Next, Ping, SetProtocolFee

(* The roundings of stake_and_deposit and handle_unstaking together: LST    *)
(* that is unstaked right after it was minted pays no more NEAR than it was *)
(* minted for.                                                              *)
THEOREM RoundTripNeverGains ==
  ASSUME NEW near \in Nat, NEW S \in Nat, NEW Q \in Nat, Q > 0 \/ S = 0
  PROVE  LET minted == near_to_lst(near, S, Q)
         IN  lst_to_near(minted, S + near, Q + minted) <= near
<1> DEFINE l == near_to_lst(near, S, Q)
           paid == lst_to_near(l, S + near, Q + l)
<1>1. l \in Nat /\ S * l <= near * Q
  <2>1. CASE Q = 0 \/ S = 0
    <3>1. l = near
      BY <2>1 DEF near_to_lst
    <3>2. S = 0
      BY <2>1
    <3>3. near * Q \in Nat /\ S * l = 0
      BY <3>1, <3>2, ProductIsNat
    <3> QED BY <3>1, <3>3
  <2>2. CASE Q # 0 /\ S # 0
    <3>1. near * Q \in Nat
      BY ProductIsNat
    <3>2. l = (near * Q) \div S
      BY <2>2 DEF near_to_lst
    <3> QED BY <2>2, <3>1, <3>2, Floored
  <2> QED BY <2>1, <2>2
<1> HIDE DEF l
<1> SUFFICES paid <= near
  BY DEF l, paid
<1>2. CASE Q + l = 0
  <2>1. paid = 0
    BY <1>2 DEF lst_to_near, paid
  <2> QED BY <2>1
<1>3. CASE Q + l # 0
  <2>1. l * (S + near) \in Nat /\ l * (S + near) = S * l + l * near
    BY <1>1, ProductIsNat
  <2>2. near * (Q + l) = near * Q + l * near
    BY <1>1
  <2>3. l * (S + near) <= near * (Q + l)
    <3>1. PICK a \in Nat, b \in Nat, k \in Nat : a = S * l /\ b = near * Q /\ k = l * near
      BY <1>1, ProductIsNat
    <3> QED BY <1>1, <2>1, <2>2, <3>1
  <2>4. paid = (l * (S + near)) \div (Q + l)
    BY <1>1, <1>3 DEF lst_to_near, paid
  <2>5. paid \in Nat /\ (Q + l) * paid <= l * (S + near)
    BY <1>1, <1>3, <2>1, <2>4, Floored
  <2> HIDE DEF paid
  <2>6. near * (Q + l) >= paid * (Q + l)
    <3>1. (Q + l) * paid = paid * (Q + l)
      BY <1>1, <2>5
    <3>2. PICK a \in Nat, b \in Nat, k \in Nat :
            a = paid * (Q + l) /\ b = l * (S + near) /\ k = near * (Q + l)
      BY <1>1, <2>1, <2>5, ProductIsNat
    <3> QED BY <2>3, <2>5, <3>1, <3>2
  <2>7. Q + l \in Nat /\ Q + l > 0
    BY <1>1, <1>3
  <2>8. near >= paid
    BY <2>5, <2>6, <2>7, CancelFactor
  <2> QED BY <2>5, <2>8
<1> QED
  BY <1>1, <1>2, <1>3

(* Outside the steps at a rate fixed earlier, no step of any chain, sync,   *)
(* fee change or burn lowers the NEAR behind one LST.                       *)
THEOREM RateIsKept ==
  Spec => RateNeverFalls
<1>1. IInv /\ [Next]_vars =>
        [Fresh /\ total_supply > 0 =>
           staked' * total_supply >= staked * total_supply']_vars
  BY RateOfNext DEF NoWorse
<1>2. Fresh <=> \A s \in Active : ~AtOldRate(s)
  BY DEF Fresh
<1> QED
  BY <1>1, Invariance, PTL DEF Spec, RateNeverFalls, Fresh

-----------------------------------------------------------------------------
(* The steps at the rate of an earlier receipt.                             *)

(* Adding near for l leaves the rate, or the price near / l, at worst.      *)
LEMMA Mediant ==
  ASSUME NEW S \in Nat, NEW Q \in Nat, NEW near \in Nat, NEW l \in Nat
  PROVE  NoWorse(S, Q, S + near, Q + l) \/ (S + near) * l >= near * (Q + l)
<1>1. PICK a \in Nat, b \in Nat, c \in Nat, d \in Nat :
        a = S * Q /\ b = near * Q /\ c = S * l /\ d = near * l
  BY ProductIsNat
<1>2. /\ (S + near) * Q = a + b /\ S * (Q + l) = a + c
      /\ (S + near) * l = c + d /\ near * (Q + l) = b + d
  BY <1>1
<1>3. b >= c \/ c >= b
  OBVIOUS
<1> QED
  BY <1>2, <1>3 DEF NoWorse

(* Taking near back for l keeps the rate if the price was no higher.        *)
LEMMA TakenBack ==
  ASSUME NEW S \in Nat, NEW Q \in Nat, NEW near \in Nat, NEW l \in Nat, near * Q <= S * l
  PROVE  NoWorse(S, Q, S - near, Q - l)
<1>1. PICK a \in Nat, b \in Nat, c \in Nat : a = S * Q /\ b = near * Q /\ c = S * l
  BY ProductIsNat
<1>2. (S - near) * Q = a - b /\ S * (Q - l) = a - c
  BY <1>1
<1> QED
  BY <1>1, <1>2 DEF NoWorse

(* Every receipt of a chain leaves the other slots alone.                   *)
LEMMA OthersStay ==
  ASSUME chains \in [Slots -> Chain \cup {Idle}], NEW r \in Slots, Receipt(r),
         NEW s \in Slots, s # r
  PROVE  chains'[s] = chains[s]
<1>1. ASSUME NEW phase, Continue(r, phase) \/ End(r) PROVE chains'[s] = chains[s]
  BY <1>1 DEF Continue, End
<1>2. ASSUME NEW holder, NEW amount, Unstakes(r, holder, amount)
      PROVE  chains'[s] = chains[s]
  BY <1>2 DEF Unstakes
<1>3. CASE OnNearWithdraw(r)
  BY <1>3 DEF OnNearWithdraw
<1>4. CASE RestakeOrRefund(r)
  <2>1. \/ Continue(r, "staking") \/ End(r)
        \/ chains' = [chains EXCEPT ![r].phase = "rewrap", ![r].near = chains[r].deposit]
    BY <1>4 DEF RestakeOrRefund
  <2> QED BY <1>1, <2>1
<1>5. CASE OnFtOnTransfer(r) \/ OnUnstakeTransfer(r)
  BY <1>1, <1>2, <1>5 DEF OnFtOnTransfer, OnUnstakeTransfer
<1>6. CASE \/ UnwrapArrives(r) \/ UnwrapFails(r) \/ BatchSucceeds(r) \/ BatchFails(r)
           \/ Rewrap(r) \/ ResolveTransfer(r)
  BY <1>1, <1>6 DEF UnwrapArrives, UnwrapFails, BatchSucceeds, BatchFails, Rewrap,
                    ResolveTransfer
<1>7. CASE OnRestakeOk(r) \/ OnRestakeFailed(r)
  BY <1>1, <1>7 DEF OnRestakeOk, OnRestakeFailed
<1>8. CASE OnUnstakeOk(r) \/ OnUnstakeFailed(r)
  BY <1>1, <1>8 DEF OnUnstakeOk, OnUnstakeFailed
<1> QED
  BY <1>3, <1>4, <1>5, <1>6, <1>7, <1>8 DEF Receipt

(* A chain changes only with its own receipts: a slot in use takes no new   *)
(* chain, and nobody else touches it.                                       *)
LEMMA OwnReceipt ==
  ASSUME IInv, NEW s \in Active, chains'[s] # chains[s], [Next]_vars
  PROVE  Receipt(s)
<1>1. s \in Slots /\ chains[s] # Idle /\ chains \in [Slots -> Chain \cup {Idle}]
  BY DEF Active, IInv, TypeOK
<1>2. chains' # chains
  OBVIOUS
<1>3. PICK r \in Slots : Begin(r) \/ Receipt(r)
  BY <1>2 DEF Next, Register, Unregister, Ping, SetProtocolFee, Sync, ReturnArrives,
              NextEpoch, vars
<1>4. CASE Begin(r)
  <2>1. PICK q : Start(r, q)
    BY <1>4 DEF Begin, StakeNative, StakeWnear, SendUnstake
  <2>2. r # s
    BY <1>1, <2>1 DEF Start
  <2> QED BY <1>1, <2>1, <2>2 DEF Start
<1>5. CASE Receipt(r) /\ r # s
  BY <1>1, <1>5, OthersStay
<1> QED
  BY <1>3, <1>4, <1>5

(* Only three receipts are steps at an old rate, and each moves the stake   *)
(* and the supply by what its chain was quoted.                             *)
LEMMA OldRateEffect ==
  ASSUME IInv, NEW s \in Active, AtOldRate(s), [Next]_vars
  PROVE  LET c == chains[s]
         IN  /\ c.near \in Nat /\ c.lst \in Nat
             /\ \/ staked' = staked + c.near /\ total_supply' = total_supply + c.lst
                \/ staked' = staked - c.near /\ total_supply' = total_supply - c.lst
<1> DEFINE c == chains[s]
<1>1. /\ s \in Slots /\ c.phase \in {"batch", "staking", "unstaking"}
      /\ staked' # staked /\ Receipt(s)
  BY OwnReceipt DEF AtOldRate, Active
<1>2. c \in Chain /\ c.near \in Nat /\ c.lst \in Nat
  BY <1>1, InPhase
<1>3. BatchSucceeds(s) \/ OnRestakeFailed(s) \/ OnUnstakeFailed(s)
  <2>1. ~(UnwrapArrives(s) \/ UnwrapFails(s) \/ OnNearWithdraw(s) \/ Rewrap(s))
    BY <1>1 DEF UnwrapArrives, UnwrapFails, OnNearWithdraw, Rewrap, At
  <2>2. ~(OnFtOnTransfer(s) \/ OnUnstakeTransfer(s) \/ ResolveTransfer(s))
    BY <1>1 DEF OnFtOnTransfer, OnUnstakeTransfer, ResolveTransfer, At
  <2>3. ~(BatchFails(s) \/ RestakeOrRefund(s) \/ OnRestakeOk(s) \/ OnUnstakeOk(s))
    BY <1>1 DEF BatchFails, RestakeOrRefund, OnRestakeOk, OnUnstakeOk, statistics
  <2> QED BY <1>1, <2>1, <2>2, <2>3 DEF Receipt
<1>4. /\ lst \in [Accounts -> Nat] /\ "pool" \in Accounts /\ lst["pool"] \in Nat
  BY DEF IInv, TypeOK, Accounts
<1>5. CASE BatchSucceeds(s) \/ OnUnstakeFailed(s)
  <2>1. staked' = staked + c.near /\ lst' = Plus(lst, "pool", c.lst)
    BY <1>5 DEF BatchSucceeds, OnUnstakeFailed, Plus
  <2>2. total_supply' = total_supply + c.lst
    BY <1>2, <1>4, <2>1, TotalOfPlus DEF total_supply
  <2> QED BY <1>2, <2>1, <2>2
<1>6. CASE OnRestakeFailed(s)
  <2>1. /\ staked' = staked - c.near /\ lst' = Minus(lst, "pool", c.lst)
        /\ c.lst <= lst["pool"]
    BY <1>1, <1>6 DEF OnRestakeFailed, RollbackFits, BurnedBack, Minus
  <2>2. total_supply' = total_supply - c.lst
    BY <1>2, <1>4, <2>1, TotalOfMinus DEF total_supply
  <2> QED BY <1>2, <2>1, <2>2
<1> QED
  BY <1>3, <1>5, <1>6

(* A stake that is booked at the quote of an earlier receipt, or an unstake *)
(* that is put back, never takes the rate below both what it was and what   *)
(* the chain itself was quoted; the rollback of a stake after a refused     *)
(* action lowers it only if the stake was bought above today's rate.  With  *)
(* RateIsKept this bounds every step that any chain can take.               *)
THEOREM OldQuotesAreBounded ==
  Spec => OldQuotesBoundRate
<1>1. ASSUME IInv, [Next]_vars, NEW s \in Active, AtOldRate(s)
      PROVE  LET c         == chains[s]
                 rate_kept == staked' * total_supply >= staked * total_supply'
             IN  IF staked' > staked
                 THEN rate_kept \/ staked' * c.lst >= c.near * total_supply'
                 ELSE c.near * total_supply <= staked * c.lst => rate_kept
  <2> DEFINE c == chains[s]
  <2>1. PICK S \in Nat, Q \in Nat, near \in Nat, l \in Nat :
          /\ S = staked /\ Q = total_supply /\ near = c.near /\ l = c.lst
          /\ \/ staked' = S + near /\ total_supply' = Q + l
             \/ staked' = S - near /\ total_supply' = Q - l
    BY <1>1, OldRateEffect, Supplies DEF IInv, TypeOK
  <2>2. CASE staked' > staked
    <3>1. staked' = S + near /\ total_supply' = Q + l
      BY <2>1, <2>2
    <3>2. NoWorse(S, Q, S + near, Q + l) \/ (S + near) * l >= near * (Q + l)
      BY Mediant
    <3> QED BY <2>1, <2>2, <3>1, <3>2 DEF NoWorse
  <2>3. CASE ~(staked' > staked)
    <3> SUFFICES ASSUME near * Q <= S * l PROVE NoWorse(S, Q, staked', total_supply')
      BY <2>1, <2>3 DEF NoWorse
    <3>1. staked' = S - near /\ total_supply' = Q - l
      BY <1>1, <2>1, <2>3 DEF AtOldRate
    <3> QED BY <3>1, TakenBack
  <2> QED BY <2>2, <2>3
<1>2. IInv /\ [Next]_vars =>
        [\A s \in Active :
           LET c         == chains[s]
               rate_kept == staked' * total_supply >= staked * total_supply'
           IN  AtOldRate(s) =>
                 IF staked' > staked
                 THEN rate_kept \/ staked' * c.lst >= c.near * total_supply'
                 ELSE c.near * total_supply <= staked * c.lst => rate_kept]_vars
  BY <1>1
<1> QED
  BY <1>2, Invariance, PTL DEF Spec, OldQuotesBoundRate

=============================================================================
