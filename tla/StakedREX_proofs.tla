--------------------------- MODULE StakedREX_proofs ---------------------------
(***************************************************************************)
(* Proofs about StakedREXHistory, for every set of users, every period,    *)
(* rate, amount and bound.  First the arithmetic of the code: the division *)
(* of Solidity, the weighted average of two cooldowns, the distribution    *)
(* index.  Then the inductive invariant, action by action, and what        *)
(* follows from it: also that redeem in the window and a transfer meet     *)
(* every check of the code.  Last, stkREX is the token of StakeLedger.     *)
(***************************************************************************)
EXTENDS StakedREXHistory, SumTheorems

------------------------------------------------------------------------------
(* Arithmetic *)

\* Integer division: the quotient and what it leaves
LEMMA Quotient ==
  ASSUME NEW x \in Nat, NEW d \in Nat, d # 0
  PROVE  x \div d \in Nat /\ d * (x \div d) <= x /\ x < d * (x \div d) + d
OBVIOUS

LEMMA CancelFactor ==
  ASSUME NEW x \in Int, NEW y \in Int, NEW d \in Nat, d * x < d * y
  PROVE  x < y
OBVIOUS

\* A quotient lies between the integers its dividend lies between.
LEMMA QuotientBetween ==
  ASSUME NEW x \in Nat, NEW d \in Nat, d # 0, NEW low \in Nat, NEW high \in Nat,
         d * low <= x, x <= d * high
  PROVE  low <= x \div d /\ x \div d <= high
<1>. DEFINE q == x \div d
<1>1. q \in Nat /\ d * q <= x /\ x < d * q + d
  BY Quotient
<1>. HIDE DEF q
<1>2. d * low < d * (q + 1)
  BY <1>1
<1>3. d * q < d * (high + 1)
  BY <1>1
<1>4. low < q + 1 /\ q < high + 1
  BY <1>1, <1>2, <1>3, CancelFactor
<1>. QED
  BY <1>1, <1>4 DEF q

\* The weighted average of getNextCooldownTimestamp lies between its two times.
LEMMA AverageBetween ==
  ASSUME NEW m \in Nat, NEW n \in Nat, m + n # 0,
         NEW from \in Nat, NEW to \in Nat, to <= from
  PROVE  LET average == (m * from + n * to) \div (m + n)
         IN  average \in Nat /\ to <= average /\ average <= from
<1>1. m * to <= m * from /\ n * to <= n * from
  OBVIOUS
<1>2. (m + n) * to = m * to + n * to /\ (m + n) * from = m * from + n * from
  OBVIOUS
<1>3. (m + n) * to <= m * from + n * to /\ m * from + n * to <= (m + n) * from
  BY <1>1, <1>2
<1>4. m * from + n * to \in Nat /\ m + n \in Nat
  OBVIOUS
<1>. QED
  BY <1>3, <1>4, Quotient, QuotientBetween

------------------------------------------------------------------------------
(* The distribution index *)

\* The time that counts for the emission does not go back.
LEMMA UpToEndGrows ==
  ASSUME NEW t1 \in Nat, NEW t2 \in Nat, t1 <= t2
  PROVE  UpToEnd(t2) - UpToEnd(t1) \in Nat
BY EndAssumption DEF UpToEnd

\* The index never goes back when the clock does not.
LEMMA IndexGrows ==
  ASSUME NEW a \in AssetData(User), NEW total \in Nat, NEW t \in Nat,
         a.lastUpdateTimestamp <= t
  PROVE  getAssetIndex(a, total, t) \in Nat /\ a.index <= getAssetIndex(a, total, t)
<1>. USE UnitAssumption, EndAssumption
<1>. DEFINE last == a.lastUpdateTimestamp
            rate == a.emissionPerSecond
<1>0. last \in Nat /\ rate \in Nat /\ a.index \in Nat
  BY DEF AssetData
<1>1. CASE rate = 0 \/ total = 0 \/ last = t \/ last >= DISTRIBUTION_END
  BY <1>0, <1>1 DEF getAssetIndex
<1>2. CASE ~(rate = 0 \/ total = 0 \/ last = t \/ last >= DISTRIBUTION_END)
  <2>1. UpToEnd(t) - last \in Nat
    BY <1>0, <1>2 DEF UpToEnd
  <2>2. rate * (UpToEnd(t) - last) \in Nat
    BY <2>1, <1>0
  <2>3. rate * (UpToEnd(t) - last) * UNIT \in Nat
    BY <2>2
  <2>4. (rate * (UpToEnd(t) - last) * UNIT) \div total \in Nat
    BY <2>3, <1>2, Quotient
  <2>. QED
    BY <1>0, <1>2, <2>4 DEF getAssetIndex
<1>. QED
  BY <1>1, <1>2

\* What _updateUserAssetInternal leaves is again asset data, taken at t, with
\* every user's index at most the asset's.
LEMMA UpdateKeepsOrder ==
  ASSUME NEW a \in AssetData(User), NEW us \in SUBSET User, NEW staked, NEW total \in Nat,
         NEW t \in Nat, a.lastUpdateTimestamp <= t,
         \A u \in User : a.users[u] <= a.index
  PROVE  LET b == updateUsers(a, us, staked, total, t)
             c == updateAssetState(a, total, t)
         IN  /\ b \in AssetData(User) /\ c \in AssetData(User)
             /\ b.lastUpdateTimestamp <= t /\ c.lastUpdateTimestamp <= t
             /\ \A u \in User : b.users[u] <= b.index /\ c.users[u] <= c.index
             /\ \A u \in User : a.users[u] <= c.index
<1>. DEFINE b == updateUsers(a, us, staked, total, t)
            c == updateAssetState(a, total, t)
<1>1. getAssetIndex(a, total, t) \in Nat /\ a.index <= getAssetIndex(a, total, t)
  BY IndexGrows
<1>2. /\ c \in AssetData(User)
      /\ c.lastUpdateTimestamp = t
      /\ c.users = a.users
      /\ a.index <= c.index
  <2>1. CASE t = a.lastUpdateTimestamp
    BY <2>1 DEF updateAssetState, AssetData
  <2>2. CASE t # a.lastUpdateTimestamp
    <3>. DEFINE i == getAssetIndex(a, total, t)
    <3>1. c = [a EXCEPT !.index = i, !.lastUpdateTimestamp = t]
      BY <2>2 DEF updateAssetState
    <3>. HIDE DEF i, c
    <3>2. i \in Nat /\ a.index <= i
      BY <1>1 DEF i
    <3>. QED
      BY <3>1, <3>2 DEF AssetData
  <2>. QED
    BY <2>1, <2>2
<1>. HIDE DEF c
<1>3. /\ a.users \in [User -> Nat] /\ a.index \in Nat
      /\ c.users \in [User -> Nat] /\ c.index \in Nat
  BY <1>2 DEF AssetData
<1>4. /\ b = [c EXCEPT !.users = [u \in User |-> IF u \in us THEN c.index ELSE c.users[u]]]
  BY <1>3 DEF updateUsers, c
<1>5. b \in AssetData(User)
  BY <1>2, <1>3, <1>4 DEF AssetData
<1>6. b.index = c.index /\ b.lastUpdateTimestamp = t
      /\ \A u \in User : b.users[u] = IF u \in us THEN c.index ELSE c.users[u]
  BY <1>2, <1>4 DEF AssetData
<1>7. \A u \in User : c.users[u] <= c.index /\ a.users[u] <= c.index
  BY <1>2, <1>3
<1>. QED
  BY <1>2, <1>3, <1>5, <1>6, <1>7 DEF c

\* Accrued rewards are a number: no reward is taken away by an update.
LEMMA RewardsAreNat ==
  ASSUME NEW a \in AssetData(User), NEW u \in User, NEW staked \in [User -> Nat],
         NEW total \in Nat, NEW t \in Nat, a.lastUpdateTimestamp <= t,
         \A v \in User : a.users[v] <= a.index
  PROVE  accruedRewards(a, u, staked, total, t) \in Nat
<1>. DEFINE c == updateAssetState(a, total, t)
<1>1. c \in AssetData(User) /\ a.users[u] <= c.index
  BY UpdateKeepsOrder
<1>. HIDE DEF c
<1>2. c.index - a.users[u] \in Nat
  BY <1>1 DEF AssetData
<1>3. staked[u] * (c.index - a.users[u]) \in Nat
  BY <1>2
<1>. QED
  BY <1>3, UnitAssumption, Quotient DEF accruedRewards, getRewards, c

------------------------------------------------------------------------------
(* The cooldown arithmetic *)

\* Whatever the recipient gets and from whom, his cooldown moves later, never
\* beyond now, or is cleared; it is cleared if and only if it was not running.
LEMMA CooldownMovesLater ==
  ASSUME TypeOK, \A u \in User : stakersCooldowns[u] <= now, NEW to \in User, NEW fromCooldown \in Nat, fromCooldown <= now,
         NEW amount \in Nat,
         TakesAverage(fromCooldown, to) => amount + balances[to] # 0
  PROVE  LET c == getNextCooldownTimestamp(fromCooldown, amount, to, balances[to])
         IN  /\ c \in 0 .. now
             /\ c # 0 => stakersCooldowns[to] # 0 /\ stakersCooldowns[to] <= c
             /\ c # 0 <=> Alive(stakersCooldowns[to])
<1>. DEFINE own == stakersCooldowns[to]
            from == InheritedCooldown(fromCooldown)
            c == getNextCooldownTimestamp(fromCooldown, amount, to, balances[to])
<1>1. own \in Nat /\ balances[to] \in Nat /\ now \in Nat /\ own <= now
  BY TimeAssumption DEF TypeOK
<1>2. from \in Nat /\ from <= now
  BY <1>1, PeriodsAssumption DEF InheritedCooldown
<1>3. CASE own = 0 \/ Expired(own)
  BY <1>1, <1>3 DEF getNextCooldownTimestamp, Alive
<1>4. CASE ~(own = 0 \/ Expired(own)) /\ ~TakesAverage(fromCooldown, to)
  BY <1>1, <1>4 DEF getNextCooldownTimestamp, Alive
<1>5. CASE TakesAverage(fromCooldown, to)
  <2>1. own # 0 /\ ~Expired(own) /\ own <= from /\ amount + balances[to] # 0
    BY <1>1, <1>2, <1>5 DEF TakesAverage
  <2>2. c = (amount * from + balances[to] * own) \div (amount + balances[to])
    BY <2>1, <1>5 DEF getNextCooldownTimestamp
  <2>. HIDE DEF own, from, c
  <2>3. c \in Nat /\ own <= c /\ c <= from
    BY <1>1, <1>2, <2>1, <2>2, AverageBetween
  <2>4. c \in 0 .. now
    BY <2>3, <1>1, <1>2
  <2>. QED
    BY <1>1, <2>1, <2>3, <2>4 DEF own, c, Alive
<1>. QED
  BY <1>3, <1>4, <1>5

LEMMA NextCooldownLater ==
  ASSUME IInv, NEW to \in User, NEW fromCooldown \in Nat, fromCooldown <= now,
         NEW amount \in Nat,
         TakesAverage(fromCooldown, to) => amount + balances[to] # 0
  PROVE  LET c == getNextCooldownTimestamp(fromCooldown, amount, to, balances[to])
         IN  /\ c \in 0 .. now
             /\ c # 0 => stakersCooldowns[to] # 0 /\ stakersCooldowns[to] <= c
             /\ c # 0 <=> Alive(stakersCooldowns[to])
<1>1. TypeOK /\ \A u \in User : stakersCooldowns[u] <= now
  BY TimeAssumption DEF IInv, HTypeOK, TypeOK, CooldownIsOwn
<1>. QED
  BY <1>1, CooldownMovesLater

------------------------------------------------------------------------------
(* The parts the actions share *)

\* _updateCurrentUnclaimedRewards keeps the types and the order of the indexes.
LEMMA UpdateRewardsKeeps ==
  ASSUME IInv, NEW us \in SUBSET User, UpdateRewards(us), now' = now
  PROVE  /\ asset' \in AssetData(User)
         /\ stakerRewardsToClaim' \in [User -> Nat]
         /\ IndexesInOrder'
<1>. USE TimeAssumption DEF IInv, HTypeOK, TypeOK, IndexesInOrder
<1>1. now \in Nat
  OBVIOUS
<1>2. /\ asset' = updateUsers(asset, us, balances, totalSupply, now)
      /\ asset' \in AssetData(User)
      /\ asset'.lastUpdateTimestamp <= now
      /\ \A u \in User : asset'.users[u] <= asset'.index
  BY <1>1, UpdateKeepsOrder DEF UpdateRewards
<1>3. \A u \in User : accruedRewards(asset, u, balances, totalSupply, now) \in Nat
  BY <1>1, RewardsAreNat
<1>4. stakerRewardsToClaim' \in [User -> Nat]
  BY <1>3 DEF UpdateRewards
<1>. QED
  BY <1>2, <1>4

\* The history keeps its types while the clock does not go back.
LEMMA RecordKeeps ==
  ASSUME IInv, NEW us \in SUBSET User, NEW payment \in Nat, Record(us, payment),
         now' \in Nat, now <= now'
  PROVE  /\ activated' \in [User -> 0 .. MaxTime]
         /\ emitted' \in Nat
         /\ paid' \in Nat
<1>. USE TimeAssumption, EndAssumption DEF IInv, HTypeOK, TypeOK, Record
<1>0. now \in Nat
  OBVIOUS
<1>1. UpToEnd(now') - UpToEnd(now) \in Nat
  BY <1>0, UpToEndGrows
<1>2. asset.emissionPerSecond \in Nat
  BY DEF AssetData
<1>3. Emission(now, now') \in Nat
  BY <1>1, <1>2 DEF Emission
<1>4. activated' \in [User -> 0 .. MaxTime]
  BY DEF Activations
<1>. QED
  BY <1>3, <1>4

\* Moving what the sender has keeps balances natural.
LEMMA MoveKeeps ==
  ASSUME NEW S, NEW token \in [S -> Nat], NEW from \in S, NEW to \in S,
         NEW amount \in Nat, amount <= token[from]
  PROVE  Move(token, from, to, amount) \in [S -> Nat]
BY DEF Move

------------------------------------------------------------------------------
(* The inductive invariant, one lemma per action *)

LEMMA InitHolds == HInit => IInv
BY TimeAssumption, InputsAssumption
   DEF HInit, Init, IInv, HTypeOK, TypeOK, IndexesInOrder, CooldownIsOwn, AssetData,
       NoAssetData

\* The recipient's cooldown moves later or is void, the others' stay; nobody's
\* balance shrinks.
LEMMA StakeKeeps == ASSUME IInv, HStake PROVE IInv'
<1>. USE TimeAssumption, InputsAssumption DEF IInv, HTypeOK, TypeOK
<1>1. PICK payer \in User, onBehalfOf \in User, amount \in Amounts :
        stake(payer, onBehalfOf, amount) /\ Record({}, 0)
  BY DEF HStake
<1>2. amount \in Nat /\ amount # 0 /\ now \in Nat /\ now' = now
  BY <1>1 DEF stake
<1>3. asset' \in AssetData(User) /\ stakerRewardsToClaim' \in [User -> Nat] /\ IndexesInOrder'
  BY <1>1, <1>2, UpdateRewardsKeeps DEF stake
<1>4. activated' \in [User -> 0 .. MaxTime] /\ emitted' \in Nat /\ paid' \in Nat
  BY <1>1, <1>2, RecordKeeps
<1>5. balances' \in [User -> Nat] /\ totalSupply' \in Nat
  BY <1>1, <1>2 DEF stake, Mint
<1>6. rex' \in [RexAccount -> Nat]
  BY <1>1, <1>2, MoveKeeps DEF stake, RexAccount
<1>. DEFINE c == getNextCooldownTimestamp(0, amount, onBehalfOf, balances[onBehalfOf])
<1>7. /\ c \in 0 .. now
      /\ c # 0 => stakersCooldowns[onBehalfOf] # 0 /\ stakersCooldowns[onBehalfOf] <= c
  BY <1>2, NextCooldownLater
<1>8. stakersCooldowns' = [stakersCooldowns EXCEPT ![onBehalfOf] = c]
  BY <1>1 DEF stake
<1>. HIDE DEF c
<1>9. stakersCooldowns' \in [User -> 0 .. MaxTime]
  BY <1>7, <1>8
<1>10. CooldownIsOwn'
  <2>1. \A u \in User : balances[u] <= balances'[u] /\ balances[u] \in Nat
    BY <1>1, <1>2 DEF stake, Mint
  <2>2. \A u \in User : balances[u] # 0 => activated'[u] = activated[u]
    BY <1>1, <2>1, <1>5 DEF Record, Activations
  <2>. QED
    BY <1>2, <1>5, <1>7, <1>8, <2>1, <2>2 DEF CooldownIsOwn
<1>. QED
  BY <1>1, <1>2, <1>3, <1>4, <1>5, <1>6, <1>9, <1>10

\* A position that becomes empty loses its cooldown.
LEMMA RedeemKeeps == ASSUME IInv, HRedeem PROVE IInv'
<1>. USE TimeAssumption, InputsAssumption DEF IInv, HTypeOK, TypeOK
<1>1. PICK u \in User, to \in Recipients, amount \in Amounts :
        redeem(u, to, amount) /\ Record({}, 0)
  BY DEF HRedeem
<1>. DEFINE out == amountToRedeem(u, amount)
<1>2. now \in Nat /\ now' = now /\ out \in Nat /\ out <= balances[u]
      /\ out <= totalSupply /\ out <= rex[StakeContract]
  BY <1>1 DEF redeem, Burn, amountToRedeem
<1>3. asset' \in AssetData(User) /\ stakerRewardsToClaim' \in [User -> Nat] /\ IndexesInOrder'
  BY <1>1, <1>2, UpdateRewardsKeeps DEF redeem
<1>4. activated' \in [User -> 0 .. MaxTime] /\ emitted' \in Nat /\ paid' \in Nat
  BY <1>1, <1>2, RecordKeeps
<1>5. /\ balances' = [balances EXCEPT ![u] = @ - out]
      /\ totalSupply' = totalSupply - out
      /\ rex' = Move(rex, StakeContract, to, out)
      /\ stakersCooldowns' = IF balances[u] - out = 0 THEN [stakersCooldowns EXCEPT ![u] = 0]
                             ELSE stakersCooldowns
  BY <1>1 DEF redeem, Burn, CooldownsAfterRedeem
<1>. HIDE DEF out
<1>6. balances' \in [User -> Nat] /\ totalSupply' \in Nat
  BY <1>2, <1>5
<1>7. rex' \in [RexAccount -> Nat]
  BY <1>2, <1>5, MoveKeeps DEF RexAccount
<1>8. stakersCooldowns' \in [User -> 0 .. MaxTime]
  BY <1>5
<1>9. CooldownIsOwn'
  BY <1>1, <1>2, <1>5, <1>6 DEF CooldownIsOwn, Record, Activations
<1>. QED
  BY <1>2, <1>3, <1>4, <1>6, <1>7, <1>8, <1>9

\* cooldown() is the caller's own activation, at now.
LEMMA CooldownKeeps == ASSUME IInv, HCooldown PROVE IInv'
<1>. USE TimeAssumption DEF IInv, HTypeOK, TypeOK
<1>1. PICK u \in User : cooldown(u) /\ Record({u}, 0)
  BY DEF HCooldown
<1>2. now \in Nat /\ now # 0 /\ now' = now /\ balances[u] # 0
  BY <1>1, PeriodsAssumption DEF cooldown
<1>3. activated' \in [User -> 0 .. MaxTime] /\ emitted' \in Nat /\ paid' \in Nat
  BY <1>1, <1>2, RecordKeeps
<1>4. TypeOK' /\ IndexesInOrder'
  BY <1>1 DEF cooldown, IndexesInOrder
<1>5. CooldownIsOwn'
  BY <1>1, <1>2 DEF cooldown, CooldownIsOwn, Record, Activations
<1>. QED
  BY <1>3, <1>4, <1>5

\* A claim pays at most what has accrued; positions and cooldowns stay.
LEMMA ClaimKeeps == ASSUME IInv, HClaim PROVE IInv'
<1>. USE TimeAssumption, InputsAssumption DEF IInv, HTypeOK, TypeOK
<1>1. PICK u \in User, to \in Recipients, amount \in Amounts \cup {UINT_MAX} :
        claimRewards(u, to, amount) /\ Record({}, amountToClaim(u, amount))
  BY DEF HClaim
<1>2. now \in Nat /\ now' = now
  BY <1>1 DEF claimRewards
<1>3. asset' \in AssetData(User) /\ IndexesInOrder'
  BY <1>1, <1>2, UpdateKeepsOrder DEF claimRewards, IndexesInOrder
<1>4. unclaimedRewards(u) \in Nat
  <2>1. accruedRewards(asset, u, balances, totalSupply, now) \in Nat
    BY <1>2, RewardsAreNat DEF IndexesInOrder
  <2>. QED
    BY <2>1 DEF unclaimedRewards
<1>5. amountToClaim(u, amount) \in Nat
  BY <1>4 DEF amountToClaim
<1>6. activated' \in [User -> 0 .. MaxTime] /\ emitted' \in Nat /\ paid' \in Nat
  BY <1>1, <1>2, <1>5, RecordKeeps
<1>7. stakerRewardsToClaim' \in [User -> Nat]
  BY <1>1, <1>4, <1>5 DEF claimRewards
<1>8. rex' \in [RexAccount -> Nat]
  BY <1>1, <1>5, MoveKeeps DEF claimRewards, RexAccount
<1>9. CooldownIsOwn'
  BY <1>1, <1>2 DEF claimRewards, CooldownIsOwn, Record, Activations
<1>. QED
  BY <1>1, <1>2, <1>3, <1>6, <1>7, <1>8, <1>9 DEF claimRewards
\* A transfer moves the recipient's cooldown later or voids it, and clears the
\* sender's with his last token.
LEMMA TransferKeeps == ASSUME IInv, HTransfer PROVE IInv'
<1>. USE TimeAssumption, InputsAssumption DEF IInv, HTypeOK, TypeOK
<1>1. PICK from \in User, to \in User, amount \in Amounts :
        transfer(from, to, amount) /\ Record({}, 0)
  BY DEF HTransfer
<1>2. /\ amount \in Nat /\ amount <= balances[from]
      /\ now \in Nat /\ now' = now
      /\ totalSupply' = totalSupply /\ rex' = rex
  BY <1>1 DEF transfer
<1>3. asset' \in AssetData(User) /\ stakerRewardsToClaim' \in [User -> Nat] /\ IndexesInOrder'
  BY <1>1, <1>2, UpdateRewardsKeeps DEF transfer
<1>4. activated' \in [User -> 0 .. MaxTime] /\ emitted' \in Nat /\ paid' \in Nat
  BY <1>1, <1>2, RecordKeeps
<1>5. balances' = Move(balances, from, to, amount) /\ balances' \in [User -> Nat]
  BY <1>1, <1>2, MoveKeeps DEF transfer
<1>6. CASE from = to
  <2>1. balances' = balances /\ stakersCooldowns' = stakersCooldowns
    BY <1>1, <1>2, <1>5, <1>6 DEF Move, transfer, CooldownsAfterTransfer
  <2>2. CooldownIsOwn'
    BY <1>1, <1>2, <2>1 DEF CooldownIsOwn, Record, Activations
  <2>. QED
    BY <1>2, <1>3, <1>4, <2>1, <2>2
<1>7. CASE from # to
  <2>. DEFINE c == getNextCooldownTimestamp(stakersCooldowns[from], amount, to, balances[to])
  <2>1. stakersCooldowns[from] \in Nat /\ stakersCooldowns[from] <= now
    BY <1>2 DEF CooldownIsOwn
  <2>2. /\ c \in 0 .. now
        /\ c # 0 => stakersCooldowns[to] # 0 /\ stakersCooldowns[to] <= c
    BY <1>1, <1>2, <1>7, <2>1, NextCooldownLater DEF transfer
  <2>3. stakersCooldowns' =
          [stakersCooldowns EXCEPT ![to] = c,
                                   ![from] = IF balances[from] = amount THEN 0 ELSE @]
    BY <1>1, <1>7 DEF transfer, CooldownsAfterTransfer
  <2>. HIDE DEF c
  <2>4. stakersCooldowns' \in [User -> 0 .. MaxTime]
    BY <2>2, <2>3
  <2>5. CooldownIsOwn'
    <3>. SUFFICES ASSUME NEW u \in User, stakersCooldowns'[u] # 0
                  PROVE  /\ balances'[u] # 0
                         /\ activated'[u] # 0
                         /\ activated'[u] <= stakersCooldowns'[u]
                         /\ stakersCooldowns'[u] <= now
      BY <1>2 DEF CooldownIsOwn
    <3>1. balances'[u] # 0 => activated'[u] = activated[u]
      BY <1>1 DEF Record, Activations
    <3>2. CASE u = from
      BY <1>2, <1>5, <1>7, <2>1, <2>3, <3>1, <3>2 DEF Move, CooldownIsOwn
    <3>3. CASE u = to
      BY <1>2, <1>5, <1>7, <2>2, <2>3, <3>1, <3>3 DEF Move, CooldownIsOwn
    <3>4. CASE u # from /\ u # to
      BY <1>2, <1>5, <2>3, <3>1, <3>4 DEF Move, CooldownIsOwn
    <3>. QED
      BY <3>2, <3>3, <3>4
  <2>. QED
    BY <1>2, <1>3, <1>4, <1>5, <2>4, <2>5
<1>. QED
  BY <1>6, <1>7

\* The manager's total may be any number: the index still does not go back.
LEMMA ConfigureKeeps == ASSUME IInv, HConfigure PROVE IInv'
<1>. USE TimeAssumption, InputsAssumption DEF IInv, HTypeOK, TypeOK
<1>1. PICK e \in Emissions, total \in TotalStakedInputs \cup {totalSupply} :
        configureAssets(e, total) /\ Record({}, 0)
  BY DEF HConfigure
<1>. DEFINE c == updateAssetState(asset, total, now)
<1>2. e \in Nat /\ total \in Nat /\ now \in Nat
  OBVIOUS
<1>3. c \in AssetData(User) /\ c.lastUpdateTimestamp <= now /\ \A u \in User : c.users[u] <= c.index
  BY <1>2, UpdateKeepsOrder DEF IndexesInOrder
<1>4. asset' = [c EXCEPT !.emissionPerSecond = e] /\ now' = now
  BY <1>1 DEF configureAssets
<1>. HIDE DEF c
<1>5. asset' \in AssetData(User) /\ IndexesInOrder'
  BY <1>2, <1>3, <1>4 DEF AssetData, IndexesInOrder
<1>6. activated' \in [User -> 0 .. MaxTime] /\ emitted' \in Nat /\ paid' \in Nat
  BY <1>1, <1>2, <1>4, RecordKeeps
<1>7. CooldownIsOwn'
  BY <1>1 DEF configureAssets, CooldownIsOwn, Record, Activations
<1>. QED
  BY <1>1, <1>5, <1>6, <1>7 DEF configureAssets

LEMMA TickKeeps == ASSUME IInv, HTick PROVE IInv'
<1>. USE TimeAssumption DEF IInv, HTypeOK, TypeOK, HTick, tick
<1>1. now \in Nat /\ now' \in Nat /\ now <= now' /\ now' \in StartTime .. MaxTime
  OBVIOUS
<1>2. activated' \in [User -> 0 .. MaxTime] /\ emitted' \in Nat /\ paid' \in Nat
  BY <1>1, RecordKeeps
<1>3. IndexesInOrder'
  BY <1>1 DEF IndexesInOrder, AssetData
<1>4. CooldownIsOwn'
  BY <1>1 DEF CooldownIsOwn, Record, Activations
<1>. QED
  BY <1>1, <1>2, <1>3, <1>4

LEMMA StutterKeeps == ASSUME IInv, UNCHANGED hvars PROVE IInv'
BY DEF hvars, IInv, HTypeOK, TypeOK, IndexesInOrder, CooldownIsOwn

LEMMA NextKeeps == IInv /\ [HNext]_hvars => IInv'
BY StakeKeeps, RedeemKeeps, CooldownKeeps, ClaimKeeps, TransferKeeps, ConfigureKeeps,
   TickKeeps, StutterKeeps
   DEF HNext

\* The inductive invariant holds in every reachable state.
THEOREM InductiveInvariant == HSpec => []IInv
BY InitHolds, NextKeeps, PTL DEF HSpec
------------------------------------------------------------------------------
(* What follows *)

\* Every variable keeps its type: no sub of the reward accounting or of the
\* tokens goes below zero, no averaged cooldown leaves the clock's range.
THEOREM TypeCorrect == HSpec => []HTypeOK
BY InductiveInvariant, PTL DEF IInv

\* The indexes of all users stay behind the asset's.
THEOREM IndexesStayInOrder == HSpec => []IndexesInOrder
BY InductiveInvariant, PTL DEF IInv

\* A running cooldown is its owner's, asked for on his present position.
THEOREM CooldownStaysOwn == HSpec => []CooldownIsOwn
BY InductiveInvariant, PTL DEF IInv

\* README.md:67: whoever withdraws has respected a cooldown period.
THEOREM WithdrawalRespectsCooldown == HSpec => RedeemRespectsCooldown
<1>. USE TimeAssumption, PeriodsAssumption, InputsAssumption DEF IInv, HTypeOK, TypeOK
<1>1. ASSUME IInv, HRedeem PROVE WithdrawalIsDue
  <2>1. PICK u \in User, to \in Recipients, amount \in Amounts : redeem(u, to, amount)
    BY <1>1 DEF HRedeem
  <2>. DEFINE out == amountToRedeem(u, amount)
  <2>2. out \in Nat /\ balances' = [balances EXCEPT ![u] = @ - out] /\ totalSupply' = totalSupply - out
    BY <1>1, <2>1 DEF redeem, Burn, amountToRedeem
  <2>. HIDE DEF out
  <2>3. totalSupply' < totalSupply => balances'[u] < balances[u]
    BY <1>1, <2>2
  <2>4. stakersCooldowns[u] # 0 /\ now > stakersCooldowns[u] + COOLDOWN_SECONDS
    BY <1>1, <2>1 DEF redeem, InUnstakeWindow, CooldownOver, WindowNotFinished
  <2>5. activated[u] # 0 /\ now > activated[u] + COOLDOWN_SECONDS
    BY <1>1, <2>4 DEF CooldownIsOwn
  <2>. QED
    BY <2>3, <2>5 DEF WithdrawalIsDue
<1>2. ASSUME IInv, HStake PROVE WithdrawalIsDue
  BY <1>2 DEF HStake, stake, Mint, WithdrawalIsDue
<1>3. ASSUME IInv, HCooldown \/ HClaim \/ HTransfer \/ HConfigure \/ HTick \/ UNCHANGED hvars
      PROVE  WithdrawalIsDue
  <2>1. totalSupply' = totalSupply
    BY <1>3 DEF HCooldown, HClaim, HTransfer, HConfigure, HTick, cooldown, claimRewards,
                transfer, configureAssets, tick, hvars
  <2>. QED
    BY <1>3, <2>1 DEF WithdrawalIsDue
<1>4. IInv /\ [HNext]_hvars => [WithdrawalIsDue]_hvars
  BY <1>1, <1>2, <1>3 DEF HNext
<1>. QED
  BY InductiveInvariant, <1>4, PTL DEF HSpec, RedeemRespectsCooldown

\* README.md:67: movements of funds affect a cooldown only negatively.
THEOREM MovementsOnlyWorsenCooldown == HSpec => CooldownOnlyWorsens
<1>. USE TimeAssumption, PeriodsAssumption, InputsAssumption DEF IInv, HTypeOK, TypeOK
<1>. DEFINE Others == \A u \in User : ActivatesCooldown(u) \/ Worsens(u)
\* It is enough to look at the new cooldown, at an unmoved clock.
<1>1. ASSUME IInv, now' = now, NEW u \in User,
             stakersCooldowns'[u] # 0 =>
               stakersCooldowns[u] <= stakersCooldowns'[u] /\ Alive(stakersCooldowns[u]),
             Alive(stakersCooldowns[u]) /\ balances'[u] # 0 => stakersCooldowns'[u] # 0
      PROVE  Worsens(u)
  BY <1>1 DEF Worsens, Alive
\* A cooldown that is not written at all, whatever the clock does
<1>2. ASSUME IInv, NEW u \in User, stakersCooldowns'[u] = stakersCooldowns[u],
             now' \in Nat, now <= now'
      PROVE  Worsens(u)
  BY <1>2 DEF Worsens, Alive, Expired, minimalValidCooldownTimestamp
<1>3. ASSUME IInv, HStake PROVE Others
  <2>1. PICK payer \in User, onBehalfOf \in User, amount \in Amounts :
          stake(payer, onBehalfOf, amount)
    BY <1>3 DEF HStake
  <2>. DEFINE c == getNextCooldownTimestamp(0, amount, onBehalfOf, balances[onBehalfOf])
  <2>2. /\ c # 0 => stakersCooldowns[onBehalfOf] # 0 /\ stakersCooldowns[onBehalfOf] <= c
        /\ c # 0 <=> Alive(stakersCooldowns[onBehalfOf])
    BY <1>3, <2>1, NextCooldownLater DEF stake
  <2>3. now' = now /\ stakersCooldowns' = [stakersCooldowns EXCEPT ![onBehalfOf] = c]
    BY <2>1 DEF stake
  <2>. HIDE DEF c
  <2>4. Worsens(onBehalfOf)
    BY <1>1, <1>3, <2>2, <2>3
  <2>5. \A u \in User \ {onBehalfOf} : Worsens(u)
    BY <1>2, <1>3, <2>3
  <2>. QED
    BY <2>4, <2>5
<1>4. ASSUME IInv, HRedeem PROVE Others
  <2>1. PICK u \in User, to \in Recipients, amount \in Amounts : redeem(u, to, amount)
    BY <1>4 DEF HRedeem
  <2>. DEFINE out == amountToRedeem(u, amount)
  <2>2. /\ out \in Nat /\ now' = now
        /\ balances' = [balances EXCEPT ![u] = @ - out]
        /\ stakersCooldowns' = IF balances[u] - out = 0 THEN [stakersCooldowns EXCEPT ![u] = 0]
                               ELSE stakersCooldowns
    BY <1>4, <2>1 DEF redeem, Burn, amountToRedeem, CooldownsAfterRedeem
  <2>. HIDE DEF out
  <2>3. CASE balances[u] - out = 0
    <3>1. stakersCooldowns'[u] = 0 /\ balances'[u] = 0
      BY <1>4, <2>2, <2>3
    <3>2. Worsens(u)
      BY <1>1, <1>4, <2>2, <3>1
    <3>3. \A v \in User \ {u} : Worsens(v)
      BY <1>2, <1>4, <2>2
    <3>. QED
      BY <3>2, <3>3
  <2>4. CASE balances[u] - out # 0
    BY <1>2, <1>4, <2>2, <2>4
  <2>. QED
    BY <2>3, <2>4
<1>5. ASSUME IInv, HTransfer PROVE Others
  <2>1. PICK from \in User, to \in User, amount \in Amounts : transfer(from, to, amount)
    BY <1>5 DEF HTransfer
  <2>2. now' = now /\ amount \in Nat /\ amount <= balances[from]
    BY <2>1 DEF transfer
  <2>3. CASE from = to
    <3>1. stakersCooldowns' = stakersCooldowns
      BY <2>1, <2>3 DEF transfer, CooldownsAfterTransfer
    <3>. QED
      BY <1>2, <1>5, <2>2, <3>1
  <2>4. CASE from # to
    <3>. DEFINE c == getNextCooldownTimestamp(stakersCooldowns[from], amount, to, balances[to])
    <3>1. stakersCooldowns[from] \in Nat /\ stakersCooldowns[from] <= now
      BY <1>5 DEF CooldownIsOwn
    <3>2. /\ c # 0 => stakersCooldowns[to] # 0 /\ stakersCooldowns[to] <= c
          /\ c # 0 <=> Alive(stakersCooldowns[to])
      BY <1>5, <2>1, <2>2, <2>4, <3>1, NextCooldownLater DEF transfer
    <3>3. /\ stakersCooldowns' =
               [stakersCooldowns EXCEPT ![to] = c,
                                        ![from] = IF balances[from] = amount THEN 0 ELSE @]
          /\ balances' = Move(balances, from, to, amount)
      BY <2>1, <2>4 DEF transfer, CooldownsAfterTransfer
    <3>. HIDE DEF c
    <3>4. Worsens(to)
      BY <1>1, <1>5, <2>2, <2>4, <3>2, <3>3
    <3>5. CASE balances[from] = amount
      <4>1. stakersCooldowns'[from] = 0 /\ balances'[from] = 0
        BY <1>5, <2>4, <3>3, <3>5 DEF Move
      <4>. QED
        BY <1>1, <1>2, <1>5, <2>2, <3>3, <3>4, <4>1
    <3>6. CASE balances[from] # amount
      BY <1>2, <1>5, <2>2, <3>3, <3>4, <3>6
    <3>. QED
      BY <3>5, <3>6
  <2>. QED
    BY <2>3, <2>4
<1>6. ASSUME IInv, HCooldown PROVE Others
  <2>1. PICK u \in User : cooldown(u)
    BY <1>6 DEF HCooldown
  <2>2. ActivatesCooldown(u)
    BY <1>6, <2>1 DEF cooldown, ActivatesCooldown
  <2>3. \A v \in User \ {u} : Worsens(v)
    BY <1>2, <1>6, <2>1 DEF cooldown
  <2>. QED
    BY <2>2, <2>3
<1>7. ASSUME IInv, HClaim \/ HConfigure \/ HTick PROVE Others
  <2>0. now \in Nat
    BY <1>7
  <2>1. stakersCooldowns' = stakersCooldowns /\ (now' = now \/ now' = now + 1)
    BY <1>7 DEF HClaim, HConfigure, HTick, claimRewards, configureAssets, tick
  <2>. QED
    BY <1>2, <1>7, <2>0, <2>1
<1>8. IInv /\ [HNext]_hvars => [Others]_hvars
  BY <1>3, <1>4, <1>5, <1>6, <1>7 DEF HNext
<1>. QED
  BY InductiveInvariant, <1>8, PTL DEF HSpec, CooldownOnlyWorsens

------------------------------------------------------------------------------
(* The tokens *)

\* The sums of the model run over all users.
LEMMA SumOverUsers ==
  ASSUME NEW f, DOMAIN f = User
  PROVE  SumFunction(f) = SumFunctionOnSet(f, User)
BY DEF SumFunction

\* A token moved from one account to another (or the same) stays somebody's.
LEMMA MoveKeepsSum ==
  ASSUME NEW token \in [User -> Nat], NEW from \in User, NEW to \in User,
         NEW amount \in Nat, amount <= token[from]
  PROVE  SumFunction(Move(token, from, to, amount)) = SumFunction(token)
<1>. DEFINE moved == Move(token, from, to, amount)
<1>1. moved \in [User -> Nat]
  BY MoveKeeps
<1>2. \A z \in User \ {from, to} : moved[z] = token[z]
  BY DEF Move
<1>3. IF from = to THEN moved[from] = token[from]
      ELSE moved[from] + moved[to] = token[from] + token[to]
  <2>1. CASE from = to
    <3>. DEFINE less == [token EXCEPT ![from] = token[from] - amount]
    <3>1. moved = [less EXCEPT ![from] = less[from] + amount]
      BY <2>1 DEF Move
    <3>2. from \in DOMAIN less /\ less[from] = token[from] - amount /\ token[from] \in Nat
      OBVIOUS
    <3>. HIDE DEF less, moved
    <3>3. moved[from] = less[from] + amount
      BY <3>1, <3>2
    <3>. QED  BY <2>1, <3>2, <3>3
  <2>2. CASE from # to
    <3>1. moved[from] = token[from] - amount /\ moved[to] = token[to] + amount
      BY <2>2 DEF Move
    <3>2. token[from] \in Nat /\ token[to] \in Nat
      OBVIOUS
    <3>. HIDE DEF moved
    <3>. QED  BY <2>2, <3>1, <3>2
  <2>. QED  BY <2>1, <2>2
<1>4. \A z \in User : token[z] \in Int /\ moved[z] \in Int
  BY <1>1
<1>. HIDE DEF moved
<1>5. SumFunctionOnSet(moved, User) = SumFunctionOnSet(token, User)
  BY <1>2, <1>3, <1>4, FiniteUsersAssumption, SumTransfer
<1>6. DOMAIN moved = User /\ DOMAIN token = User
  BY <1>1
<1>. QED
  BY <1>5, <1>6, SumOverUsers DEF moved

\* A balance that changes changes the sum by as much.
LEMMA ChangedBalanceSum ==
  ASSUME NEW token \in [User -> Nat], NEW u \in User, NEW v \in Nat
  PROVE  SumFunction([token EXCEPT ![u] = v]) = SumFunction(token) + (v - token[u])
<1>. DEFINE changed == [token EXCEPT ![u] = v]
<1>1. /\ \A z \in User : token[z] \in Int /\ changed[z] \in Int
      /\ \A z \in User \ {u} : changed[z] = token[z]
      /\ changed[u] = v
      /\ DOMAIN changed = User /\ DOMAIN token = User
  OBVIOUS
<1>. HIDE DEF changed
<1>2. SumFunctionOnSet(changed, User) = SumFunctionOnSet(token, User) + (changed[u] - token[u])
  BY <1>1, FiniteUsersAssumption, SumChange
<1>. QED
  BY <1>1, <1>2, SumOverUsers DEF changed

LEMMA StakeKeepsBacked == ASSUME IInv, Backed, HStake PROVE Backed'
<1>. USE InputsAssumption DEF IInv, HTypeOK, TypeOK, Backed
<1>1. PICK payer \in User, onBehalfOf \in User, amount \in Amounts :
        stake(payer, onBehalfOf, amount)
  BY DEF HStake
<1>2. /\ amount \in Nat /\ amount <= rex[payer]
      /\ balances' = [balances EXCEPT ![onBehalfOf] = balances[onBehalfOf] + amount]
      /\ totalSupply' = totalSupply + amount
      /\ rex' = Move(rex, payer, StakeContract, amount)
  BY <1>1 DEF stake, Mint
<1>. DEFINE v == balances[onBehalfOf] + amount
<1>3. SumFunction(balances') = SumFunction(balances) + (v - balances[onBehalfOf])
  <2>1. v \in Nat /\ balances' = [balances EXCEPT ![onBehalfOf] = v]
    BY <1>2
  <2>. HIDE DEF v
  <2>. QED  BY <2>1, ChangedBalanceSum
<1>4. rex'[StakeContract] = rex[StakeContract] + amount
  BY <1>2, AccountsAssumption DEF Move, RexAccount
<1>5. rex[StakeContract] \in Nat
  BY DEF RexAccount
<1>. QED
  BY <1>2, <1>3, <1>4, <1>5

LEMMA RedeemKeepsBacked == ASSUME IInv, Backed, HRedeem PROVE Backed'
<1>. USE InputsAssumption DEF IInv, HTypeOK, TypeOK, Backed
<1>1. PICK u \in User, to \in Recipients, amount \in Amounts : redeem(u, to, amount)
  BY DEF HRedeem
<1>. DEFINE out == amountToRedeem(u, amount)
<1>2. /\ out \in Nat /\ out <= balances[u]
      /\ balances' = [balances EXCEPT ![u] = balances[u] - out]
      /\ totalSupply' = totalSupply - out
      /\ rex' = Move(rex, StakeContract, to, out)
  BY <1>1 DEF redeem, Burn, amountToRedeem
<1>. HIDE DEF out
<1>3. balances[u] - out \in Nat
  BY <1>2
<1>4. SumFunction(balances') = SumFunction(balances) + ((balances[u] - out) - balances[u])
  BY <1>2, <1>3, ChangedBalanceSum
<1>5. rex'[StakeContract] >= rex[StakeContract] - out /\ rex[StakeContract] \in Nat
      /\ rex'[StakeContract] \in Int
  BY <1>2 DEF Move, RexAccount
<1>. QED
  BY <1>2, <1>4, <1>5

LEMMA ClaimKeepsBacked == ASSUME IInv, Backed, HClaim PROVE Backed'
<1>. USE InputsAssumption DEF IInv, HTypeOK, TypeOK, Backed
<1>1. PICK u \in User, to \in Recipients, amount \in Amounts \cup {UINT_MAX} :
        claimRewards(u, to, amount) /\ Record({}, amountToClaim(u, amount))
  BY DEF HClaim
<1>. DEFINE out == amountToClaim(u, amount)
<1>2. /\ out <= rex[RewardsVault]
      /\ rex' = Move(rex, RewardsVault, to, out)
      /\ balances' = balances /\ totalSupply' = totalSupply
  BY <1>1 DEF claimRewards
<1>3. out \in Nat
  <2>1. now \in Nat
    BY TimeAssumption
  <2>2. accruedRewards(asset, u, balances, totalSupply, now) \in Nat
    BY <2>1, RewardsAreNat DEF IndexesInOrder
  <2>. QED
    BY <2>2 DEF unclaimedRewards, amountToClaim
<1>. HIDE DEF out
<1>4. rex'[StakeContract] >= rex[StakeContract] /\ rex[StakeContract] \in Nat
      /\ rex'[StakeContract] \in Int
  BY <1>2, <1>3, AccountsAssumption DEF Move, RexAccount
<1>. QED
  BY <1>2, <1>4

LEMMA TransferKeepsBacked == ASSUME IInv, Backed, HTransfer PROVE Backed'
<1>. USE InputsAssumption DEF IInv, HTypeOK, TypeOK, Backed
<1>1. PICK from \in User, to \in User, amount \in Amounts : transfer(from, to, amount)
  BY DEF HTransfer
<1>2. /\ amount \in Nat /\ amount <= balances[from]
      /\ balances' = Move(balances, from, to, amount)
      /\ totalSupply' = totalSupply /\ rex' = rex
  BY <1>1 DEF transfer
<1>. QED
  BY <1>2, MoveKeepsSum

LEMMA NextKeepsBacked == IInv /\ Backed /\ [HNext]_hvars => Backed'
<1>1. ASSUME Backed, HCooldown \/ HConfigure \/ HTick \/ UNCHANGED hvars PROVE Backed'
  BY <1>1 DEF HCooldown, HConfigure, HTick, cooldown, configureAssets, tick, hvars, Backed
<1>. QED
  BY <1>1, StakeKeepsBacked, RedeemKeepsBacked, ClaimKeepsBacked, TransferKeepsBacked DEF HNext

\* Each stkREX is somebody's and backed by a REX in the contract, for any
\* number of users and amounts: no mint, burn, move or claim creates or loses
\* a token, a transfer to oneself and a payment to the contract included.
THEOREM EveryTokenBacked == HSpec => []Backed
<1>1. HInit => Backed
  <2>. SUFFICES ASSUME HInit PROVE Backed
    OBVIOUS
  <2>1. /\ balances = [u \in User |-> 0] /\ DOMAIN balances = User
        /\ totalSupply = 0 /\ rex[StakeContract] \in Nat
    BY InputsAssumption DEF HInit, Init, RexAccount
  <2>2. SumFunction(balances) = 0
    BY <2>1, FiniteUsersAssumption, SumOverUsers, SumZero
  <2>. QED
    BY <2>1, <2>2 DEF Backed
<1>. QED
  BY <1>1, InductiveInvariant, NextKeepsBacked, PTL DEF HSpec

------------------------------------------------------------------------------
(* The rewards: what is owed *)

\* What the users a lists are owed at the index i, scaled by UNIT: what is
\* credited to them and what still accrues.
Owed(a, b, credited, i) ==
  SumFunctionOnSet([u \in User |-> UNIT * credited[u] + b[u] * (i - a.users[u])], User)

\* It is the sum the invariants speak of.
LEMMA OwedSplits ==
  ASSUME NEW a \in AssetData(User), NEW b \in [User -> Nat], NEW credited \in [User -> Nat],
         NEW i \in Nat
  PROVE  /\ Owed(a, b, credited, i) = UNIT * SumFunction(credited) + Accruing(a, b, i)
         /\ Owed(a, b, credited, i) \in Int
         /\ SumFunction(credited) \in Nat
         /\ Accruing(a, b, i) \in Int
<1>. DEFINE f == [u \in User |-> credited[u] * UNIT]
            g == [u \in User |-> b[u] * (i - a.users[u])]
            h == [u \in User |-> UNIT * credited[u] + b[u] * (i - a.users[u])]
<1>1. UNIT \in Nat /\ a.users \in [User -> Nat]
  BY UnitAssumption DEF AssetData
<1>2. \A u \in User : f[u] \in Int /\ g[u] \in Int /\ h[u] = f[u] + g[u]
  <2>1. SUFFICES ASSUME NEW u \in User PROVE f[u] \in Int /\ g[u] \in Int /\ h[u] = f[u] + g[u]
    OBVIOUS
  <2>2. credited[u] * UNIT \in Int /\ b[u] * (i - a.users[u]) \in Int
        /\ UNIT * credited[u] = credited[u] * UNIT
    BY <1>1
  <2>. QED  BY <2>2
<1>3. \A u \in User : credited[u] \in Int /\ f[u] = credited[u] * UNIT
  OBVIOUS
<1>4. /\ DOMAIN credited = User /\ DOMAIN g = User
      /\ Owed(a, b, credited, i) = SumFunctionOnSet(h, User)
      /\ Accruing(a, b, i) = SumFunction(g)
  BY DEF Owed, Accruing
<1>. HIDE DEF f, g, h
<1>5. SumFunctionOnSet(h, User) = SumFunctionOnSet(f, User) + SumFunctionOnSet(g, User)
  BY <1>2, FiniteUsersAssumption, SumAdd
<1>6. SumFunctionOnSet(f, User) = SumFunctionOnSet(credited, User) * UNIT
  BY <1>1, <1>3, FiniteUsersAssumption, SumScale
<1>7. SumFunctionOnSet(credited, User) \in Nat /\ SumFunctionOnSet(g, User) \in Int
  BY <1>2, FiniteUsersAssumption, SumNat, SumInt
<1>8. SumFunction(credited) = SumFunctionOnSet(credited, User)
      /\ Accruing(a, b, i) = SumFunctionOnSet(g, User)
  BY <1>4, SumOverUsers
<1>. QED
  BY <1>1, <1>4, <1>5, <1>6, <1>7, <1>8

\* When the index moves, each staked token earns the difference.
LEMMA OwedAtOtherIndex ==
  ASSUME NEW a \in AssetData(User), NEW b \in [User -> Nat], NEW credited \in [User -> Nat],
         NEW i \in Nat, NEW j \in Nat
  PROVE  Owed(a, b, credited, j) = Owed(a, b, credited, i) + SumFunction(b) * (j - i)
<1>. DEFINE f == [u \in User |-> UNIT * credited[u] + b[u] * (i - a.users[u])]
            g == [u \in User |-> b[u] * (j - i)]
            h == [u \in User |-> UNIT * credited[u] + b[u] * (j - a.users[u])]
<1>1. UNIT \in Nat /\ a.users \in [User -> Nat] /\ j - i \in Int
  BY UnitAssumption DEF AssetData
<1>2. \A u \in User : f[u] \in Int /\ g[u] \in Int /\ h[u] = f[u] + g[u]
  <2>1. SUFFICES ASSUME NEW u \in User PROVE f[u] \in Int /\ g[u] \in Int /\ h[u] = f[u] + g[u]
    OBVIOUS
  <2>2. /\ UNIT * credited[u] \in Int
        /\ b[u] * (i - a.users[u]) \in Int /\ b[u] * (j - i) \in Int
        /\ b[u] * (j - a.users[u]) = b[u] * (i - a.users[u]) + b[u] * (j - i)
    BY <1>1
  <2>. QED  BY <2>2
<1>3. \A u \in User : b[u] \in Int /\ g[u] = b[u] * (j - i)
  OBVIOUS
<1>4. /\ DOMAIN b = User
      /\ Owed(a, b, credited, i) = SumFunctionOnSet(f, User)
      /\ Owed(a, b, credited, j) = SumFunctionOnSet(h, User)
  BY DEF Owed
<1>. HIDE DEF f, g, h
<1>5. SumFunctionOnSet(h, User) = SumFunctionOnSet(f, User) + SumFunctionOnSet(g, User)
  BY <1>2, FiniteUsersAssumption, SumAdd
<1>6. SumFunctionOnSet(g, User) = SumFunctionOnSet(b, User) * (j - i)
  BY <1>1, <1>3, FiniteUsersAssumption, SumScale
<1>. QED
  BY <1>4, <1>5, <1>6, SumOverUsers

\* What is owed does not grow when it does not for any user.
LEMMA OwedNoMore ==
  ASSUME NEW a \in AssetData(User), NEW b \in [User -> Nat], NEW credited \in [User -> Nat],
         NEW i \in Nat,
         NEW a2 \in AssetData(User), NEW b2 \in [User -> Nat], NEW credited2 \in [User -> Nat],
         NEW i2 \in Nat,
         \A u \in User : UNIT * credited2[u] + b2[u] * (i2 - a2.users[u])
                           <= UNIT * credited[u] + b[u] * (i - a.users[u])
  PROVE  Owed(a2, b2, credited2, i2) <= Owed(a, b, credited, i)
<1>. DEFINE f == [u \in User |-> UNIT * credited[u] + b[u] * (i - a.users[u])]
            g == [u \in User |-> UNIT * credited2[u] + b2[u] * (i2 - a2.users[u])]
<1>1. UNIT \in Nat /\ a.users \in [User -> Nat] /\ a2.users \in [User -> Nat]
  BY UnitAssumption DEF AssetData
<1>2. \A u \in User : f[u] \in Int /\ g[u] \in Int /\ g[u] <= f[u]
  <2>1. SUFFICES ASSUME NEW u \in User PROVE f[u] \in Int /\ g[u] \in Int /\ g[u] <= f[u]
    OBVIOUS
  <2>2. UNIT * credited[u] + b[u] * (i - a.users[u]) \in Int
        /\ UNIT * credited2[u] + b2[u] * (i2 - a2.users[u]) \in Int
    BY <1>1
  <2>. QED  BY <2>2
<1>. HIDE DEF f, g
<1>3. SumFunctionOnSet(g, User) <= SumFunctionOnSet(f, User)
  BY <1>2, FiniteUsersAssumption, SumMonotone
<1>. QED
  BY <1>3 DEF Owed, f, g

\* The index moves by at most the emission's share per staked token: Solidity's
\* division rounds down, and a larger total only makes the share smaller.
LEMMA IndexWithinEmission ==
  ASSUME NEW a \in AssetData(User), NEW supply \in Nat, NEW total \in Nat,
         total = 0 \/ supply <= total, NEW t \in Nat, a.lastUpdateTimestamp <= t
  PROVE  LET i == getAssetIndex(a, total, t)
             granted == IF supply = 0 THEN 0
                        ELSE a.emissionPerSecond * (UpToEnd(t) - UpToEnd(a.lastUpdateTimestamp))
         IN  i \in Nat /\ granted \in Nat /\ supply * (i - a.index) <= UNIT * granted
<1>. DEFINE i == getAssetIndex(a, total, t)
            last == a.lastUpdateTimestamp
            rate == a.emissionPerSecond
            seconds == UpToEnd(t) - UpToEnd(last)
            granted == IF supply = 0 THEN 0 ELSE rate * seconds
<1>. SUFFICES i \in Nat /\ granted \in Nat /\ supply * (i - a.index) <= UNIT * granted
  OBVIOUS
<1>1. last \in Nat /\ rate \in Nat /\ a.index \in Nat /\ UNIT \in Nat
  BY UnitAssumption DEF AssetData
<1>2. i \in Nat
  BY IndexGrows
<1>3. seconds \in Nat
  BY <1>1, UpToEndGrows
<1>4. rate * seconds \in Nat
  BY <1>1, <1>3
<1>5. granted \in Nat /\ UNIT * granted \in Nat
  <2>1. granted \in Nat
    BY <1>4
  <2>. HIDE DEF granted
  <2>. QED  BY <1>1, <2>1
<1>6. CASE supply = 0
  <2>1. granted = 0 /\ i - a.index \in Int
    BY <1>1, <1>2, <1>6
  <2>. HIDE DEF i, granted
  <2>. QED  BY <1>1, <1>2, <1>6, <2>1
<1>7. CASE i = a.index
  <2>1. i - a.index = 0
    BY <1>1, <1>7
  <2>2. supply * (i - a.index) = 0
    BY <2>1
  <2>. QED  BY <1>2, <1>5, <2>2
<1>8. CASE supply # 0 /\ i # a.index
  <2>1. ~(rate = 0 \/ total = 0 \/ last = t \/ last >= DISTRIBUTION_END)
    BY <1>8 DEF getAssetIndex
  <2>2. seconds = UpToEnd(t) - last
    BY <1>1, <2>1, EndAssumption DEF UpToEnd
  <2>. DEFINE x == rate * seconds * UNIT
              q == x \div total
  <2>3. i = a.index + q
    BY <2>1, <2>2 DEF getAssetIndex
  <2>4. x \in Nat /\ total # 0
    BY <1>1, <1>4, <2>1
  <2>5. x = UNIT * granted
    BY <1>1, <1>4, <1>8
  <2>. HIDE DEF x, i, granted, seconds
  <2>6. q \in Nat /\ total * q <= x
    BY <2>4, Quotient
  <2>. HIDE DEF q
  <2>7. i - a.index = q
    BY <1>1, <2>3, <2>6
  <2>8. supply * q <= total * q
    BY <2>1, <2>6
  <2>9. supply * q <= x
    <3>1. supply * q \in Nat /\ total * q \in Nat
      BY <2>6
    <3>. QED  BY <2>4, <2>6, <2>8, <3>1
  <2>. QED
    BY <1>2, <1>5, <2>5, <2>7, <2>9
<1>. QED
  BY <1>6, <1>7, <1>8

\* The index of the present is the one an update would store.
LEMMA IndexOfNow ==
  ASSUME NEW a \in AssetData(User), NEW total \in Nat, NEW t \in Nat
  PROVE  updateAssetState(a, total, t).index = getAssetIndex(a, total, t)
<1>1. CASE t = a.lastUpdateTimestamp
  BY <1>1 DEF updateAssetState, getAssetIndex
<1>2. CASE t # a.lastUpdateTimestamp
  <2>. DEFINE i == getAssetIndex(a, total, t)
  <2>1. updateAssetState(a, total, t) = [a EXCEPT !.index = i, !.lastUpdateTimestamp = t]
    BY <1>2 DEF updateAssetState
  <2>. HIDE DEF i
  <2>2. updateAssetState(a, total, t).index = i
    BY <2>1 DEF AssetData
  <2>. QED  BY <2>2 DEF i
<1>. QED
  BY <1>1, <1>2

\* At any index the emission manager may honestly cause now, everything owed
\* and paid is covered.
LEMMA CoveredNow ==
  ASSUME IInv, Backed, RewardsAccounted, NEW total \in Nat, total = 0 \/ totalSupply <= total
  PROVE  LET i == getAssetIndex(asset, total, now)
         IN  /\ i \in Nat
             /\ UNIT * paid + Owed(asset, balances, stakerRewardsToClaim, i) <= UNIT * emitted
<1>. DEFINE i == getAssetIndex(asset, total, now)
            granted == Emission(asset.lastUpdateTimestamp, now)
            credited == SumFunction(stakerRewardsToClaim)
            owed == Owed(asset, balances, stakerRewardsToClaim, asset.index)
            accruing == Accruing(asset, balances, asset.index)
<1>1. /\ now \in Nat /\ asset \in AssetData(User) /\ asset.lastUpdateTimestamp <= now
      /\ totalSupply \in Nat /\ paid \in Nat /\ emitted \in Nat /\ asset.index \in Nat
      /\ balances \in [User -> Nat] /\ stakerRewardsToClaim \in [User -> Nat]
      /\ UNIT \in Nat
  BY TimeAssumption, UnitAssumption DEF IInv, HTypeOK, TypeOK, IndexesInOrder, AssetData
<1>2. i \in Nat /\ granted \in Nat /\ totalSupply * (i - asset.index) <= UNIT * granted
  BY <1>1, IndexWithinEmission DEF Emission
<1>3. /\ owed = UNIT * credited + accruing
      /\ owed \in Int /\ credited \in Nat /\ accruing \in Int
  BY <1>1, OwedSplits
<1>4. Owed(asset, balances, stakerRewardsToClaim, i) = owed + totalSupply * (i - asset.index)
  <2>1. totalSupply = SumFunction(balances)
    BY DEF Backed
  <2>. HIDE DEF i
  <2>2. Owed(asset, balances, stakerRewardsToClaim, i)
          = owed + SumFunction(balances) * (i - asset.index)
    BY <1>1, <1>2, OwedAtOtherIndex
  <2>. QED  BY <2>1, <2>2
<1>5. UNIT * (paid + credited) + accruing + UNIT * granted <= UNIT * emitted
  BY DEF RewardsAccounted
<1>. HIDE DEF i, granted, credited, owed, accruing
<1>6. UNIT * (paid + credited) = UNIT * paid + UNIT * credited
  BY <1>1, <1>3
<1>7. /\ UNIT * paid \in Int /\ UNIT * credited \in Int /\ UNIT * granted \in Int
      /\ UNIT * emitted \in Int /\ totalSupply * (i - asset.index) \in Int
  BY <1>1, <1>2, <1>3
<1>8. UNIT * paid + owed + UNIT * granted <= UNIT * emitted
  BY <1>3, <1>5, <1>6, <1>7
<1>9. UNIT * paid + (owed + totalSupply * (i - asset.index)) <= UNIT * emitted
  BY <1>2, <1>3, <1>7, <1>8
<1>. QED
  BY <1>2, <1>4, <1>9 DEF i

------------------------------------------------------------------------------
(* The rewards: what each step does to what is owed *)

\* What an update of some users stores and credits: the index of the present.
UpdateGives(a, us, b, total, t) ==
  LET a2 == updateUsers(a, us, b, total, t)
      i  == getAssetIndex(a, total, t)
  IN  /\ a2 \in AssetData(User) /\ a2.index = i /\ a2.lastUpdateTimestamp = t
      /\ i \in Nat
      /\ \A u \in User :
           /\ a2.users[u] = IF u \in us THEN i ELSE a.users[u]
           /\ a.users[u] \in Nat /\ a.users[u] <= i
           /\ accruedRewards(a, u, b, total, t) = getRewards(b[u], i, a.users[u])

LEMMA UpdatedRecord ==
  ASSUME NEW a \in AssetData(User), NEW us \in SUBSET User, NEW b, NEW total \in Nat,
         NEW t \in Nat, a.lastUpdateTimestamp <= t, \A u \in User : a.users[u] <= a.index
  PROVE  UpdateGives(a, us, b, total, t)
<1>. DEFINE a2 == updateUsers(a, us, b, total, t)
            c  == updateAssetState(a, total, t)
            i  == getAssetIndex(a, total, t)
<1>2. /\ a2 \in AssetData(User) /\ c \in AssetData(User)
      /\ \A u \in User : a.users[u] <= c.index
  BY UpdateKeepsOrder
<1>3. c.index = i /\ i \in Nat
  BY IndexOfNow, IndexGrows
<1>4. c.lastUpdateTimestamp = t /\ c.users = a.users
  <2>1. CASE t = a.lastUpdateTimestamp
    BY <2>1 DEF updateAssetState
  <2>2. CASE t # a.lastUpdateTimestamp
    BY <2>2 DEF updateAssetState, AssetData
  <2>. QED  BY <2>1, <2>2
<1>5. a2 = [c EXCEPT !.users = [u \in DOMAIN c.users |-> IF u \in us THEN c.index ELSE c.users[u]]]
  BY DEF updateUsers
<1>6. \A u \in User : accruedRewards(a, u, b, total, t)
                        = getRewards(b[u], i, a.users[u])
  BY <1>3 DEF accruedRewards
<1>. HIDE DEF c, a2
<1>7. c.users \in [User -> Nat] /\ DOMAIN c.users = User
  BY <1>2 DEF AssetData
<1>8. /\ a2.index = i /\ a2.lastUpdateTimestamp = t
      /\ \A u \in User : a2.users[u] = IF u \in us THEN i ELSE a.users[u]
  BY <1>2, <1>3, <1>4, <1>5, <1>7 DEF AssetData
<1>9. \A u \in User : a.users[u] \in Nat /\ a.users[u] <= i
  BY <1>2, <1>3, <1>4, <1>7
<1>. QED
  BY <1>2, <1>3, <1>6, <1>8, <1>9 DEF a2, UpdateGives

LEMMA UpdatedAsset ==
  ASSUME IInv, NEW us \in SUBSET User
  PROVE  LET a2 == updateUsers(asset, us, balances, totalSupply, now)
             i  == getAssetIndex(asset, totalSupply, now)
         IN  /\ a2 \in AssetData(User) /\ a2.index = i /\ a2.lastUpdateTimestamp = now
             /\ i \in Nat
             /\ \A u \in User :
                  /\ a2.users[u] = IF u \in us THEN i ELSE asset.users[u]
                  /\ asset.users[u] \in Nat /\ asset.users[u] <= i
                  /\ accruedRewards(asset, u, balances, totalSupply, now)
                       = getRewards(balances[u], i, asset.users[u])
<1>1. /\ now \in Nat /\ asset \in AssetData(User) /\ asset.lastUpdateTimestamp <= now
      /\ totalSupply \in Nat
      /\ \A u \in User : asset.users[u] <= asset.index
  BY TimeAssumption DEF IInv, HTypeOK, TypeOK, IndexesInOrder
<1>2. UpdateGives(asset, us, balances, totalSupply, now)
  BY <1>1, UpdatedRecord
<1>. QED
  BY <1>2 DEF UpdateGives

\* An update of some users, their balances changed behind it, credits them at
\* most what accrued, and what they hold from now on has earned nothing yet.
LEMMA UpdateOwes ==
  ASSUME NEW a \in AssetData(User), NEW us \in SUBSET User,
         NEW b \in [User -> Nat], NEW credited \in [User -> Nat], NEW total \in Nat,
         NEW t \in Nat, a.lastUpdateTimestamp <= t, \A u \in User : a.users[u] <= a.index,
         NEW b2 \in [User -> Nat], \A u \in User \ us : b2[u] = b[u],
         NEW credited2 \in [User -> Nat],
         \A u \in User : credited2[u] =
           IF u \in us
           THEN credited[u] + accruedRewards(a, u, b, total, t)
           ELSE credited[u]
  PROVE  /\ UpdateGives(a, us, b, total, t)
         /\ Owed(updateUsers(a, us, b, total, t), b2, credited2, getAssetIndex(a, total, t))
              <= Owed(a, b, credited, getAssetIndex(a, total, t))
<1>. DEFINE a2 == updateUsers(a, us, b, total, t)
            i  == getAssetIndex(a, total, t)
<1>0. UpdateGives(a, us, b, total, t)
  BY UpdatedRecord
<1>1. UNIT \in Nat /\ UNIT # 0
  BY UnitAssumption
<1>2. /\ a2 \in AssetData(User) /\ a2.index = i /\ a2.lastUpdateTimestamp = t
      /\ i \in Nat
      /\ \A u \in User :
           /\ a2.users[u] = IF u \in us THEN i ELSE a.users[u]
           /\ a.users[u] \in Nat /\ a.users[u] <= i
           /\ accruedRewards(a, u, b, total, t)
                = getRewards(b[u], i, a.users[u])
  BY <1>0 DEF UpdateGives
<1>. HIDE DEF a2, i
<1>3. ASSUME NEW u \in User
      PROVE  UNIT * credited2[u] + b2[u] * (i - a2.users[u])
               <= UNIT * credited[u] + b[u] * (i - a.users[u])
  <2>1. CASE u \notin us
    <3>1. /\ credited2[u] = credited[u] /\ b2[u] = b[u]
          /\ a2.users[u] = a.users[u]
      BY <1>2, <2>1
    <3>2. UNIT * credited[u] + b[u] * (i - a.users[u]) \in Int
      <4>1. UNIT * credited[u] \in Int /\ i - a.users[u] \in Int
        BY <1>1, <1>2
      <4>. QED  BY <1>1, <4>1
    <3>. QED  BY <3>1, <3>2
  <2>2. CASE u \in us
    <3>. DEFINE x == b[u] * (i - a.users[u])
                q == x \div UNIT
                old == credited[u]
    <3>1. accruedRewards(a, u, b, total, t) = q
      BY <1>2 DEF getRewards
    <3>2. i - a.users[u] \in Nat
      BY <1>2
    <3>3. x \in Nat
      BY <1>1, <3>2
    <3>4. credited2[u] = old + q
      BY <2>2, <3>1
    <3>5. b2[u] * (i - a2.users[u]) = 0
      BY <1>1, <1>2, <2>2
    <3>6. old \in Nat
      BY <1>1
    <3>. HIDE DEF x
    <3>7. q \in Nat /\ UNIT * q <= x
      BY <1>1, <3>3, Quotient
    <3>. HIDE DEF q, old
    <3>8. UNIT * (old + q) = UNIT * old + UNIT * q
      BY <1>1, <3>6, <3>7
    <3>9. UNIT * old \in Int /\ UNIT * q \in Int
      BY <1>1, <3>6, <3>7
    <3>10. UNIT * credited2[u] + b2[u] * (i - a2.users[u]) <= UNIT * old + x
      BY <3>3, <3>4, <3>5, <3>7, <3>8, <3>9
    <3>. QED  BY <3>10 DEF x, old
  <2>. QED  BY <2>1, <2>2
<1>4. Owed(a2, b2, credited2, i) <= Owed(a, b, credited, i)
  BY <1>1, <1>2, <1>3, OwedNoMore
<1>. QED
  BY <1>0, <1>4 DEF a2, i

\* A user's credit that changes changes what is owed by as much.
LEMMA OwedAfterPayment ==
  ASSUME NEW a \in AssetData(User), NEW b \in [User -> Nat], NEW i \in Nat,
         NEW credited \in [User -> Nat], NEW credited2 \in [User -> Nat], NEW u \in User,
         \A w \in User \ {u} : credited2[w] = credited[w]
  PROVE  Owed(a, b, credited2, i) = Owed(a, b, credited, i) + UNIT * (credited2[u] - credited[u])
<1>. DEFINE s == SumFunction(credited)
            d == credited2[u] - credited[u]
<1>1. SumFunctionOnSet(credited2, User) = SumFunctionOnSet(credited, User) + d
  <2>1. \A w \in User : credited[w] \in Int /\ credited2[w] \in Int
    OBVIOUS
  <2>. QED  BY <2>1, FiniteUsersAssumption, SumChange
<1>2. SumFunction(credited2) = s + d
  BY <1>1, SumOverUsers
<1>3. /\ Owed(a, b, credited, i) = UNIT * s + Accruing(a, b, i)
      /\ s \in Nat /\ Accruing(a, b, i) \in Int
  BY OwedSplits
<1>. HIDE DEF s
<1>4. Owed(a, b, credited2, i) = UNIT * SumFunction(credited2) + Accruing(a, b, i)
  BY OwedSplits
<1>5. d \in Int /\ UNIT \in Nat
  BY UnitAssumption
<1>. HIDE DEF d
<1>6. UNIT * (s + d) = UNIT * s + UNIT * d
  BY <1>3, <1>5
<1>7. UNIT * s \in Int /\ UNIT * d \in Int
  BY <1>3, <1>5
<1>8. Owed(a, b, credited2, i) = Owed(a, b, credited, i) + UNIT * d
  BY <1>2, <1>3, <1>4, <1>6, <1>7
<1>. QED
  BY <1>8 DEF d

\* After a step that updates the asset nothing is pending.
LEMMA SettledIsAccounted ==
  ASSUME IInv', now' = now, asset'.lastUpdateTimestamp = now, emitted' = emitted,
         UNIT * paid' + Owed(asset', balances', stakerRewardsToClaim', asset'.index)
           <= UNIT * emitted
  PROVE  RewardsAccounted'
<1>. DEFINE credited == SumFunction(stakerRewardsToClaim')
            accruing == Accruing(asset', balances', asset'.index)
            owed == Owed(asset', balances', stakerRewardsToClaim', asset'.index)
<1>1. /\ now' \in Nat /\ asset' \in AssetData(User) /\ asset'.index \in Nat
      /\ asset'.emissionPerSecond \in Nat
      /\ balances' \in [User -> Nat] /\ stakerRewardsToClaim' \in [User -> Nat]
      /\ paid' \in Nat /\ emitted' \in Nat /\ UNIT \in Nat
  BY TimeAssumption, UnitAssumption DEF IInv, HTypeOK, TypeOK, AssetData
<1>2. owed = UNIT * credited + accruing /\ credited \in Nat /\ accruing \in Int
  BY <1>1, OwedSplits
<1>3. (Emission(asset.lastUpdateTimestamp, now))' = 0
  <2>1. UpToEnd(now') \in Nat
    BY <1>1, EndAssumption DEF UpToEnd
  <2>2. UpToEnd(now') - UpToEnd(now') = 0
    BY <2>1
  <2>3. asset'.lastUpdateTimestamp = now'
    OBVIOUS
  <2>. QED  BY <1>1, <2>2, <2>3 DEF Emission
<1>. HIDE DEF credited, accruing, owed
<1>4. UNIT * (paid' + credited) = UNIT * paid' + UNIT * credited
  BY <1>1, <1>2
<1>5. UNIT * paid' \in Int /\ UNIT * credited \in Int /\ UNIT * emitted \in Int
      /\ UNIT * 0 = 0
  BY <1>1, <1>2
<1>6. UNIT * paid' + owed <= UNIT * emitted
  BY DEF owed
<1>7. UNIT * (paid' + credited) + accruing + UNIT * 0 <= UNIT * emitted'
  BY <1>2, <1>4, <1>5, <1>6
<1>. QED
  BY <1>3, <1>7 DEF RewardsAccounted, credited, accruing

\* While the clock stands still nothing is emitted.
LEMMA NothingEmittedAtOnce ==
  ASSUME IInv, NEW us, NEW payment, Record(us, payment), now' = now
  PROVE  emitted' = emitted
<1>1. /\ UpToEnd(now) \in Nat /\ emitted \in Nat /\ asset.emissionPerSecond \in Nat
  BY TimeAssumption, EndAssumption DEF IInv, HTypeOK, TypeOK, AssetData, UpToEnd
<1>2. Emission(now, now') = 0
  BY <1>1 DEF Emission
<1>. QED
  BY <1>1, <1>2 DEF Record

\* stake, redeem and transfer: the users whose balances change are updated.
LEMMA UpdateIsAccounted ==
  ASSUME IInv, IInv', Backed, RewardsAccounted,
         NEW us \in SUBSET User, UpdateRewards(us), Record({}, 0), now' = now,
         \A u \in User \ us : balances'[u] = balances[u]
  PROVE  RewardsAccounted'
<1>. DEFINE i == getAssetIndex(asset, totalSupply, now)
<1>1. /\ totalSupply \in Nat /\ paid \in Nat /\ emitted \in Nat /\ UNIT \in Nat
      /\ balances \in [User -> Nat] /\ stakerRewardsToClaim \in [User -> Nat]
      /\ balances' \in [User -> Nat] /\ stakerRewardsToClaim' \in [User -> Nat]
      /\ asset \in AssetData(User) /\ now \in Nat /\ asset.lastUpdateTimestamp <= now
      /\ \A u \in User : asset.users[u] <= asset.index
  BY UnitAssumption, TimeAssumption DEF IInv, HTypeOK, TypeOK, IndexesInOrder
<1>2. i \in Nat /\ UNIT * paid + Owed(asset, balances, stakerRewardsToClaim, i) <= UNIT * emitted
  BY <1>1, CoveredNow
<1>3. /\ asset' = updateUsers(asset, us, balances, totalSupply, now)
      /\ \A u \in User : stakerRewardsToClaim'[u] =
           IF u \in us
           THEN stakerRewardsToClaim[u] + accruedRewards(asset, u, balances, totalSupply, now)
           ELSE stakerRewardsToClaim[u]
  BY DEF UpdateRewards
<1>4. /\ asset' \in AssetData(User) /\ asset'.index = i /\ asset'.lastUpdateTimestamp = now
      /\ Owed(asset', balances', stakerRewardsToClaim', i)
           <= Owed(asset, balances, stakerRewardsToClaim, i)
  <2>1. /\ UpdateGives(asset, us, balances, totalSupply, now)
        /\ Owed(asset', balances', stakerRewardsToClaim', i)
             <= Owed(asset, balances, stakerRewardsToClaim, i)
    BY <1>1, <1>3, UpdateOwes
  <2>. QED  BY <1>3, <2>1 DEF UpdateGives
<1>. HIDE DEF i
<1>5. emitted' = emitted /\ paid' = paid
  <2>1. emitted' = emitted
    BY NothingEmittedAtOnce
  <2>2. paid' = paid
    BY <1>1 DEF Record
  <2>. QED  BY <2>1, <2>2
<1>6. /\ Owed(asset, balances, stakerRewardsToClaim, i) \in Int
      /\ Owed(asset', balances', stakerRewardsToClaim', i) \in Int
      /\ UNIT * paid \in Int /\ UNIT * emitted \in Int
  BY <1>1, <1>2, <1>4, OwedSplits
<1>7. UNIT * paid' + Owed(asset', balances', stakerRewardsToClaim', asset'.index) <= UNIT * emitted
  BY <1>2, <1>4, <1>5, <1>6
<1>. QED
  BY <1>4, <1>5, <1>7, SettledIsAccounted

LEMMA StakeAccounted == ASSUME IInv, Backed, RewardsAccounted, HStake PROVE RewardsAccounted'
<1>1. PICK payer \in User, onBehalfOf \in User, amount \in Amounts :
        stake(payer, onBehalfOf, amount) /\ Record({}, 0)
  BY DEF HStake
<1>2. /\ UpdateRewards({onBehalfOf}) /\ now' = now
      /\ \A u \in User \ {onBehalfOf} : balances'[u] = balances[u]
  BY <1>1 DEF stake, Mint, IInv, HTypeOK, TypeOK
<1>3. {onBehalfOf} \in SUBSET User
  OBVIOUS
<1>4. IInv'
  BY StakeKeeps
<1>. QED
  BY <1>1, <1>2, <1>3, <1>4, UpdateIsAccounted

LEMMA RedeemAccounted == ASSUME IInv, Backed, RewardsAccounted, HRedeem PROVE RewardsAccounted'
<1>1. PICK u \in User, to \in Recipients, amount \in Amounts :
        redeem(u, to, amount) /\ Record({}, 0)
  BY DEF HRedeem
<1>2. /\ UpdateRewards({u}) /\ now' = now
      /\ \A v \in User \ {u} : balances'[v] = balances[v]
  BY <1>1 DEF redeem, Burn, IInv, HTypeOK, TypeOK
<1>3. {u} \in SUBSET User
  OBVIOUS
<1>4. IInv'
  BY RedeemKeeps
<1>. QED
  BY <1>1, <1>2, <1>3, <1>4, UpdateIsAccounted

LEMMA TransferAccounted == ASSUME IInv, Backed, RewardsAccounted, HTransfer PROVE RewardsAccounted'
<1>1. PICK from \in User, to \in User, amount \in Amounts :
        transfer(from, to, amount) /\ Record({}, 0)
  BY DEF HTransfer
<1>2. /\ UpdateRewards({from, to}) /\ now' = now
      /\ \A v \in User \ {from, to} : balances'[v] = balances[v]
  BY <1>1 DEF transfer, Move, IInv, HTypeOK, TypeOK
<1>3. {from, to} \in SUBSET User
  OBVIOUS
<1>4. IInv'
  BY TransferKeeps
<1>. QED
  BY <1>1, <1>2, <1>3, <1>4, UpdateIsAccounted

\* What is claimed was owed: it moves from one side to the other.
LEMMA ClaimAccounted == ASSUME IInv, Backed, RewardsAccounted, HClaim PROVE RewardsAccounted'
<1>1. PICK u \in User, to \in Recipients, amount \in Amounts \cup {UINT_MAX} :
        claimRewards(u, to, amount) /\ Record({}, amountToClaim(u, amount))
  BY DEF HClaim
<1>. DEFINE out == amountToClaim(u, amount)
            due == unclaimedRewards(u)
            i == getAssetIndex(asset, totalSupply, now)
            credited == [stakerRewardsToClaim EXCEPT ![u] = due]
<1>2. /\ totalSupply \in Nat /\ paid \in Nat /\ emitted \in Nat /\ UNIT \in Nat /\ now \in Nat
      /\ balances \in [User -> Nat] /\ stakerRewardsToClaim \in [User -> Nat]
      /\ asset \in AssetData(User) /\ asset.lastUpdateTimestamp <= now
      /\ \A v \in User : asset.users[v] <= asset.index
  BY UnitAssumption, TimeAssumption DEF IInv, HTypeOK, TypeOK, IndexesInOrder
<1>3. i \in Nat /\ UNIT * paid + Owed(asset, balances, stakerRewardsToClaim, i) <= UNIT * emitted
  BY <1>2, CoveredNow
<1>4. due \in Nat
  <2>1. accruedRewards(asset, u, balances, totalSupply, now) \in Nat
    BY <1>2, RewardsAreNat
  <2>. QED  BY <1>2, <2>1 DEF unclaimedRewards
<1>5. out \in Nat /\ out <= due
  BY <1>1, <1>2, <1>4, InputsAssumption DEF claimRewards, amountToClaim
<1>6. /\ asset' = updateUsers(asset, {u}, balances, totalSupply, now)
      /\ balances' = balances /\ now' = now
      /\ stakerRewardsToClaim' = [stakerRewardsToClaim EXCEPT ![u] = due - out]
  BY <1>1 DEF claimRewards
<1>7. credited \in [User -> Nat]
  BY <1>2, <1>4
<1>8. \A v \in User : credited[v] =
        IF v \in {u} THEN stakerRewardsToClaim[v] + accruedRewards(asset, v, balances, totalSupply, now)
        ELSE stakerRewardsToClaim[v]
  BY <1>2 DEF unclaimedRewards
<1>9. stakerRewardsToClaim' = [credited EXCEPT ![u] = due - out] /\ credited[u] = due
  BY <1>2, <1>6
<1>. HIDE DEF out, due, credited
<1>10. /\ asset' \in AssetData(User) /\ asset'.index = i /\ asset'.lastUpdateTimestamp = now
       /\ Owed(asset', balances, credited, i) <= Owed(asset, balances, stakerRewardsToClaim, i)
  <2>1. {u} \in SUBSET User /\ \A v \in User \ {u} : balances[v] = balances[v]
    OBVIOUS
  <2>2. /\ UpdateGives(asset, {u}, balances, totalSupply, now)
        /\ Owed(asset', balances, credited, i) <= Owed(asset, balances, stakerRewardsToClaim, i)
    BY <1>2, <1>6, <1>7, <1>8, <2>1, UpdateOwes
  <2>. QED  BY <1>6, <2>2 DEF UpdateGives
<1>. HIDE DEF i
<1>11. due - out \in Nat
  BY <1>4, <1>5
<1>12. Owed(asset', balances, stakerRewardsToClaim', i)
         = Owed(asset', balances, credited, i) + UNIT * ((due - out) - credited[u])
  <2>1. /\ asset' \in AssetData(User) /\ balances \in [User -> Nat] /\ i \in Nat
        /\ credited \in [User -> Nat]
    BY <1>2, <1>3, <1>7, <1>10
  <2>2. /\ stakerRewardsToClaim' \in [User -> Nat]
        /\ \A w \in User \ {u} : stakerRewardsToClaim'[w] = credited[w]
        /\ stakerRewardsToClaim'[u] = due - out
    BY <1>7, <1>9, <1>11
  <2>. QED  BY <2>1, <2>2, OwedAfterPayment
<1>13. emitted' = emitted /\ paid' = paid + out
  <2>1. emitted' = emitted
    BY <1>1, <1>6, NothingEmittedAtOnce
  <2>2. paid' = paid + out
    BY <1>1 DEF Record, out
  <2>. QED  BY <2>1, <2>2
<1>14. (due - out) - credited[u] = 0 - out
  BY <1>4, <1>5, <1>9
<1>15. UNIT * (paid + out) = UNIT * paid + UNIT * out /\ UNIT * (0 - out) = 0 - UNIT * out
  BY <1>2, <1>5
<1>16. /\ Owed(asset, balances, stakerRewardsToClaim, i) \in Int
       /\ Owed(asset', balances, credited, i) \in Int
       /\ UNIT * paid \in Int /\ UNIT * emitted \in Int /\ UNIT * out \in Int
  BY <1>2, <1>3, <1>5, <1>7, <1>10, OwedSplits
<1>17. UNIT * paid' + Owed(asset', balances', stakerRewardsToClaim', asset'.index) <= UNIT * emitted
  <2>1. Owed(asset', balances, stakerRewardsToClaim', i) = Owed(asset', balances, credited, i) - UNIT * out
    BY <1>12, <1>14, <1>15, <1>16
  <2>2. UNIT * paid' = UNIT * paid + UNIT * out
    BY <1>13, <1>15
  <2>. QED  BY <1>3, <1>6, <1>10, <1>16, <2>1, <2>2
<1>18. IInv'
  BY ClaimKeeps
<1>. QED
  BY <1>6, <1>10, <1>13, <1>17, <1>18, SettledIsAccounted

\* With a total that is not understated the index grows by no more than the
\* emission since the last update.
LEMMA ConfigureAccounted ==
  ASSUME IInv, Backed, RewardsAccounted, HConfigure, ~UnderstatedConfigure
  PROVE  RewardsAccounted'
<1>1. PICK e \in Emissions, total \in TotalStakedInputs \cup {totalSupply} :
        configureAssets(e, total) /\ Record({}, 0)
  BY DEF HConfigure
<1>2. /\ totalSupply \in Nat /\ paid \in Nat /\ emitted \in Nat /\ now \in Nat
      /\ asset \in AssetData(User) /\ asset.lastUpdateTimestamp <= now
      /\ balances \in [User -> Nat] /\ stakerRewardsToClaim \in [User -> Nat]
      /\ \A v \in User : asset.users[v] <= asset.index
      /\ total \in Nat /\ e \in Nat
  BY TimeAssumption, InputsAssumption DEF IInv, HTypeOK, TypeOK, IndexesInOrder
<1>3. total = 0 \/ totalSupply <= total
  BY <1>1, <1>2 DEF UnderstatedConfigure
<1>. DEFINE i == getAssetIndex(asset, total, now)
            c == updateAssetState(asset, total, now)
<1>4. i \in Nat /\ UNIT * paid + Owed(asset, balances, stakerRewardsToClaim, i) <= UNIT * emitted
  BY <1>2, <1>3, CoveredNow
<1>5. c \in AssetData(User) /\ c.index = i /\ c.lastUpdateTimestamp = now /\ c.users = asset.users
  <2>1. c.index = i /\ c \in AssetData(User)
    BY <1>2, IndexOfNow, UpdateKeepsOrder
  <2>2. CASE now = asset.lastUpdateTimestamp
    BY <2>1, <2>2 DEF updateAssetState
  <2>3. CASE now # asset.lastUpdateTimestamp
    BY <1>2, <2>1, <2>3 DEF updateAssetState, AssetData
  <2>. QED  BY <2>2, <2>3
<1>6. /\ asset' = [c EXCEPT !.emissionPerSecond = e] /\ now' = now
      /\ balances' = balances /\ stakerRewardsToClaim' = stakerRewardsToClaim
  BY <1>1 DEF configureAssets
<1>. HIDE DEF i, c
<1>7. asset'.index = i /\ asset'.lastUpdateTimestamp = now /\ asset'.users = asset.users
  BY <1>5, <1>6 DEF AssetData
<1>8. Owed(asset', balances', stakerRewardsToClaim', i)
        = Owed(asset, balances, stakerRewardsToClaim, i)
  BY <1>6, <1>7 DEF Owed
<1>9. emitted' = emitted /\ paid' = paid
  <2>1. emitted' = emitted
    BY <1>1, <1>6, NothingEmittedAtOnce
  <2>2. paid' = paid
    BY <1>1, <1>2 DEF Record
  <2>. QED  BY <2>1, <2>2
<1>10. IInv'
  BY ConfigureKeeps
<1>. QED
  BY <1>4, <1>6, <1>7, <1>8, <1>9, <1>10, SettledIsAccounted

\* A second that passes is emitted and pending alike.
LEMMA TickAccounted == ASSUME IInv, RewardsAccounted, HTick PROVE RewardsAccounted'
<1>1. /\ UNCHANGED <<balances, totalSupply, asset, stakerRewardsToClaim>>
      /\ Record({}, 0)
  BY DEF HTick, tick
<1>. DEFINE last == asset.lastUpdateTimestamp
            before == Emission(last, now)
            second == Emission(now, now')
            after == Emission(last, now')
            credited == SumFunction(stakerRewardsToClaim)
            accruing == Accruing(asset, balances, asset.index)
<1>2. /\ asset \in AssetData(User) /\ asset.index \in Nat /\ asset.emissionPerSecond \in Nat
      /\ last \in Nat /\ now \in Nat /\ now' \in Nat
      /\ balances \in [User -> Nat] /\ stakerRewardsToClaim \in [User -> Nat]
      /\ paid \in Nat /\ emitted \in Nat /\ UNIT \in Nat
  BY TimeAssumption, UnitAssumption DEF IInv, HTypeOK, TypeOK, AssetData, HTick, tick
<1>3. UpToEnd(last) \in Nat /\ UpToEnd(now) \in Nat /\ UpToEnd(now') \in Nat
  BY <1>2, EndAssumption DEF UpToEnd
<1>4. before \in Int /\ second \in Int /\ after = before + second
  BY <1>2, <1>3 DEF Emission
<1>5. credited \in Nat /\ accruing \in Int
  BY <1>2, OwedSplits
<1>6. UNIT * (paid + credited) + accruing + UNIT * before <= UNIT * emitted
  BY DEF RewardsAccounted
<1>7. paid' = paid /\ emitted' = emitted + second
  BY <1>1, <1>2 DEF Record
<1>8. (Emission(last, now))' = after
  BY <1>1 DEF Emission
<1>9. UNIT * (paid + credited) + accruing + UNIT * after <= UNIT * (emitted + second)
  <2>. HIDE DEF before, second, after, credited, accruing
  <2>1. UNIT * after = UNIT * before + UNIT * second
        /\ UNIT * (emitted + second) = UNIT * emitted + UNIT * second
    BY <1>2, <1>4
  <2>2. /\ UNIT * (paid + credited) \in Int /\ UNIT * before \in Int /\ UNIT * second \in Int
        /\ UNIT * emitted \in Int
    BY <1>2, <1>4, <1>5
  <2>. QED  BY <1>5, <1>6, <2>1, <2>2
<1>10. /\ SumFunction(stakerRewardsToClaim') = credited
       /\ Accruing(asset', balances', asset'.index) = accruing
  BY <1>1
<1>. HIDE DEF last, second, after, credited, accruing
<1>. QED
  BY <1>7, <1>8, <1>9, <1>10 DEF RewardsAccounted, last

LEMMA NextAccounted ==
  ASSUME IInv, Backed, RewardsAccounted, [HNext]_hvars, ~UnderstatedConfigure
  PROVE  RewardsAccounted'
<1>1. ASSUME HCooldown PROVE RewardsAccounted'
  <2>1. PICK u \in User : cooldown(u) /\ Record({u}, 0)
    BY <1>1 DEF HCooldown
  <2>2. /\ asset' = asset /\ balances' = balances /\ now' = now /\ totalSupply' = totalSupply
        /\ stakerRewardsToClaim' = stakerRewardsToClaim
    BY <2>1 DEF cooldown
  <2>3. emitted' = emitted
    BY <2>1, <2>2, NothingEmittedAtOnce
  <2>4. paid' = paid
    BY <2>1 DEF Record, IInv, HTypeOK
  <2>. QED  BY <2>2, <2>3, <2>4 DEF RewardsAccounted, Accruing, Emission
<1>2. ASSUME UNCHANGED hvars PROVE RewardsAccounted'
  BY <1>2 DEF hvars, RewardsAccounted, Accruing, Emission
<1>. QED
  BY <1>1, <1>2, StakeAccounted, RedeemAccounted, TransferAccounted, ClaimAccounted,
     ConfigureAccounted, TickAccounted DEF HNext

LEMMA InitAccounted == HInit => RewardsAccounted
<1>. SUFFICES ASSUME HInit PROVE RewardsAccounted
  OBVIOUS
<1>1. /\ balances = [u \in User |-> 0] /\ stakerRewardsToClaim = [u \in User |-> 0]
      /\ totalSupply = 0 /\ paid = 0 /\ emitted = 0 /\ asset.index = 0 /\ UNIT \in Nat
      /\ asset = NoAssetData(User)
  BY UnitAssumption DEF HInit, Init, NoAssetData
<1>. DEFINE f == [u \in User |-> balances[u] * (asset.index - asset.users[u])]
<1>2. \A u \in User : f[u] = 0
  BY <1>1 DEF NoAssetData
<1>3. DOMAIN f = User /\ DOMAIN stakerRewardsToClaim = User
  BY <1>1
<1>4. Accruing(asset, balances, asset.index) = SumFunction(f)
  BY DEF Accruing
<1>. HIDE DEF f
<1>5. Accruing(asset, balances, asset.index) = 0
  BY <1>2, <1>3, <1>4, FiniteUsersAssumption, SumOverUsers, SumZero
<1>6. SumFunction(stakerRewardsToClaim) = 0
  BY <1>1, <1>3, FiniteUsersAssumption, SumOverUsers, SumZero
<1>7. Emission(asset.lastUpdateTimestamp, now) = 0
  BY <1>1 DEF Emission
<1>8. UNIT * (0 + 0) + 0 + UNIT * 0 <= UNIT * 0
  BY <1>1
<1>. QED
  BY <1>1, <1>5, <1>6, <1>7, <1>8 DEF RewardsAccounted

\* What is accounted at the stored index covers the rewards of the present.
LEMMA AccountedCovers ==
  ASSUME IInv, Backed, RewardsAccounted PROVE EmissionCoversRewards
<1>. DEFINE i == getAssetIndex(asset, totalSupply, now)
            credited == SumFunction(stakerRewardsToClaim)
            accruing == Accruing(asset, balances, i)
<1>1. /\ totalSupply \in Nat /\ paid \in Nat /\ emitted \in Nat /\ UNIT \in Nat
      /\ balances \in [User -> Nat] /\ stakerRewardsToClaim \in [User -> Nat]
      /\ asset \in AssetData(User)
  BY UnitAssumption DEF IInv, HTypeOK, TypeOK
<1>2. i \in Nat /\ UNIT * paid + Owed(asset, balances, stakerRewardsToClaim, i) <= UNIT * emitted
  BY <1>1, CoveredNow
<1>3. accruing = SumFunction([u \in User |-> balances[u] * (i - asset.users[u])])
  BY DEF Accruing
<1>. HIDE DEF i
<1>4. /\ Owed(asset, balances, stakerRewardsToClaim, i) = UNIT * credited + accruing
      /\ credited \in Nat /\ accruing \in Int
  BY <1>1, <1>2, OwedSplits
<1>5. UNIT * (paid + credited) + accruing <= UNIT * emitted
  <2>. HIDE DEF credited, accruing
  <2>1. UNIT * (paid + credited) = UNIT * paid + UNIT * credited
    BY <1>1, <1>4
  <2>2. UNIT * paid \in Int /\ UNIT * credited \in Int
    BY <1>1, <1>4
  <2>. QED  BY <1>2, <1>4, <2>1, <2>2
<1>. HIDE DEF accruing
<1>. QED
  BY <1>3, <1>5 DEF EmissionCoversRewards, i, credited

\* No order of stakes, transfers, redeems, claims and late updates makes the
\* lazy indexes grant more than the emission, for any rates, amounts and number
\* of users - as long as the emission manager does not understate the total.
THEOREM EmissionCovers == HSpec /\ NeverUnderstated => []EmissionCoversRewards
<1>1. HInit => RewardsAccounted
  BY InitAccounted
<1>2. IInv /\ Backed /\ RewardsAccounted /\ [HNext]_hvars /\ [~UnderstatedConfigure]_hvars
        => RewardsAccounted'
  <2>1. ASSUME RewardsAccounted, UNCHANGED hvars PROVE RewardsAccounted'
    BY <2>1 DEF hvars, RewardsAccounted, Accruing, Emission
  <2>. QED  BY <2>1, NextAccounted
<1>3. HSpec /\ NeverUnderstated => []RewardsAccounted
  BY <1>1, <1>2, InductiveInvariant, EveryTokenBacked, PTL DEF HSpec, NeverUnderstated
<1>. QED
  BY <1>3, InductiveInvariant, EveryTokenBacked, AccountedCovers, PTL

------------------------------------------------------------------------------
(* The rewards: what a user is shown *)

LEMMA QuotientMonotone ==
  ASSUME NEW x \in Nat, NEW y \in Nat, x <= y, NEW d \in Nat, d # 0
  PROVE  x \div d <= y \div d
<1>. DEFINE p == x \div d
            q == y \div d
<1>1. /\ p \in Nat /\ d * p <= x
      /\ q \in Nat /\ y < d * q + d
  BY Quotient
<1>. HIDE DEF p, q
<1>2. d * p < d * (q + 1)
  BY <1>1
<1>3. p < q + 1
  BY <1>1, <1>2, CancelFactor
<1>. QED
  BY <1>1, <1>3 DEF p, q

\* A smaller divisor gives no smaller quotient.
LEMMA QuotientAntitone ==
  ASSUME NEW x \in Nat, NEW d \in Nat, NEW e \in Nat, d # 0, d <= e
  PROVE  x \div e <= x \div d
<1>. DEFINE p == x \div e
            q == x \div d
<1>1. /\ p \in Nat /\ e * p <= x
      /\ q \in Nat /\ x < d * q + d
  BY Quotient
<1>. HIDE DEF p, q
<1>2. d * p <= e * p
  BY <1>1
<1>3. d * p < d * (q + 1)
  <2>1. d * p \in Int /\ e * p \in Int /\ d * (q + 1) = d * q + d /\ d * q \in Int
    BY <1>1
  <2>. QED  BY <1>1, <1>2, <2>1
<1>4. p < q + 1
  BY <1>1, <1>3, CancelFactor
<1>. QED
  BY <1>1, <1>4 DEF p, q

\* The reward of a balance grows with the index.
LEMMA RewardsGrow ==
  ASSUME NEW b \in Nat, NEW x \in Nat, NEW i \in Nat, NEW j \in Nat, x <= i, i <= j
  PROVE  /\ getRewards(b, i, x) \in Nat /\ getRewards(b, j, x) \in Nat
         /\ getRewards(b, i, x) <= getRewards(b, j, x)
         /\ getRewards(b, x, x) = 0
<1>. DEFINE p == b * (i - x)
            q == b * (j - x)
<1>1. i - x \in Nat /\ j - x \in Nat /\ i - x <= j - x /\ x - x = 0
  OBVIOUS
<1>2. p \in Nat /\ q \in Nat /\ p <= q
  BY <1>1
<1>3. /\ getRewards(b, i, x) = p \div UNIT
      /\ getRewards(b, j, x) = q \div UNIT
  BY DEF getRewards
<1>4. b * (x - x) = 0
  BY <1>1
<1>. HIDE DEF p, q
<1>5. getRewards(b, x, x) = 0
  <2>1. 0 \div UNIT \in Nat /\ UNIT * (0 \div UNIT) <= 0 /\ UNIT \in Nat /\ UNIT # 0
    BY UnitAssumption, Quotient
  <2>. DEFINE z == 0 \div UNIT
  <2>2. getRewards(b, x, x) = z
    BY <1>4 DEF getRewards
  <2>. HIDE DEF z
  <2>3. z = 0
    BY <2>1 DEF z
  <2>. QED  BY <2>2, <2>3
<1>. QED
  BY <1>2, <1>3, <1>5, UnitAssumption, Quotient, QuotientMonotone

\* The index of a later time is no smaller, and the same once the distribution
\* has ended.
LEMMA IndexInTime ==
  ASSUME NEW a \in AssetData(User), NEW total \in Nat, NEW t \in Nat, NEW later \in Nat,
         a.lastUpdateTimestamp <= t, t <= later
  PROVE  /\ getAssetIndex(a, total, t) <= getAssetIndex(a, total, later)
         /\ t >= DISTRIBUTION_END =>
              getAssetIndex(a, total, later) = getAssetIndex(a, total, t)
<1>. DEFINE last == a.lastUpdateTimestamp
            rate == a.emissionPerSecond
            i == getAssetIndex(a, total, t)
            j == getAssetIndex(a, total, later)
            x == rate * (UpToEnd(t) - last) * UNIT
            y == rate * (UpToEnd(later) - last) * UNIT
<1>. USE EndAssumption
<1>1. /\ last \in Nat /\ rate \in Nat /\ a.index \in Nat /\ UNIT \in Nat
  BY UnitAssumption DEF AssetData
<1>2. i \in Nat /\ j \in Nat /\ a.index <= i /\ a.index <= j
  <2>1. last <= later
    BY <1>1
  <2>. QED  BY <2>1, IndexGrows
<1>3. CASE rate = 0 \/ total = 0 \/ last >= DISTRIBUTION_END
  BY <1>2, <1>3 DEF getAssetIndex
<1>4. CASE ~(rate = 0 \/ total = 0 \/ last >= DISTRIBUTION_END) /\ last = t
  <2>1. i = a.index /\ ~(t >= DISTRIBUTION_END)
    BY <1>4 DEF getAssetIndex
  <2>. QED  BY <1>2, <2>1
<1>5. CASE ~(rate = 0 \/ total = 0 \/ last >= DISTRIBUTION_END) /\ last # t
  <2>1. last # later
    BY <1>1, <1>5
  <2>2. i = a.index + x \div total /\ j = a.index + y \div total
    BY <1>5, <2>1 DEF getAssetIndex
  <2>3. /\ UpToEnd(t) - last \in Nat /\ UpToEnd(later) - last \in Nat
        /\ UpToEnd(t) - last <= UpToEnd(later) - last
        /\ t >= DISTRIBUTION_END => UpToEnd(t) = UpToEnd(later)
    BY <1>1, <1>5 DEF UpToEnd
  <2>4. /\ rate * (UpToEnd(t) - last) \in Nat /\ rate * (UpToEnd(later) - last) \in Nat
        /\ rate * (UpToEnd(t) - last) <= rate * (UpToEnd(later) - last)
    BY <1>1, <2>3
  <2>5. x \in Nat /\ y \in Nat /\ x <= y
    BY <1>1, <2>4
  <2>6. t >= DISTRIBUTION_END => x = y
    BY <2>3
  <2>. HIDE DEF x, y, i, j
  <2>7. x \div total <= y \div total /\ x \div total \in Nat /\ y \div total \in Nat
    BY <1>5, <2>5, Quotient, QuotientMonotone
  <2>8. i <= j
    BY <1>1, <2>2, <2>7
  <2>9. t >= DISTRIBUTION_END => i = j
    BY <2>2, <2>6
  <2>. QED  BY <2>8, <2>9 DEF i, j
<1>. QED
  BY <1>3, <1>4, <1>5

\* A larger total makes the index no larger.
LEMMA IndexInTotal ==
  ASSUME NEW a \in AssetData(User), NEW supply \in Nat, NEW total \in Nat, supply # 0,
         total = 0 \/ supply <= total, NEW t \in Nat, a.lastUpdateTimestamp <= t
  PROVE  getAssetIndex(a, total, t) <= getAssetIndex(a, supply, t)
<1>. DEFINE last == a.lastUpdateTimestamp
            rate == a.emissionPerSecond
            i == getAssetIndex(a, total, t)
            j == getAssetIndex(a, supply, t)
            x == rate * (UpToEnd(t) - last) * UNIT
<1>. USE EndAssumption
<1>1. /\ last \in Nat /\ rate \in Nat /\ a.index \in Nat /\ UNIT \in Nat
  BY UnitAssumption DEF AssetData
<1>2. i \in Nat /\ j \in Nat /\ a.index <= i /\ a.index <= j
  BY IndexGrows
<1>3. CASE rate = 0 \/ total = 0 \/ last = t \/ last >= DISTRIBUTION_END
  <2>1. i = a.index
    BY <1>3 DEF getAssetIndex
  <2>. QED  BY <1>2, <2>1
<1>4. CASE ~(rate = 0 \/ total = 0 \/ last = t \/ last >= DISTRIBUTION_END)
  <2>1. i = a.index + x \div total /\ j = a.index + x \div supply
    BY <1>4 DEF getAssetIndex
  <2>2. UpToEnd(t) - last \in Nat
    BY <1>1, <1>4 DEF UpToEnd
  <2>3. rate * (UpToEnd(t) - last) \in Nat
    BY <1>1, <2>2
  <2>4. x \in Nat
    BY <1>1, <2>3
  <2>. HIDE DEF x, i, j
  <2>5. x \div total <= x \div supply /\ x \div total \in Nat /\ x \div supply \in Nat
    BY <1>4, <2>4, Quotient, QuotientAntitone
  <2>6. i <= j
    BY <1>1, <2>1, <2>5
  <2>. QED  BY <2>6 DEF i, j
<1>. QED
  BY <1>3, <1>4

\* What a user is shown is a number.
LEMMA ShownIsNat ==
  ASSUME IInv, NEW u \in User
  PROVE  getTotalRewardsBalance(u) \in Nat
<1>1. /\ getAssetIndex(asset, totalSupply, now) \in Nat
      /\ asset.users[u] \in Nat /\ asset.users[u] <= getAssetIndex(asset, totalSupply, now)
  <2>1. {} \in SUBSET User
    OBVIOUS
  <2>. QED  BY <2>1, UpdatedAsset
<1>2. balances[u] \in Nat /\ stakerRewardsToClaim[u] \in Nat
  BY DEF IInv, HTypeOK, TypeOK
<1>3. getRewards(balances[u], getAssetIndex(asset, totalSupply, now), asset.users[u]) \in Nat
  <2>. DEFINE i == getAssetIndex(asset, totalSupply, now)
  <2>1. i <= i
    BY <1>1
  <2>. HIDE DEF i
  <2>2. getRewards(balances[u], i, asset.users[u]) \in Nat
    BY <1>1, <1>2, <2>1, RewardsGrow DEF i
  <2>. QED  BY <2>2 DEF i
<1>. QED
  BY <1>2, <1>3 DEF getTotalRewardsBalance

\* An update moves what accrued to the credit: the sum a user is shown stays.
LEMMA UpdateShowsSame ==
  ASSUME IInv, IInv', NEW us \in SUBSET User, UpdateRewards(us), now' = now,
         \A u \in User \ us : balances'[u] = balances[u]
  PROVE  \A u \in User : getTotalRewardsBalance(u)' = getTotalRewardsBalance(u)
<1>. DEFINE i == getAssetIndex(asset, totalSupply, now)
<1>1. /\ asset' \in AssetData(User) /\ asset'.index = i /\ asset'.lastUpdateTimestamp = now
      /\ i \in Nat
      /\ \A u \in User :
           /\ asset'.users[u] = IF u \in us THEN i ELSE asset.users[u]
           /\ asset.users[u] \in Nat /\ asset.users[u] <= i
           /\ accruedRewards(asset, u, balances, totalSupply, now)
                = getRewards(balances[u], i, asset.users[u])
  BY UpdatedAsset DEF UpdateRewards
<1>2. (getAssetIndex(asset, totalSupply, now))' = i
  BY <1>1 DEF getAssetIndex
<1>3. ASSUME NEW u \in User
      PROVE  getTotalRewardsBalance(u)' = getTotalRewardsBalance(u)
  <2>1. /\ stakerRewardsToClaim[u] \in Nat /\ balances[u] \in Nat /\ balances'[u] \in Nat
    BY DEF IInv, HTypeOK, TypeOK
  <2>2. getTotalRewardsBalance(u)'
          = stakerRewardsToClaim'[u] + getRewards(balances'[u], i, asset'.users[u])
    BY <1>2 DEF getTotalRewardsBalance
  <2>3. getTotalRewardsBalance(u)
          = stakerRewardsToClaim[u] + getRewards(balances[u], i, asset.users[u])
    BY DEF getTotalRewardsBalance
  <2>. HIDE DEF i
  <2>4. CASE u \notin us
    <3>1. stakerRewardsToClaim'[u] = stakerRewardsToClaim[u]
      BY <2>4 DEF UpdateRewards
    <3>. QED  BY <1>1, <2>2, <2>3, <2>4, <3>1
  <2>5. CASE u \in us
    <3>1. stakerRewardsToClaim'[u]
            = stakerRewardsToClaim[u] + getRewards(balances[u], i, asset.users[u])
      BY <1>1, <2>5 DEF UpdateRewards
    <3>2. getRewards(balances'[u], i, i) = 0 /\ getRewards(balances[u], i, asset.users[u]) \in Nat
      <4>1. i \in Nat /\ i <= i /\ asset.users[u] \in Nat /\ asset.users[u] <= i
        BY <1>1
      <4>2. getRewards(balances'[u], i, i) = 0
        BY ONLY <2>1, <4>1, RewardsGrow
      <4>3. getRewards(balances[u], i, asset.users[u]) \in Nat
        BY ONLY <2>1, <4>1, RewardsGrow
      <4>. QED  BY <4>2, <4>3
    <3>3. getTotalRewardsBalance(u)'
            = stakerRewardsToClaim[u] + getRewards(balances[u], i, asset.users[u]) + 0
      BY <1>1, <2>2, <2>5, <3>1, <3>2
    <3>. QED  BY <2>1, <2>3, <3>2, <3>3
  <2>. QED  BY <2>4, <2>5
<1>. QED
  BY <1>3

LEMMA MovementsShowSame ==
  ASSUME IInv, HStake \/ HRedeem \/ HTransfer \/ HCooldown \/ UNCHANGED hvars
  PROVE  \A u \in User : getTotalRewardsBalance(u)' = getTotalRewardsBalance(u)
<1>1. CASE HStake
  <2>1. PICK payer \in User, onBehalfOf \in User, amount \in Amounts :
          stake(payer, onBehalfOf, amount)
    BY <1>1 DEF HStake
  <2>2. /\ UpdateRewards({onBehalfOf}) /\ now' = now /\ {onBehalfOf} \in SUBSET User
        /\ \A u \in User \ {onBehalfOf} : balances'[u] = balances[u]
    BY <2>1 DEF stake, Mint, IInv, HTypeOK, TypeOK
  <2>3. IInv'
    BY <1>1, StakeKeeps
  <2>. QED  BY <2>2, <2>3, UpdateShowsSame
<1>2. CASE HRedeem
  <2>1. PICK u \in User, to \in Recipients, amount \in Amounts : redeem(u, to, amount)
    BY <1>2 DEF HRedeem
  <2>2. /\ UpdateRewards({u}) /\ now' = now /\ {u} \in SUBSET User
        /\ \A v \in User \ {u} : balances'[v] = balances[v]
    BY <2>1 DEF redeem, Burn, IInv, HTypeOK, TypeOK
  <2>3. IInv'
    BY <1>2, RedeemKeeps
  <2>. QED  BY <2>2, <2>3, UpdateShowsSame
<1>3. CASE HTransfer
  <2>1. PICK from \in User, to \in User, amount \in Amounts : transfer(from, to, amount)
    BY <1>3 DEF HTransfer
  <2>2. /\ UpdateRewards({from, to}) /\ now' = now /\ {from, to} \in SUBSET User
        /\ \A v \in User \ {from, to} : balances'[v] = balances[v]
    BY <2>1 DEF transfer, Move, IInv, HTypeOK, TypeOK
  <2>3. IInv'
    BY <1>3, TransferKeeps
  <2>. QED  BY <2>2, <2>3, UpdateShowsSame
<1>4. CASE HCooldown \/ UNCHANGED hvars
  <2>1. UNCHANGED <<now, balances, totalSupply, asset, stakerRewardsToClaim>>
    BY <1>4 DEF HCooldown, cooldown, hvars
  <2>. QED  BY <2>1 DEF getTotalRewardsBalance
<1>. QED
  BY <1>1, <1>2, <1>3, <1>4

\* A claim takes what it pays from the claimer, and nothing from anybody else.
LEMMA ClaimShows ==
  ASSUME IInv, HClaim
  PROVE  \E u \in User :
           /\ getTotalRewardsBalance(u)' \in Int
           /\ getTotalRewardsBalance(u) - getTotalRewardsBalance(u)' = paid' - paid
           /\ paid' - paid \in Nat
           /\ \A v \in User \ {u} : getTotalRewardsBalance(v)' = getTotalRewardsBalance(v)
<1>1. PICK u \in User, to \in Recipients, amount \in Amounts \cup {UINT_MAX} :
        claimRewards(u, to, amount) /\ Record({}, amountToClaim(u, amount))
  BY DEF HClaim
<1>. DEFINE out == amountToClaim(u, amount)
            i == getAssetIndex(asset, totalSupply, now)
<1>2. /\ asset' = updateUsers(asset, {u}, balances, totalSupply, now) /\ now' = now
      /\ balances' = balances /\ totalSupply' = totalSupply
      /\ stakerRewardsToClaim' = [stakerRewardsToClaim EXCEPT ![u] = unclaimedRewards(u) - out]
  BY <1>1 DEF claimRewards
<1>3. /\ asset' \in AssetData(User) /\ asset'.index = i /\ asset'.lastUpdateTimestamp = now
      /\ i \in Nat
      /\ \A v \in User :
           /\ asset'.users[v] = IF v \in {u} THEN i ELSE asset.users[v]
           /\ asset.users[v] \in Nat /\ asset.users[v] <= i
           /\ accruedRewards(asset, v, balances, totalSupply, now)
                = getRewards(balances[v], i, asset.users[v])
  <2>1. {u} \in SUBSET User
    OBVIOUS
  <2>. QED  BY <1>2, <2>1, UpdatedAsset
<1>4. (getAssetIndex(asset, totalSupply, now))' = i
  BY <1>2, <1>3 DEF getAssetIndex
<1>5. /\ stakerRewardsToClaim \in [User -> Nat] /\ balances \in [User -> Nat] /\ paid \in Nat
  BY DEF IInv, HTypeOK, TypeOK
<1>6. /\ unclaimedRewards(u) = stakerRewardsToClaim[u] + getRewards(balances[u], i, asset.users[u])
      /\ getRewards(balances[u], i, asset.users[u]) \in Nat
      /\ getRewards(balances[u], i, i) = 0
  <2>1. unclaimedRewards(u) = stakerRewardsToClaim[u] + getRewards(balances[u], i, asset.users[u])
    BY <1>3 DEF unclaimedRewards
  <2>2. balances[u] \in Nat /\ i <= i
    BY <1>3, <1>5
  <2>. HIDE DEF i
  <2>3. getRewards(balances[u], i, asset.users[u]) \in Nat /\ getRewards(balances[u], i, i) = 0
    BY <1>3, <2>2, RewardsGrow
  <2>. QED  BY <2>1, <2>3
<1>7. out \in Nat
  BY <1>1, <1>5, <1>6, InputsAssumption DEF amountToClaim
<1>8. paid' = paid + out
  BY <1>1 DEF Record
<1>9. \A v \in User :
        /\ getTotalRewardsBalance(v)'
             = stakerRewardsToClaim'[v] + getRewards(balances[v], i, asset'.users[v])
        /\ getTotalRewardsBalance(v)
             = stakerRewardsToClaim[v] + getRewards(balances[v], i, asset.users[v])
  BY <1>2, <1>4 DEF getTotalRewardsBalance
<1>. HIDE DEF out, i
<1>10. getTotalRewardsBalance(u)' = (unclaimedRewards(u) - out) + 0
  BY <1>2, <1>3, <1>5, <1>6, <1>9
<1>11. getTotalRewardsBalance(u) = unclaimedRewards(u) /\ unclaimedRewards(u) \in Nat
  BY <1>5, <1>6, <1>9
<1>12. getTotalRewardsBalance(u) - getTotalRewardsBalance(u)' = paid' - paid
       /\ paid' - paid \in Nat
  BY <1>5, <1>7, <1>8, <1>10, <1>11
<1>13. getTotalRewardsBalance(u)' \in Int
  BY <1>7, <1>10, <1>11
<1>14. \A v \in User \ {u} : getTotalRewardsBalance(v)' = getTotalRewardsBalance(v)
  BY <1>2, <1>3, <1>5, <1>9, ZenonT(40)
<1>. QED
  BY <1>12, <1>13, <1>14

\* After configureAssets everybody is shown the rewards at the index it stored.
LEMMA ConfigureShows ==
  ASSUME IInv, NEW e \in Emissions, NEW total \in TotalStakedInputs \cup {totalSupply},
         configureAssets(e, total), NEW u \in User
  PROVE  getTotalRewardsBalance(u)'
           = stakerRewardsToClaim[u]
             + getRewards(balances[u], getAssetIndex(asset, total, now), asset.users[u])
<1>. DEFINE i == getAssetIndex(asset, total, now)
            c == updateAssetState(asset, total, now)
<1>1. /\ now \in Nat /\ total \in Nat /\ asset \in AssetData(User)
      /\ asset.lastUpdateTimestamp <= now
      /\ \A v \in User : asset.users[v] <= asset.index
  BY TimeAssumption, InputsAssumption DEF IInv, HTypeOK, TypeOK, IndexesInOrder
<1>2. c \in AssetData(User) /\ c.index = i /\ c.lastUpdateTimestamp = now /\ c.users = asset.users
  <2>1. c.index = i /\ c \in AssetData(User)
    BY <1>1, IndexOfNow, UpdateKeepsOrder
  <2>2. CASE now = asset.lastUpdateTimestamp
    BY <2>1, <2>2 DEF updateAssetState
  <2>3. CASE now # asset.lastUpdateTimestamp
    BY <1>1, <2>1, <2>3 DEF updateAssetState, AssetData
  <2>. QED  BY <2>2, <2>3
<1>3. /\ asset' = [c EXCEPT !.emissionPerSecond = e]
      /\ UNCHANGED <<now, balances, totalSupply, stakerRewardsToClaim>>
  BY DEF configureAssets
<1>. HIDE DEF i, c
<1>4. asset'.index = i /\ asset'.lastUpdateTimestamp = now /\ asset'.users = asset.users
  BY <1>2, <1>3 DEF AssetData
<1>5. (getAssetIndex(asset, totalSupply, now))' = i
  BY <1>3, <1>4 DEF getAssetIndex
<1>6. getTotalRewardsBalance(u)' = stakerRewardsToClaim[u] + getRewards(balances[u], i, asset.users[u])
  BY <1>3, <1>4, <1>5 DEF getTotalRewardsBalance
<1>. QED
  BY <1>6 DEF i

\* Time only adds to what a user is shown, and nothing once the end is past.
LEMMA TickShows ==
  ASSUME IInv, HTick, NEW u \in User
  PROVE  /\ getTotalRewardsBalance(u)' \in Nat
         /\ getTotalRewardsBalance(u) <= getTotalRewardsBalance(u)'
         /\ now >= DISTRIBUTION_END => getTotalRewardsBalance(u)' = getTotalRewardsBalance(u)
<1>. DEFINE i == getAssetIndex(asset, totalSupply, now)
            j == getAssetIndex(asset, totalSupply, now')
            x == asset.users[u]
<1>1. UNCHANGED <<balances, totalSupply, asset, stakerRewardsToClaim>> /\ now' = now + 1
  BY DEF HTick, tick
<1>2. /\ now \in Nat /\ now' \in Nat /\ now <= now' /\ totalSupply \in Nat
      /\ asset \in AssetData(User) /\ asset.lastUpdateTimestamp <= now
      /\ balances[u] \in Nat /\ stakerRewardsToClaim[u] \in Nat
  <2>1. now \in Nat
    BY TimeAssumption DEF IInv, HTypeOK, TypeOK
  <2>. QED  BY <1>1, <2>1 DEF IInv, HTypeOK, TypeOK, IndexesInOrder
<1>3. i \in Nat /\ x \in Nat /\ x <= i
  <2>1. {} \in SUBSET User
    OBVIOUS
  <2>. QED  BY <2>1, UpdatedAsset
<1>4. i <= j /\ (now >= DISTRIBUTION_END => j = i)
  BY <1>2, IndexInTime
<1>5. j \in Nat
  <2>1. asset.lastUpdateTimestamp <= now'
    BY <1>2 DEF AssetData
  <2>. QED  BY <1>2, <2>1, IndexGrows
<1>6. getTotalRewardsBalance(u)' = stakerRewardsToClaim[u] + getRewards(balances[u], j, x)
  BY <1>1 DEF getTotalRewardsBalance
<1>7. getTotalRewardsBalance(u) = stakerRewardsToClaim[u] + getRewards(balances[u], i, x)
  BY DEF getTotalRewardsBalance
<1>. HIDE DEF i, j, x
<1>8. /\ getRewards(balances[u], i, x) \in Nat /\ getRewards(balances[u], j, x) \in Nat
      /\ getRewards(balances[u], i, x) <= getRewards(balances[u], j, x)
  BY <1>2, <1>3, <1>4, <1>5, RewardsGrow
<1>9. /\ getTotalRewardsBalance(u)' \in Nat
      /\ getTotalRewardsBalance(u) <= getTotalRewardsBalance(u)'
  BY <1>2, <1>6, <1>7, <1>8
<1>10. now >= DISTRIBUTION_END => getTotalRewardsBalance(u)' = getTotalRewardsBalance(u)
  BY <1>4, <1>6, <1>7
<1>. QED
  BY <1>9, <1>10

\* Nothing a staker is shown is taken from him but by his own claim, or by a
\* configureAssets that is given a wrong total.
THEOREM ShownRewardsNeverShrink == HSpec => RewardsNeverShrink
<1>. DEFINE Fine(u) ==
       getTotalRewardsBalance(u)' < getTotalRewardsBalance(u) =>
         \/ MisinformedConfigure
         \/ /\ paid' > paid
            /\ getTotalRewardsBalance(u) - getTotalRewardsBalance(u)' = paid' - paid
            /\ \A v \in User \ {u} : getTotalRewardsBalance(v)' = getTotalRewardsBalance(v)
\* Whoever is shown at least what he was has lost nothing.
<1>1. ASSUME IInv, NEW u \in User, getTotalRewardsBalance(u)' \in Nat,
             getTotalRewardsBalance(u) <= getTotalRewardsBalance(u)'
      PROVE  Fine(u)
  BY <1>1, ShownIsNat
<1>2. ASSUME IInv, HStake \/ HRedeem \/ HTransfer \/ HCooldown \/ UNCHANGED hvars
      PROVE  \A u \in User : Fine(u)
  <2>1. SUFFICES ASSUME NEW u \in User PROVE Fine(u)
    OBVIOUS
  <2>2. getTotalRewardsBalance(u)' = getTotalRewardsBalance(u) /\ getTotalRewardsBalance(u) \in Nat
    BY <1>2, MovementsShowSame, ShownIsNat
  <2>. HIDE DEF Fine
  <2>. QED  BY <1>1, <1>2, <2>2
<1>3. ASSUME IInv, HClaim PROVE \A u \in User : Fine(u)
  <2>1. PICK w \in User :
           /\ getTotalRewardsBalance(w)' \in Int
           /\ getTotalRewardsBalance(w) - getTotalRewardsBalance(w)' = paid' - paid
           /\ paid' - paid \in Nat
           /\ \A v \in User \ {w} : getTotalRewardsBalance(v)' = getTotalRewardsBalance(v)
    BY <1>3, ClaimShows
  <2>2. IInv'
    BY <1>3, ClaimKeeps
  <2>3. paid \in Nat /\ paid' \in Nat
    BY <1>3, <2>2 DEF IInv, HTypeOK
  <2>4. \A v \in User : getTotalRewardsBalance(v) \in Nat
    BY <1>3, ShownIsNat
  <2>5. ASSUME getTotalRewardsBalance(w)' < getTotalRewardsBalance(w),
               getTotalRewardsBalance(w)' \in Int
        PROVE  paid' > paid
    BY <2>1, <2>3, <2>4, <2>5
  <2>6. Fine(w)
    BY <2>1, <2>5
  <2>7. ASSUME NEW v \in User \ {w} PROVE Fine(v)
    BY <2>1, <2>4
  <2>. HIDE DEF Fine
  <2>. QED  BY <2>6, <2>7
<1>4. ASSUME IInv, HConfigure PROVE \A u \in User : Fine(u)
  <2>1. PICK e \in Emissions, total \in TotalStakedInputs \cup {totalSupply} :
          configureAssets(e, total)
    BY <1>4 DEF HConfigure
  <2>2. CASE total = totalSupply
    <3>1. SUFFICES ASSUME NEW u \in User PROVE Fine(u)
      OBVIOUS
    <3>2. getTotalRewardsBalance(u)' = getTotalRewardsBalance(u) /\ getTotalRewardsBalance(u) \in Nat
      BY <1>4, <2>1, <2>2, ConfigureShows, ShownIsNat DEF getTotalRewardsBalance
    <3>. HIDE DEF Fine
    <3>. QED  BY <1>1, <1>4, <3>2
  <2>3. CASE total # totalSupply
    BY <2>1, <2>3 DEF MisinformedConfigure
  <2>. QED  BY <2>2, <2>3
<1>5. ASSUME IInv, HTick PROVE \A u \in User : Fine(u)
  <2>1. SUFFICES ASSUME NEW u \in User PROVE Fine(u)
    OBVIOUS
  <2>2. getTotalRewardsBalance(u)' \in Nat /\ getTotalRewardsBalance(u) <= getTotalRewardsBalance(u)'
    BY <1>5, TickShows
  <2>. HIDE DEF Fine
  <2>. QED  BY <1>1, <1>5, <2>2
<1>. HIDE DEF Fine
<1>6. IInv /\ [HNext]_hvars => [\A u \in User : Fine(u)]_hvars
  BY <1>2, <1>3, <1>4, <1>5 DEF HNext
<1>. QED
  BY <1>6, InductiveInvariant, PTL DEF HSpec, RewardsNeverShrink, Fine

\* From the end of the distribution on nobody's rewards grow, whatever is still
\* accounted late - as long as the total is not understated.
THEOREM EndOfDistribution == HSpec /\ NeverUnderstated => NothingAccruesAfterEnd
<1>. DEFINE Fine == now >= DISTRIBUTION_END =>
                      \A u \in User : getTotalRewardsBalance(u)' <= getTotalRewardsBalance(u)
<1>1. ASSUME IInv, HStake \/ HRedeem \/ HTransfer \/ HCooldown \/ UNCHANGED hvars PROVE Fine
  <2>1. \A u \in User : getTotalRewardsBalance(u)' = getTotalRewardsBalance(u)
                        /\ getTotalRewardsBalance(u) \in Nat
    BY <1>1, MovementsShowSame, ShownIsNat
  <2>. QED  BY <2>1
<1>2. ASSUME IInv, HTick PROVE Fine
  <2>1. \A u \in User : getTotalRewardsBalance(u) \in Nat
    BY <1>2, ShownIsNat
  <2>. QED  BY <1>2, <2>1, TickShows
<1>3. ASSUME IInv, HClaim PROVE Fine
  <2>1. PICK w \in User :
           /\ getTotalRewardsBalance(w)' \in Int
           /\ getTotalRewardsBalance(w) - getTotalRewardsBalance(w)' = paid' - paid
           /\ paid' - paid \in Nat
           /\ \A v \in User \ {w} : getTotalRewardsBalance(v)' = getTotalRewardsBalance(v)
    BY <1>3, ClaimShows
  <2>2. \A v \in User : getTotalRewardsBalance(v) \in Nat
    BY <1>3, ShownIsNat
  <2>3. getTotalRewardsBalance(w)' <= getTotalRewardsBalance(w)
    BY <2>1, <2>2
  <2>4. \A v \in User \ {w} : getTotalRewardsBalance(v)' <= getTotalRewardsBalance(v)
    BY <2>1, <2>2
  <2>. QED  BY <2>3, <2>4
<1>4. ASSUME IInv, Backed, HConfigure, ~UnderstatedConfigure PROVE Fine
  <2>1. PICK e \in Emissions, total \in TotalStakedInputs \cup {totalSupply} :
          configureAssets(e, total)
    BY <1>4 DEF HConfigure
  <2>2. /\ totalSupply \in Nat /\ total \in Nat /\ now \in Nat /\ balances \in [User -> Nat]
        /\ asset \in AssetData(User) /\ asset.lastUpdateTimestamp <= now
        /\ stakerRewardsToClaim \in [User -> Nat]
        /\ \A u \in User : asset.users[u] <= asset.index
    BY <1>4, TimeAssumption, InputsAssumption DEF IInv, HTypeOK, TypeOK, IndexesInOrder
  <2>3. total = 0 \/ totalSupply <= total
    BY <1>4, <2>1, <2>2 DEF UnderstatedConfigure
  <2>. DEFINE i == getAssetIndex(asset, total, now)
              j == getAssetIndex(asset, totalSupply, now)
  <2>4. ASSUME NEW u \in User PROVE getTotalRewardsBalance(u)' <= getTotalRewardsBalance(u)
    <3>. DEFINE x == asset.users[u]
                b == balances[u]
    <3>1. /\ getTotalRewardsBalance(u)' = stakerRewardsToClaim[u] + getRewards(b, i, x)
          /\ getTotalRewardsBalance(u) = stakerRewardsToClaim[u] + getRewards(b, j, x)
      BY <1>4, <2>1, ConfigureShows DEF getTotalRewardsBalance
    <3>2. i \in Nat /\ j \in Nat /\ x \in Nat /\ b \in Nat /\ x <= i /\ x <= j
          /\ stakerRewardsToClaim[u] \in Nat
      <4>1. i \in Nat /\ j \in Nat /\ asset.index <= i /\ asset.index <= j
        BY <2>2, IndexGrows
      <4>2. x \in Nat /\ b \in Nat /\ x <= asset.index /\ asset.index \in Nat
            /\ stakerRewardsToClaim[u] \in Nat
        BY <2>2 DEF AssetData
      <4>. HIDE DEF i, j, x, b
      <4>. QED  BY <4>1, <4>2
    <3>3. CASE totalSupply = 0
      <4>1. b <= SumFunctionOnSet(balances, User)
        <5>1. \A v \in User : balances[v] \in Nat
          BY <2>2
        <5>. QED  BY <5>1, FiniteUsersAssumption, SumBounds
      <4>2. SumFunctionOnSet(balances, User) = 0
        BY <1>4, <2>2, <3>3, SumOverUsers DEF Backed
      <4>3. b = 0
        BY <3>2, <4>1, <4>2
      <4>4. 0 * (i - x) = 0 /\ 0 * (j - x) = 0
        <5>. HIDE DEF i, j, x
        <5>. QED  BY <3>2
      <4>5. getRewards(b, i, x) = getRewards(b, j, x)
        <5>. HIDE DEF i, j, x, b
        <5>. QED  BY <4>3, <4>4 DEF getRewards
      <4>6. i <= i
        BY <3>2
      <4>7. getRewards(b, i, x) \in Nat
        <5>. HIDE DEF i, j, x, b
        <5>. QED  BY <3>2, <4>6, RewardsGrow
      <4>. HIDE DEF i, j, x, b
      <4>. QED  BY <3>1, <3>2, <4>5, <4>7
    <3>4. CASE totalSupply # 0
      <4>1. i <= j
        BY <2>2, <2>3, <3>4, IndexInTotal
      <4>. HIDE DEF i, j, x, b
      <4>2. /\ getRewards(b, i, x) \in Nat /\ getRewards(b, j, x) \in Nat
            /\ getRewards(b, i, x) <= getRewards(b, j, x)
        BY <3>2, <4>1, RewardsGrow
      <4>. QED  BY <3>1, <3>2, <4>2
    <3>. QED  BY <3>3, <3>4
  <2>. QED  BY <2>4
<1>. HIDE DEF Fine
<1>5. IInv /\ Backed /\ [HNext]_hvars /\ [~UnderstatedConfigure]_hvars => [Fine]_hvars
  BY <1>1, <1>2, <1>3, <1>4 DEF HNext
<1>. QED
  BY <1>5, InductiveInvariant, EveryTokenBacked, PTL
     DEF HSpec, NeverUnderstated, NothingAccruesAfterEnd, Fine

------------------------------------------------------------------------------
(* What stands in the way of a call *)

\* The unprimed half of redeem: the two requires, the sub of the reward
\* accounting, the subs of _burn, the balance check of the REX token.
RedeemRequires(u, amount) ==
  /\ amount # 0
  /\ InUnstakeWindow(u)
  /\ CanAccrue(asset, {u}, balances, totalSupply, now)
  /\ amountToRedeem(u, amount) <= balances[u]
  /\ amountToRedeem(u, amount) <= totalSupply
  /\ amountToRedeem(u, amount) <= rex[StakeContract]

\* The primed half of redeem: one value for every variable
RedeemWrites(u, to, amount) ==
  /\ now' = now
  /\ balances' = [balances EXCEPT ![u] = @ - amountToRedeem(u, amount)]
  /\ totalSupply' = totalSupply - amountToRedeem(u, amount)
  /\ asset' = updateUsers(asset, {u}, balances, totalSupply, now)
  /\ stakerRewardsToClaim' =
       [v \in User |->
          IF v \in {u}
          THEN stakerRewardsToClaim[v] + accruedRewards(asset, v, balances, totalSupply, now)
          ELSE stakerRewardsToClaim[v]]
  /\ stakersCooldowns' = CooldownsAfterRedeem(u, amountToRedeem(u, amount))
  /\ rex' = Move(rex, StakeContract, to, amountToRedeem(u, amount))

\* The unprimed half of transfer: the subs of the reward accounting for both,
\* the div of the average, the sub of the sender's balance.
TransferRequires(from, to, amount) ==
  /\ CanAccrue(asset, {from, to}, balances, totalSupply, now)
  /\ from # to /\ TakesAverage(stakersCooldowns[from], to) => amount + balances[to] # 0
  /\ amount <= balances[from]

\* The primed half of transfer
TransferWrites(from, to, amount) ==
  /\ now' = now
  /\ balances' = Move(balances, from, to, amount)
  /\ totalSupply' = totalSupply
  /\ asset' = updateUsers(asset, {from, to}, balances, totalSupply, now)
  /\ stakerRewardsToClaim' =
       [v \in User |->
          IF v \in {from, to}
          THEN stakerRewardsToClaim[v] + accruedRewards(asset, v, balances, totalSupply, now)
          ELSE stakerRewardsToClaim[v]]
  /\ stakersCooldowns' = CooldownsAfterTransfer(from, to, amount)
  /\ rex' = rex

\* The halves make the whole: as the second gives each variable one value that
\* depends on the state alone, the first decides whether the call reverts.
LEMMA RedeemSplits ==
  ASSUME NEW u \in User, NEW to \in Recipients, NEW amount \in Nat
  PROVE  redeem(u, to, amount) <=> RedeemRequires(u, amount) /\ RedeemWrites(u, to, amount)
BY Zenon DEF redeem, UpdateRewards, Burn, RedeemRequires, RedeemWrites

LEMMA TransferSplits ==
  ASSUME NEW from \in User, NEW to \in User, NEW amount \in Nat
  PROVE  transfer(from, to, amount)
           <=> TransferRequires(from, to, amount) /\ TransferWrites(from, to, amount)
BY Zenon DEF transfer, UpdateRewards, TransferRequires, TransferWrites

\* The sub of _getRewards: the index a user is compared with is not behind his.
LEMMA AlwaysAccrues ==
  ASSUME IInv, NEW us \in SUBSET User
  PROVE  CanAccrue(asset, us, balances, totalSupply, now)
<1>. USE TimeAssumption DEF IInv, HTypeOK, TypeOK, IndexesInOrder
<1>1. now \in Nat
  OBVIOUS
<1>2. \A u \in User : asset.users[u] <= updateAssetState(asset, totalSupply, now).index
  BY <1>1, UpdateKeepsOrder
<1>. QED
  BY <1>2 DEF CanAccrue

\* No staker holds more than the total supply, nor more than the contract's REX.
LEMMA BalanceIsCovered ==
  ASSUME IInv, Backed, NEW u \in User
  PROVE  /\ balances[u] \in Nat
         /\ balances[u] <= totalSupply
         /\ balances[u] <= rex[StakeContract]
<1>1. /\ balances \in [User -> Nat] /\ totalSupply \in Nat /\ rex[StakeContract] \in Nat
      /\ totalSupply = SumFunction(balances) /\ totalSupply <= rex[StakeContract]
  BY DEF IInv, HTypeOK, TypeOK, Backed, RexAccount
<1>2. balances[u] <= SumFunctionOnSet(balances, User)
  BY <1>1, FiniteUsersAssumption, SumBounds
<1>3. SumFunction(balances) = SumFunctionOnSet(balances, User)
  BY <1>1, SumOverUsers
<1>. QED
  BY <1>1, <1>2, <1>3

\* In each second of u's window, whatever amount he asks for; all he has is one
RedeemMeetsItsChecks ==
  \A u \in User : \A second \in 1 .. UNSTAKE_WINDOW :
    /\ stakersCooldowns[u] # 0
    /\ now = stakersCooldowns[u] + COOLDOWN_SECONDS + second
    => balances[u] # 0 /\ \A amount \in Nat \ {0} : RedeemRequires(u, amount)

\* In or out of a window, for every amount up to the balance, zero included
TransferMeetsItsChecks ==
  \A from, to \in User : \A amount \in Nat :
    amount <= balances[from] => TransferRequires(from, to, amount)

\* A second after the cooldown is one of the window.
LEMMA WindowIsOpen ==
  ASSUME NEW u \in User, stakersCooldowns \in [User -> 0 .. MaxTime],
         NEW second \in 1 .. UNSTAKE_WINDOW,
         now = stakersCooldowns[u] + COOLDOWN_SECONDS + second
  PROVE  InUnstakeWindow(u)
BY TimeAssumption, PeriodsAssumption DEF InUnstakeWindow, CooldownOver, WindowNotFinished

\* The cooldown belongs to a position, and what is staked is there to be paid.
LEMMA RedeemIsAllowed == IInv /\ Backed => RedeemMeetsItsChecks
<1>. SUFFICES ASSUME IInv, Backed, NEW u \in User, NEW second \in 1 .. UNSTAKE_WINDOW,
                     stakersCooldowns[u] # 0,
                     now = stakersCooldowns[u] + COOLDOWN_SECONDS + second,
                     NEW amount \in Nat \ {0}
              PROVE  balances[u] # 0 /\ RedeemRequires(u, amount)
  BY DEF RedeemMeetsItsChecks
<1>1. InUnstakeWindow(u)
  BY WindowIsOpen DEF IInv, HTypeOK, TypeOK
<1>2. CanAccrue(asset, {u}, balances, totalSupply, now)
  BY AlwaysAccrues
<1>3. /\ balances[u] \in Nat
      /\ balances[u] <= totalSupply
      /\ balances[u] <= rex[StakeContract]
  BY BalanceIsCovered
<1>4. rex[StakeContract] \in Nat /\ totalSupply \in Nat
  BY DEF IInv, HTypeOK, TypeOK, RexAccount
<1>5. balances[u] # 0
  BY DEF IInv, CooldownIsOwn
<1>6. /\ amountToRedeem(u, amount) <= balances[u]
      /\ amountToRedeem(u, amount) <= totalSupply
      /\ amountToRedeem(u, amount) <= rex[StakeContract]
  BY <1>3, <1>4 DEF amountToRedeem
<1>. QED
  BY <1>1, <1>2, <1>5, <1>6 DEF RedeemRequires

\* The average divides by what the recipient will hold.  His cooldown is then
\* running, and a cooldown never outlives its position.
LEMMA TransferIsAllowed == IInv => TransferMeetsItsChecks
<1>. SUFFICES ASSUME IInv, NEW from \in User, NEW to \in User, NEW amount \in Nat,
                     amount <= balances[from]
              PROVE  TransferRequires(from, to, amount)
  BY DEF TransferMeetsItsChecks
<1>1. CanAccrue(asset, {from, to}, balances, totalSupply, now)
  BY AlwaysAccrues
<1>2. TakesAverage(stakersCooldowns[from], to) => balances[to] # 0
  BY DEF TakesAverage, IInv, CooldownIsOwn
<1>3. balances[to] \in Nat
  BY DEF IInv, HTypeOK, TypeOK
<1>4. balances[to] # 0 => amount + balances[to] # 0
  BY <1>3
<1>. QED
  BY <1>1, <1>2, <1>4 DEF TransferRequires

\* No check of redeem can fail in any second of the window: what
\* RedeemNeverBlocked says with ENABLED, for every amount and not only for all.
THEOREM RedeemChecksPass == HSpec => []RedeemMeetsItsChecks
BY InductiveInvariant, EveryTokenBacked, RedeemIsAllowed, PTL

\* No check of _transfer can fail for an amount the sender has: what
\* TransferNeverBlocked says with ENABLED.
THEOREM TransferChecksPass == HSpec => []TransferMeetsItsChecks
BY InductiveInvariant, TransferIsAllowed, PTL

------------------------------------------------------------------------------
(* The token the governance power is computed from *)

Ledger == INSTANCE StakeLedger

\* What each transaction does to the balances: one amount, one way.
LEMMA LedgerStep == IInv /\ [HNext]_hvars => [Ledger!Next]_balances
<1>. SUFFICES ASSUME IInv, [HNext]_hvars, balances' # balances PROVE Ledger!Next
  OBVIOUS
<1>. USE InputsAssumption
<1>1. balances \in [User -> Nat] /\ totalSupply \in Nat
  BY DEF IInv, HTypeOK, TypeOK
<1>2. CASE HStake
  <2>1. PICK payer \in User, u \in User, amount \in Amounts : stake(payer, u, amount)
    BY <1>2 DEF HStake
  <2>2. amount \in Nat \ {0} /\ Ledger!Appear(u, amount)
    BY <2>1 DEF stake, Mint, Ledger!Appear
  <2>. QED  BY <2>2 DEF Ledger!Next
<1>3. CASE HRedeem
  <2>1. PICK u \in User, to \in Recipients, amount \in Amounts : redeem(u, to, amount)
    BY <1>3 DEF HRedeem
  <2>. DEFINE out == amountToRedeem(u, amount)
  <2>2. out \in Nat
    BY <1>1 DEF amountToRedeem
  <2>3. out <= balances[u] /\ balances' = [balances EXCEPT ![u] = @ - out]
    BY <2>1 DEF redeem, Burn
  <2>. HIDE DEF out
  <2>4. out # 0
    <3>1. ASSUME out = 0 PROVE FALSE
      <4>1. balances' = [balances EXCEPT ![u] = balances[u] - 0]
        BY <2>3, <3>1
      <4>2. balances[u] - 0 = balances[u]
        BY <1>1
      <4>. QED  BY <1>1, <4>1, <4>2
    <3>. QED  BY <3>1
  <2>5. Ledger!Disappear(u, out)
    BY <2>3 DEF Ledger!Disappear
  <2>. QED  BY <2>2, <2>4, <2>5 DEF Ledger!Next
<1>4. CASE HTransfer
  <2>1. PICK from \in User, to \in User, amount \in Amounts : transfer(from, to, amount)
    BY <1>4 DEF HTransfer
  <2>2. amount \in Nat /\ amount <= balances[from] /\ balances' = Move(balances, from, to, amount)
    BY <2>1 DEF transfer
  <2>3. amount # 0
    <3>1. ASSUME amount = 0 PROVE FALSE
      <4>1. balances' = [[balances EXCEPT ![from] = balances[from] - 0]
                           EXCEPT ![to] = @ + 0]
        BY <2>2, <3>1 DEF Move
      <4>2. balances[from] - 0 = balances[from] /\ balances[to] + 0 = balances[to]
        BY <1>1
      <4>. QED  BY <1>1, <4>1, <4>2
    <3>. QED  BY <3>1
  <2>4. Ledger!Pass(from, to, amount)
    BY <2>2 DEF Ledger!Pass, Move
  <2>. QED  BY <2>2, <2>3, <2>4 DEF Ledger!Next
<1>5. CASE HCooldown \/ HClaim \/ HConfigure \/ HTick \/ UNCHANGED hvars
  BY <1>5 DEF HCooldown, HClaim, HConfigure, HTick, cooldown, claimRewards, configureAssets,
              tick, hvars
<1>. QED
  BY <1>2, <1>3, <1>4, <1>5 DEF HNext

\* Whatever the contract does besides, its stkREX is the token of StakeLedger:
\* every transaction moves one amount at most, between two accounts at most.
THEOREM StakeImplementsLedger == HSpec => Ledger!Spec
<1>1. HInit => Ledger!Init
  BY DEF HInit, Init, Ledger!Init
<1>. QED
  BY <1>1, LedgerStep, InductiveInvariant, PTL DEF HSpec, Ledger!Spec

==============================================================================
