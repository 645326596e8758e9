---------------------- MODULE IncentivesController_proofs ----------------------
(***************************************************************************)
(* Proofs about IncentivesController, for every set of users and aTokens,  *)
(* every list, amount, rate and bound.  The arithmetic of the distribution *)
(* and of the cooldown is that of StakedREX_proofs.  First the loops over  *)
(* a list of aTokens, which may name one twice, then the inductive         *)
(* invariant, then what is granted, shown and paid.                        *)
(***************************************************************************)
EXTENDS IncentivesController, StakedREX_proofs

------------------------------------------------------------------------------
(* The staked token *)

PSMInOrder ==
  /\ TypeOK
  /\ RecordInOrder(asset)
  /\ \A u \in User : stakersCooldowns[u] <= now

\* UpdateRewards leaves the asset and the rewards as they should be.
LEMMA PSMUpdate ==
  ASSUME PSMInOrder, NEW us \in SUBSET User, UpdateRewards(us), now' = now
  PROVE  /\ asset' \in AssetData(User)
         /\ stakerRewardsToClaim' \in [User -> Nat]
         /\ RecordInOrder(asset)'
<1>. USE TimeAssumption DEF PSMInOrder, TypeOK, RecordInOrder
<1>1. now \in Nat
  OBVIOUS
<1>2. /\ asset' = updateUsers(asset, us, balances, totalSupply, now)
      /\ asset' \in AssetData(User)
      /\ asset'.lastUpdateTimestamp <= now
      /\ \A u \in User : asset'.users[u] <= asset'.index
  BY <1>1, UpdateKeepsOrder DEF UpdateRewards
<1>3. \A u \in User : accruedRewards(asset, u, balances, totalSupply, now) \in Nat
  BY <1>1, RewardsAreNat
<1>4. stakerRewardsToClaim' \in [User -> Nat]
  BY <1>3 DEF UpdateRewards
<1>. QED
  BY <1>2, <1>4

\* What stake does to the beneficiary, whoever pays.
LEMMA StakedInOrder ==
  ASSUME PSMInOrder, NEW to \in User, NEW amount \in Nat, amount # 0, now' = now,
         UpdateRewards({to}), Mint(to, amount), rex' \in [RexAccount -> Nat],
         stakersCooldowns' = [stakersCooldowns EXCEPT ![to] =
                                getNextCooldownTimestamp(0, amount, to, balances[to])]
  PROVE  PSMInOrder'
<1>. USE TimeAssumption DEF PSMInOrder, TypeOK
<1>1. now \in Nat /\ {to} \in SUBSET User
  OBVIOUS
<1>2. asset' \in AssetData(User) /\ stakerRewardsToClaim' \in [User -> Nat] /\ RecordInOrder(asset)'
  BY <1>1, PSMUpdate
<1>3. balances' \in [User -> Nat] /\ totalSupply' \in Nat
  BY DEF Mint
<1>. DEFINE c == getNextCooldownTimestamp(0, amount, to, balances[to])
<1>4. c \in 0 .. now
  BY <1>1, CooldownMovesLater
<1>. HIDE DEF c
<1>5. /\ stakersCooldowns' \in [User -> 0 .. MaxTime]
      /\ \A u \in User : stakersCooldowns'[u] <= now'
  BY <1>1, <1>4 DEF c
<1>. QED
  BY <1>1, <1>2, <1>3, <1>5

LEMMA PSMStepInOrder == ASSUME PSMInOrder, PSMStep PROVE PSMInOrder' /\ now' = now
<1>. USE TimeAssumption, InputsAssumption DEF PSMInOrder, TypeOK
<1>1. now \in Nat /\ now # 0
  BY PeriodsAssumption
<1>2. ASSUME NEW u \in User, NEW amount \in Amounts, stake(u, u, amount)
      PROVE  PSMInOrder' /\ now' = now
  <2>1. /\ amount \in Nat /\ amount # 0 /\ amount <= rex[u] /\ now' = now
        /\ UpdateRewards({u}) /\ Mint(u, amount) /\ rex' = Move(rex, u, StakeContract, amount)
        /\ stakersCooldowns' = [stakersCooldowns EXCEPT ![u] =
                                  getNextCooldownTimestamp(0, amount, u, balances[u])]
    BY <1>2 DEF stake
  <2>2. rex' \in [RexAccount -> Nat]
    BY <2>1, MoveKeeps DEF RexAccount
  <2>3. PSMInOrder
    OBVIOUS
  <2>. HIDE DEF PSMInOrder
  <2>. QED  BY <2>1, <2>2, <2>3, StakedInOrder
<1>3. ASSUME NEW u \in User, NEW amount \in Amounts, redeem(u, u, amount)
      PROVE  PSMInOrder' /\ now' = now
  <2>. DEFINE out == amountToRedeem(u, amount)
  <2>1. /\ out \in Nat /\ out <= balances[u] /\ out <= totalSupply /\ out <= rex[StakeContract]
        /\ UpdateRewards({u}) /\ now' = now
        /\ balances' = [balances EXCEPT ![u] = @ - out]
        /\ totalSupply' = totalSupply - out
        /\ rex' = Move(rex, StakeContract, u, out)
        /\ \/ stakersCooldowns' = [stakersCooldowns EXCEPT ![u] = 0]
           \/ stakersCooldowns' = stakersCooldowns
    BY <1>3 DEF redeem, Burn, amountToRedeem, CooldownsAfterRedeem
  <2>. HIDE DEF out
  <2>2. rex' \in [RexAccount -> Nat]
    BY <2>1, MoveKeeps DEF RexAccount
  <2>3. balances' \in [User -> Nat] /\ totalSupply' \in Nat
    BY <2>1
  <2>4. asset' \in AssetData(User) /\ stakerRewardsToClaim' \in [User -> Nat] /\ RecordInOrder(asset)'
    BY <2>1, PSMUpdate
  <2>5. /\ stakersCooldowns' \in [User -> 0 .. MaxTime]
        /\ \A v \in User : stakersCooldowns'[v] <= now'
    BY <1>1, <2>1
  <2>. QED  BY <2>1, <2>2, <2>3, <2>4, <2>5
<1>4. ASSUME NEW u \in User, cooldown(u) PROVE PSMInOrder' /\ now' = now
  <2>1. /\ UNCHANGED <<now, balances, totalSupply, asset, stakerRewardsToClaim, rex>>
        /\ stakersCooldowns' = [stakersCooldowns EXCEPT ![u] = now]
    BY <1>4 DEF cooldown
  <2>2. RecordInOrder(asset)'
    BY <2>1 DEF RecordInOrder
  <2>. QED  BY <1>1, <2>1, <2>2
<1>. HIDE DEF PSMInOrder
<1>. QED
  BY <1>2, <1>3, <1>4 DEF PSMStep

------------------------------------------------------------------------------
(* The loop of _claimRewards *)

\* What an update of u leaves of an aToken's record, and what it credits
Settled(u, a) == updateUsers(assets[a], {u}, scaled[a], scaledTotalSupply(a), now)
Gain(u, a) == accruedRewards(assets[a], u, scaled[a], scaledTotalSupply(a), now)

\* The aTokens the first n elements of a list name
Named(list, n) == {list[k] : k \in 1 .. n}

\* The loop after n turns, written down: each aToken named is settled, once.
Turn(u, list, n) ==
  [assets |-> [a \in ATokens |-> IF a \in Named(list, n) THEN Settled(u, a) ELSE assets[a]],
   accrued |-> SumFunctionOnSet(
                 [a \in ATokens |-> IF a \in Named(list, n) THEN Gain(u, a) ELSE 0], ATokens)]

\* f solves the recursive equation of claimLoop.
IsClaimLoop(u, list, f) ==
  f = [n \in 0 .. Len(list) |->
         IF n = 0 THEN [assets |-> assets, accrued |-> 0]
         ELSE ClaimOne(u, f[n - 1], list[n])]

LEMMA NamedGrows ==
  ASSUME NEW list \in Seq(ATokens), NEW n \in 1 .. Len(list)
  PROVE  /\ Named(list, n) = Named(list, n - 1) \cup {list[n]}
         /\ Named(list, 0) = {}
         /\ list[n] \in ATokens
<1>1. 1 .. n = (1 .. (n - 1)) \cup {n}
  OBVIOUS
<1>. QED
  BY <1>1 DEF Named

LEMMA AllNamed ==
  ASSUME NEW list \in Seq(ATokens)
  PROVE  Named(list, Len(list)) = ToSet(list) /\ ToSet(list) \subseteq ATokens
<1>1. DOMAIN list = 1 .. Len(list)
  OBVIOUS
<1>. QED
  BY <1>1 DEF Named, ToSet

LEMMA RecordTypes ==
  ASSUME IcIInv, NEW a \in ATokens
  PROVE  /\ assets[a] \in AssetData(User) /\ assets[a].lastUpdateTimestamp <= now
         /\ \A u \in User : assets[a].users[u] <= assets[a].index
         /\ scaled[a] \in [User -> Nat] /\ scaledTotalSupply(a) \in Nat /\ now \in Nat
<1>1. scaled[a] \in [User -> Nat]
  BY DEF IcIInv, ControllerTypeOK
<1>2. scaledTotalSupply(a) \in Nat
  <2>. DEFINE f == scaled[a]
  <2>1. \A u \in User : f[u] \in Nat
    BY <1>1
  <2>. HIDE DEF f
  <2>2. SumFunctionOnSet(f, User) \in Nat
    BY <2>1, FiniteUsersAssumption, SumNat
  <2>. QED  BY <2>2 DEF scaledTotalSupply, f
<1>. QED
  BY <1>1, <1>2, TimeAssumption DEF IcIInv, ControllerTypeOK, TypeOK, RecordInOrder

\* A second update in the same second changes nothing and credits nothing.
LEMMA SettledTwice ==
  ASSUME NEW a \in AssetData(User), NEW u \in User, NEW b \in [User -> Nat], NEW total \in Nat,
         NEW t \in Nat, a.lastUpdateTimestamp <= t, \A v \in User : a.users[v] <= a.index
  PROVE  /\ updateUsers(updateUsers(a, {u}, b, total, t), {u}, b, total, t)
              = updateUsers(a, {u}, b, total, t)
         /\ accruedRewards(updateUsers(a, {u}, b, total, t), u, b, total, t) = 0
<1>. DEFINE c == updateUsers(a, {u}, b, total, t)
<1>1. UpdateGives(a, {u}, b, total, t)
  <2>1. {u} \in SUBSET User
    OBVIOUS
  <2>. QED  BY <2>1, UpdatedRecord
<1>2. c \in AssetData(User) /\ c.lastUpdateTimestamp = t /\ c.users[u] = c.index /\ c.index \in Nat
  BY <1>1 DEF UpdateGives
<1>. HIDE DEF c
<1>3. updateAssetState(c, total, t) = c
  BY <1>2 DEF updateAssetState
<1>4. updateUsers(c, {u}, b, total, t)
        = [c EXCEPT !.users = [v \in User |-> IF v \in {u} THEN c.index ELSE c.users[v]]]
  BY <1>2, <1>3 DEF updateUsers, AssetData
<1>5. [v \in User |-> IF v \in {u} THEN c.index ELSE c.users[v]] = c.users
  BY <1>2 DEF AssetData
<1>6. updateUsers(c, {u}, b, total, t) = c
  BY <1>2, <1>4, <1>5 DEF AssetData
<1>7. accruedRewards(c, u, b, total, t) = 0
  <2>1. b[u] \in Nat /\ c.index <= c.index
    BY <1>2
  <2>2. getRewards(b[u], c.index, c.index) = 0
    BY <1>2, <2>1, RewardsGrow
  <2>. QED  BY <1>2, <1>3, <2>2 DEF accruedRewards
<1>. QED
  BY <1>6, <1>7 DEF c

\* One turn settles one more aToken, or one that is settled already.
LEMMA TurnStep ==
  ASSUME IcIInv, NEW u \in User, NEW list \in Seq(ATokens), NEW n \in 1 .. Len(list)
  PROVE  ClaimOne(u, Turn(u, list, n - 1), list[n]) = Turn(u, list, n)
<1>. DEFINE x == list[n]
            before == Turn(u, list, n - 1)
            old(a) == IF a \in Named(list, n - 1) THEN Gain(u, a) ELSE 0
            new(a) == IF a \in Named(list, n) THEN Gain(u, a) ELSE 0
            f == [a \in ATokens |-> old(a)]
            g == [a \in ATokens |-> new(a)]
<1>0. IsFiniteSet(ATokens)
  BY ControllerAssumption
<1>1. x \in ATokens /\ Named(list, n) = Named(list, n - 1) \cup {x}
  BY NamedGrows
<1>2. \A a \in ATokens : Gain(u, a) \in Nat
  BY RecordTypes, RewardsAreNat DEF Gain
<1>3. SumFunctionOnSet(g, ATokens) = SumFunctionOnSet(f, ATokens) + (g[x] - f[x])
  <2>1. /\ \A a \in ATokens : f[a] \in Int /\ g[a] \in Int
        /\ \A a \in ATokens \ {x} : g[a] = f[a]
    BY <1>1, <1>2
  <2>. HIDE DEF f, g, x
  <2>. QED  BY <1>0, <1>1, <2>1, SumChange
<1>4. SumFunctionOnSet(f, ATokens) \in Int
  <2>1. \A a \in ATokens : f[a] \in Int
    BY <1>2
  <2>. HIDE DEF f
  <2>. QED  BY <1>0, <2>1, SumInt
<1>5. /\ f[x] = (IF x \in Named(list, n - 1) THEN Gain(u, x) ELSE 0)
      /\ g[x] = Gain(u, x)
  BY <1>1
<1>6. /\ before.assets = [a \in ATokens |-> IF a \in Named(list, n - 1) THEN Settled(u, a)
                                            ELSE assets[a]]
      /\ before.accrued = SumFunctionOnSet(f, ATokens)
  BY DEF Turn
<1>7. before.assets[x] = IF x \in Named(list, n - 1) THEN Settled(u, x) ELSE assets[x]
  BY <1>1, <1>6
<1>. DEFINE r == updateUsers(before.assets[x], {u}, scaled[x], scaledTotalSupply(x), now)
            p == accruedRewards(before.assets[x], u, scaled[x], scaledTotalSupply(x), now)
<1>8. r = Settled(u, x) /\ p = g[x] - f[x]
  <2>1. CASE x \in Named(list, n - 1)
    <3>1. before.assets[x] = Settled(u, x) /\ g[x] - f[x] = 0
      BY <1>1, <1>2, <1>5, <1>7, <2>1
    <3>2. /\ updateUsers(Settled(u, x), {u}, scaled[x], scaledTotalSupply(x), now) = Settled(u, x)
          /\ accruedRewards(Settled(u, x), u, scaled[x], scaledTotalSupply(x), now) = 0
      <4>1. /\ assets[x] \in AssetData(User) /\ assets[x].lastUpdateTimestamp <= now
            /\ \A v \in User : assets[x].users[v] <= assets[x].index
            /\ scaled[x] \in [User -> Nat] /\ scaledTotalSupply(x) \in Nat /\ now \in Nat
        BY <1>1, RecordTypes
      <4>. QED  BY <4>1, SettledTwice DEF Settled
    <3>. HIDE DEF x, before
    <3>. QED  BY <3>1, <3>2
  <2>2. CASE x \notin Named(list, n - 1)
    <3>1. before.assets[x] = assets[x] /\ g[x] - f[x] = Gain(u, x)
      BY <1>1, <1>2, <1>5, <1>7, <2>2
    <3>. QED  BY <3>1 DEF Settled, Gain
  <2>. QED  BY <2>1, <2>2
<1>9. ClaimOne(u, before, x)
        = [assets |-> [before.assets EXCEPT ![x] = r], accrued |-> before.accrued + p]
  BY DEF ClaimOne
<1>10. Turn(u, list, n)
         = [assets |-> [a \in ATokens |-> IF a \in Named(list, n) THEN Settled(u, a) ELSE assets[a]],
            accrued |-> SumFunctionOnSet(g, ATokens)]
  BY DEF Turn
<1>11. [before.assets EXCEPT ![x] = r]
         = [a \in ATokens |-> IF a \in Named(list, n) THEN Settled(u, a) ELSE assets[a]]
  <2>. HIDE DEF r, x, before
  <2>. QED  BY <1>1, <1>6, <1>8
<1>. HIDE DEF r, p, x, before, f, g
<1>12. before.accrued + p = SumFunctionOnSet(g, ATokens)
  BY <1>3, <1>4, <1>6, <1>8
<1>. QED
  BY <1>9, <1>10, <1>11, <1>12 DEF x, before

LEMMA NoTurn == ASSUME IcIInv, NEW u \in User, NEW list \in Seq(ATokens)
                PROVE  Turn(u, list, 0) = [assets |-> assets, accrued |-> 0]
<1>. DEFINE f == [a \in ATokens |-> IF a \in Named(list, 0) THEN Gain(u, a) ELSE 0]
<1>1. Named(list, 0) = {}
  BY DEF Named
<1>2. \A a \in ATokens : f[a] = 0
  BY <1>1
<1>. HIDE DEF f
<1>3. SumFunctionOnSet(f, ATokens) = 0
  <2>1. IsFiniteSet(ATokens)
    BY ControllerAssumption
  <2>. QED  BY <1>2, <2>1, SumZero
<1>4. [a \in ATokens |-> IF a \in Named(list, 0) THEN Settled(u, a) ELSE assets[a]] = assets
  BY <1>1 DEF IcIInv, ControllerTypeOK
<1>. QED
  BY <1>3, <1>4 DEF Turn, f

\* The explicit turns solve the recursive equation, and every solution is they.
LEMMA LoopExists ==
  ASSUME IcIInv, NEW u \in User, NEW list \in Seq(ATokens)
  PROVE  \E f : IsClaimLoop(u, list, f)
<1>. DEFINE f == [n \in 0 .. Len(list) |-> Turn(u, list, n)]
            G(n) == IF n = 0 THEN [assets |-> assets, accrued |-> 0]
                    ELSE ClaimOne(u, f[n - 1], list[n])
<1>1. Len(list) \in Nat
  OBVIOUS
<1>2. ASSUME NEW n \in 0 .. Len(list) PROVE Turn(u, list, n) = G(n)
  <2>1. CASE n = 0
    BY <2>1, NoTurn
  <2>2. CASE n # 0
    <3>1. n \in 1 .. Len(list) /\ n - 1 \in 0 .. Len(list)
      BY <1>1, <2>2
    <3>2. f[n - 1] = Turn(u, list, n - 1)
      BY <3>1
    <3>3. ClaimOne(u, Turn(u, list, n - 1), list[n]) = Turn(u, list, n)
      BY <3>1, TurnStep
    <3>. HIDE DEF f
    <3>. QED  BY <2>2, <3>2, <3>3
  <2>. QED  BY <2>1, <2>2
<1>3. f = [n \in 0 .. Len(list) |-> G(n)]
  <2>. HIDE DEF G
  <2>. QED  BY <1>2
<1>4. IsClaimLoop(u, list, f)
  <2>. HIDE DEF f
  <2>. QED  BY <1>3 DEF IsClaimLoop
<1>. QED
  BY <1>4

LEMMA LoopIsTurns ==
  ASSUME IcIInv, NEW u \in User, NEW list \in Seq(ATokens), NEW f, IsClaimLoop(u, list, f),
         NEW n \in 0 .. Len(list)
  PROVE  f[n] = Turn(u, list, n)
<1>. DEFINE wrong == {k \in 0 .. Len(list) : f[k] # Turn(u, list, k)}
<1>1. SUFFICES ASSUME n \in wrong PROVE FALSE
  OBVIOUS
<1>2. PICK m \in wrong : \A k \in wrong : m <= k
  <2>1. wrong \in SUBSET Nat
    OBVIOUS
  <2>. HIDE DEF wrong
  <2>. QED  BY <1>1, <2>1, LeastNumber
<1>3. Len(list) \in Nat /\ m \in 0 .. Len(list) /\ f[m] # Turn(u, list, m)
  OBVIOUS
<1>4. f[m] = IF m = 0 THEN [assets |-> assets, accrued |-> 0] ELSE ClaimOne(u, f[m - 1], list[m])
  BY <1>3 DEF IsClaimLoop
<1>5. CASE m = 0
  BY <1>3, <1>4, <1>5, NoTurn
<1>6. CASE m # 0
  <2>1. m \in 1 .. Len(list) /\ m - 1 \in 0 .. Len(list) /\ ~(m <= m - 1)
    BY <1>3, <1>6
  <2>2. f[m - 1] = Turn(u, list, m - 1)
    BY <1>2, <2>1
  <2>. QED  BY <1>3, <1>4, <1>6, <2>1, <2>2, TurnStep
<1>. QED
  BY <1>5, <1>6

\* What a claim over the list leaves and credits: the whole list once, in
\* whatever order and however often it names an aToken.
LEMMA ClaimLoopSettles ==
  ASSUME IcIInv, NEW u \in User, NEW list \in Seq(ATokens)
  PROVE  claimLoop(u, list) = Turn(u, list, Len(list))
<1>. DEFINE f == CHOOSE g : IsClaimLoop(u, list, g)
<1>1. IsClaimLoop(u, list, f)
  BY LoopExists
<1>2. claimLoop(u, list) = f[Len(list)]
  BY DEF claimLoop, IsClaimLoop
<1>3. Len(list) \in 0 .. Len(list)
  OBVIOUS
<1>. HIDE DEF f
<1>. QED
  BY <1>1, <1>2, <1>3, LoopIsTurns

Gains(u, list) == [a \in ATokens |-> IF a \in ToSet(list) THEN Gain(u, a) ELSE 0]

LEMMA ClaimLoopResult ==
  ASSUME IcIInv, NEW u \in User, NEW list \in Seq(ATokens)
  PROVE  /\ claimLoop(u, list).assets
              = [a \in ATokens |-> IF a \in ToSet(list) THEN Settled(u, a) ELSE assets[a]]
         /\ claimLoop(u, list).accrued = SumFunctionOnSet(Gains(u, list), ATokens)
         /\ claimLoop(u, list).accrued \in Nat
         /\ \A a \in ATokens : Gain(u, a) \in Nat
<1>1. claimLoop(u, list) = Turn(u, list, Len(list)) /\ Named(list, Len(list)) = ToSet(list)
  BY ClaimLoopSettles, AllNamed
<1>2. \A a \in ATokens : Gain(u, a) \in Nat
  BY RecordTypes, RewardsAreNat DEF Gain
<1>3. /\ claimLoop(u, list).assets
           = [a \in ATokens |-> IF a \in ToSet(list) THEN Settled(u, a) ELSE assets[a]]
      /\ claimLoop(u, list).accrued = SumFunctionOnSet(Gains(u, list), ATokens)
  BY <1>1 DEF Turn, Gains
<1>4. SumFunctionOnSet(Gains(u, list), ATokens) \in Nat
  <2>. DEFINE f == Gains(u, list)
  <2>1. \A a \in ATokens : f[a] \in Nat
    BY <1>2 DEF Gains
  <2>2. IsFiniteSet(ATokens)
    BY ControllerAssumption
  <2>. HIDE DEF f
  <2>. QED  BY <2>1, <2>2, SumNat DEF f
<1>. QED
  BY <1>2, <1>3, <1>4

------------------------------------------------------------------------------
(* The inductive invariant *)

LEMMA IcInitHolds == IcInit => IcIInv
<1>. SUFFICES ASSUME IcInit PROVE IcIInv
  OBVIOUS
<1>1. TypeOK
  BY TimeAssumption, InputsAssumption DEF IcInit, Init, TypeOK, AssetData, NoAssetData
<1>2. NoAssetData(User) \in AssetData(User)
  BY DEF AssetData, NoAssetData
<1>3. ControllerTypeOK
  BY <1>1, <1>2 DEF IcInit, ControllerTypeOK
<1>4. RecordInOrder(NoAssetData(User))
  BY <1>1, TimeAssumption DEF RecordInOrder, NoAssetData, TypeOK
<1>5. \A u \in User : stakersCooldowns[u] <= now
  BY TimeAssumption DEF IcInit, Init
<1>. QED
  BY <1>3, <1>4, <1>5 DEF IcInit, Init, IcIInv

\* handleAction, told what the aToken has: records and rewards stay in order.
LEMMA HandleKeeps ==
  ASSUME IcIInv, NEW a \in ATokens, NEW us \in SUBSET User,
         handleAction(a, us, scaled[a], scaledTotalSupply(a)), now' = now
  PROVE  /\ assets' \in [ATokens -> AssetData(User)]
         /\ usersUnclaimedRewards' \in [User -> Nat]
         /\ \A b \in ATokens : RecordInOrder(assets[b])'
<1>. DEFINE c == updateUsers(assets[a], us, scaled[a], scaledTotalSupply(a), now)
<1>1. /\ assets[a] \in AssetData(User) /\ assets[a].lastUpdateTimestamp <= now
      /\ \A u \in User : assets[a].users[u] <= assets[a].index
      /\ scaled[a] \in [User -> Nat] /\ scaledTotalSupply(a) \in Nat /\ now \in Nat
  BY RecordTypes
<1>2. /\ c \in AssetData(User) /\ c.lastUpdateTimestamp <= now
      /\ \A u \in User : c.users[u] <= c.index
  BY <1>1, UpdateKeepsOrder
<1>3. \A u \in User :
        accruedRewards(assets[a], u, scaled[a], scaledTotalSupply(a), now) \in Nat
  BY <1>1, RewardsAreNat
<1>4. assets' = [assets EXCEPT ![a] = c]
  BY DEF handleAction
<1>. HIDE DEF c
<1>5. usersUnclaimedRewards' \in [User -> Nat]
  BY <1>3 DEF handleAction, IcIInv, ControllerTypeOK
<1>. QED
  BY <1>2, <1>4, <1>5 DEF IcIInv, ControllerTypeOK, RecordInOrder

LEMMA ChangeKeeps ==
  ASSUME IcIInv, NEW a \in ATokens, NEW us \in SUBSET User, NEW new \in [User -> Nat],
         ChangeScaled(a, us, new)
  PROVE  IcIInv'
<1>1. /\ handleAction(a, us, scaled[a], scaledTotalSupply(a))
      /\ scaled' = [scaled EXCEPT ![a] = new]
      /\ UNCHANGED <<vars, granted, claimed>>
  BY DEF ChangeScaled
<1>2. now' = now
  BY <1>1 DEF vars
<1>3. /\ assets' \in [ATokens -> AssetData(User)] /\ usersUnclaimedRewards' \in [User -> Nat]
      /\ \A b \in ATokens : RecordInOrder(assets[b])'
  BY <1>1, <1>2, HandleKeeps
<1>. QED
  BY <1>1, <1>3 DEF IcIInv, ControllerTypeOK, TypeOK, RecordInOrder, vars

\* What the three operations of an aToken have in common
LEMMA PoolChange ==
  ASSUME IcIInv, PoolStep
  PROVE  \/ \E a \in ATokens, us \in SUBSET User, new \in [User -> Nat] :
              /\ ChangeScaled(a, us, new)
              /\ \A u \in User \ us : new[u] = scaled[a][u]
         \/ \E a \in ATokens, e \in Emissions :
              \E total \in TotalStakedInputs \cup {scaledTotalSupply(a)} : configureAToken(a, e, total)
<1>1. ASSUME NEW a \in ATokens, NEW u \in User, NEW amount \in Deposits, Deposit(a, u, amount)
      PROVE  \E us \in SUBSET User, new \in [User -> Nat] :
               ChangeScaled(a, us, new) /\ \A v \in User \ us : new[v] = scaled[a][v]
  <2>. DEFINE new == [scaled[a] EXCEPT ![u] = @ + amount]
  <2>1. amount \in Nat /\ scaled[a] \in [User -> Nat]
    BY ControllerAssumption DEF IcIInv, ControllerTypeOK
  <2>2. new \in [User -> Nat] /\ {u} \in SUBSET User /\ \A v \in User \ {u} : new[v] = scaled[a][v]
    BY <2>1
  <2>3. ChangeScaled(a, {u}, new)
    BY <1>1 DEF Deposit
  <2>. HIDE DEF new
  <2>. QED  BY <2>2, <2>3
<1>2. ASSUME NEW a \in ATokens, NEW u \in User, NEW amount \in Deposits, Withdraw(a, u, amount)
      PROVE  \E us \in SUBSET User, new \in [User -> Nat] :
               ChangeScaled(a, us, new) /\ \A v \in User \ us : new[v] = scaled[a][v]
  <2>. DEFINE new == [scaled[a] EXCEPT ![u] = @ - amount]
  <2>1. amount \in Nat /\ scaled[a] \in [User -> Nat] /\ amount <= scaled[a][u]
    BY <1>2, ControllerAssumption DEF IcIInv, ControllerTypeOK, Withdraw
  <2>2. new \in [User -> Nat] /\ {u} \in SUBSET User /\ \A v \in User \ {u} : new[v] = scaled[a][v]
    BY <2>1
  <2>3. ChangeScaled(a, {u}, new)
    BY <1>2 DEF Withdraw
  <2>. HIDE DEF new
  <2>. QED  BY <2>2, <2>3
<1>3. ASSUME NEW a \in ATokens, NEW from \in User, NEW to \in User, NEW amount \in Deposits,
             Send(a, from, to, amount)
      PROVE  \E us \in SUBSET User, new \in [User -> Nat] :
               ChangeScaled(a, us, new) /\ \A v \in User \ us : new[v] = scaled[a][v]
  <2>. DEFINE new == Move(scaled[a], from, to, amount)
              us == {from, to}
  <2>1. amount \in Nat /\ scaled[a] \in [User -> Nat] /\ amount <= scaled[a][from]
    BY <1>3, ControllerAssumption DEF IcIInv, ControllerTypeOK, Send
  <2>2. new \in [User -> Nat]
    BY <2>1, MoveKeeps
  <2>3. us \in SUBSET User /\ \A v \in User \ us : new[v] = scaled[a][v]
    BY <2>1 DEF Move
  <2>4. ChangeScaled(a, us, new)
    BY <1>3 DEF Send
  <2>. HIDE DEF new, us
  <2>. QED  BY <2>2, <2>3, <2>4
<1>. QED
  BY <1>1, <1>2, <1>3 DEF PoolStep

LEMMA ConfigureATokenKeeps ==
  ASSUME IcIInv, NEW a \in ATokens, NEW e \in Emissions,
         NEW total \in TotalStakedInputs \cup {scaledTotalSupply(a)}, configureAToken(a, e, total)
  PROVE  IcIInv'
<1>. DEFINE c == updateAssetState(assets[a], total, now)
            d == [c EXCEPT !.emissionPerSecond = e]
<1>1. /\ assets[a] \in AssetData(User) /\ assets[a].lastUpdateTimestamp <= now
      /\ \A u \in User : assets[a].users[u] <= assets[a].index
      /\ total \in Nat /\ now \in Nat
  BY RecordTypes, InputsAssumption
<1>2. /\ c \in AssetData(User) /\ c.lastUpdateTimestamp <= now
      /\ \A u \in User : c.users[u] <= c.index
  <2>1. {} \in SUBSET User
    OBVIOUS
  <2>. QED  BY <1>1, <2>1, UpdateKeepsOrder
<1>3. /\ assets' = [assets EXCEPT ![a] = d]
      /\ UNCHANGED <<vars, scaled, usersUnclaimedRewards, granted, claimed>>
  BY DEF configureAToken
<1>. HIDE DEF c
<1>4. d \in AssetData(User) /\ d.lastUpdateTimestamp <= now
      /\ \A u \in User : d.users[u] <= d.index
  BY <1>2, InputsAssumption DEF AssetData
<1>. HIDE DEF d
<1>5. assets' \in [ATokens -> AssetData(User)]
      /\ \A b \in ATokens : RecordInOrder(assets[b])'
  BY <1>3, <1>4 DEF IcIInv, ControllerTypeOK, RecordInOrder, vars
<1>. QED
  BY <1>3, <1>5 DEF IcIInv, ControllerTypeOK, TypeOK, RecordInOrder, vars

\* What claimRewards of u over the list leaves in the controller, when it takes
\* so much of what he then has
ClaimedBy(u, list, taken) ==
  /\ taken <= usersUnclaimedRewards[u] + SumFunctionOnSet(Gains(u, list), ATokens)
  /\ assets' = [a \in ATokens |-> IF a \in ToSet(list) THEN Settled(u, a) ELSE assets[a]]
  /\ usersUnclaimedRewards' =
       [usersUnclaimedRewards EXCEPT ![u] =
          (usersUnclaimedRewards[u] + SumFunctionOnSet(Gains(u, list), ATokens)) - taken]
  /\ claimed' = claimed + taken
  /\ now' = now
  /\ UNCHANGED <<scaled, granted>>

\* What it pays: nothing, or the amount to someone, or that with the extra as stake
PaidOut(to, taken) ==
  /\ taken <= rex[RewardsVault]
  /\ PayFromVault(to, taken)

PaidAsStake(to, taken) ==
  LET all == taken + (taken * EXTRA_PSM_REWARD) \div 100
  IN  /\ all \in Nat /\ taken <= all /\ all <= rex[RewardsVault]
      /\ StakeFromVault(to, all, taken)

LEMMA ClaimSteps ==
  ASSUME IcIInv, Claim
  PROVE  \E u \in User, list \in Seq(ATokens), taken \in Nat :
           /\ ClaimedBy(u, list, taken)
           /\ \/ taken = 0 /\ UNCHANGED vars
              \/ taken # 0 /\ \E to \in Recipients : PaidOut(to, taken)
              \/ taken # 0 /\ \E to \in User : PaidAsStake(to, taken)
<1>1. PICK u \in User, list \in AssetLists, amount \in ClaimAmounts, stakeThem \in StakeChoices :
        \E to \in IF stakeThem THEN Recipients \cap User ELSE Recipients :
          claimPoolRewards(u, list, amount, to, stakeThem)
  BY DEF Claim
<1>2. PICK to \in IF stakeThem THEN Recipients \cap User ELSE Recipients :
        claimPoolRewards(u, list, amount, to, stakeThem)
  BY <1>1
<1>3. list \in Seq(ATokens) /\ amount \in Nat /\ EXTRA_PSM_REWARD \in Nat /\ stakeThem \in BOOLEAN
  BY ControllerAssumption
<1>. DEFINE gain == SumFunctionOnSet(Gains(u, list), ATokens)
            due == usersUnclaimedRewards[u] + gain
            taken == toClaim(amount, due)
<1>4. /\ claimLoop(u, list).assets
           = [a \in ATokens |-> IF a \in ToSet(list) THEN Settled(u, a) ELSE assets[a]]
      /\ claimLoop(u, list).accrued = gain
      /\ gain \in Nat
  BY <1>3, ClaimLoopResult
<1>5. due \in Nat /\ taken \in Nat /\ taken <= due
  BY <1>3, <1>4 DEF toClaim, IcIInv, ControllerTypeOK
<1>6. /\ assets' = [a \in ATokens |-> IF a \in ToSet(list) THEN Settled(u, a) ELSE assets[a]]
      /\ usersUnclaimedRewards' = [usersUnclaimedRewards EXCEPT ![u] = due - taken]
      /\ claimed' = claimed + taken
      /\ UNCHANGED <<scaled, granted>>
      /\ \/ taken = 0 /\ UNCHANGED vars
         \/ /\ taken # 0 /\ payout(taken, stakeThem) <= rex[RewardsVault]
            /\ IF stakeThem THEN StakeFromVault(to, payout(taken, stakeThem), taken)
               ELSE PayFromVault(to, payout(taken, stakeThem))
  <2>. DEFINE loop == claimLoop(u, list)
              taken2 == toClaim(amount, usersUnclaimedRewards[u] + loop.accrued)
  <2>1. /\ assets' = loop.assets
        /\ usersUnclaimedRewards' =
             [usersUnclaimedRewards EXCEPT ![u] = usersUnclaimedRewards[u] + loop.accrued - taken2]
        /\ claimed' = claimed + taken2
        /\ IF taken2 = 0 THEN UNCHANGED vars
           ELSE /\ payout(taken2, stakeThem) <= rex[RewardsVault]
                /\ IF stakeThem THEN StakeFromVault(to, payout(taken2, stakeThem), taken2)
                   ELSE PayFromVault(to, payout(taken2, stakeThem))
        /\ UNCHANGED <<scaled, granted>>
    BY <1>2 DEF claimPoolRewards, rest
  <2>2. /\ usersUnclaimedRewards[u] + loop.accrued = due /\ taken2 = taken
        /\ usersUnclaimedRewards[u] + loop.accrued - taken2 = due - taken
    <3>1. usersUnclaimedRewards[u] + loop.accrued = due /\ taken2 = taken /\ loop.accrued \in Nat
      BY <1>4
    <3>2. usersUnclaimedRewards[u] \in Nat
      BY DEF IcIInv, ControllerTypeOK
    <3>. HIDE DEF loop, taken2, taken, due, gain
    <3>. QED  BY <1>5, <3>1, <3>2
  <2>. HIDE DEF loop, taken2, taken, due, gain
  <2>3. assets' = [a \in ATokens |-> IF a \in ToSet(list) THEN Settled(u, a) ELSE assets[a]]
    BY <1>4, <2>1 DEF loop
  <2>. QED  BY <2>1, <2>2, <2>3
<1>. HIDE DEF gain, due, taken
<1>7. \/ taken = 0 /\ UNCHANGED vars
      \/ taken # 0 /\ \E r \in Recipients : PaidOut(r, taken)
      \/ taken # 0 /\ \E r \in User : PaidAsStake(r, taken)
  <2>1. CASE taken = 0 /\ UNCHANGED vars
    BY <2>1
  <2>2. CASE taken # 0 /\ ~stakeThem
    <3>1. to \in Recipients /\ payout(taken, stakeThem) = taken
      BY <1>2, <2>2 DEF payout
    <3>. QED  BY <1>6, <2>2, <3>1 DEF PaidOut
  <2>3. CASE taken # 0 /\ stakeThem
    <3>. DEFINE extra == (taken * EXTRA_PSM_REWARD) \div 100
    <3>1. to \in User /\ payout(taken, stakeThem) = taken + extra
      BY <1>2, <2>3 DEF payout
    <3>2. taken * EXTRA_PSM_REWARD \in Nat
      BY <1>3, <1>5
    <3>3. extra \in Nat
      BY <3>2, Quotient
    <3>. HIDE DEF extra
    <3>4. taken + extra \in Nat /\ taken <= taken + extra
      BY <1>5, <3>3
    <3>. QED  BY <1>6, <2>3, <3>1, <3>4 DEF PaidAsStake, extra
  <2>. QED  BY <1>6, <2>1, <2>2, <2>3
<1>8. now' = now
  BY <1>7 DEF vars, PaidOut, PaidAsStake, PayFromVault, StakeFromVault
<1>9. ClaimedBy(u, list, taken)
  <2>1. /\ usersUnclaimedRewards' = [usersUnclaimedRewards EXCEPT ![u] =
             (usersUnclaimedRewards[u] + SumFunctionOnSet(Gains(u, list), ATokens)) - taken]
        /\ taken <= usersUnclaimedRewards[u] + SumFunctionOnSet(Gains(u, list), ATokens)
    BY <1>5, <1>6 DEF due, gain
  <2>. QED  BY <1>6, <1>8, <2>1 DEF ClaimedBy
<1>. QED
  BY <1>3, <1>5, <1>7, <1>9

LEMMA PaymentInOrder ==
  ASSUME PSMInOrder, NEW taken \in Nat, taken # 0,
         (\E to \in Recipients : PaidOut(to, taken)) \/ (\E to \in User : PaidAsStake(to, taken))
  PROVE  PSMInOrder'
<1>1. ASSUME NEW to \in Recipients, PaidOut(to, taken) PROVE PSMInOrder'
  <2>1. /\ rex' = Move(rex, RewardsVault, to, taken) /\ taken <= rex[RewardsVault]
        /\ UNCHANGED <<now, balances, totalSupply, asset, stakerRewardsToClaim, stakersCooldowns>>
    BY <1>1 DEF PaidOut, PayFromVault
  <2>2. rex' \in [RexAccount -> Nat]
    <3>1. to \in RexAccount /\ RewardsVault \in RexAccount /\ rex \in [RexAccount -> Nat]
      BY InputsAssumption DEF PSMInOrder, TypeOK, RexAccount
    <3>. QED  BY <2>1, <3>1, MoveKeeps
  <2>. QED  BY <2>1, <2>2 DEF PSMInOrder, TypeOK, RecordInOrder
<1>2. ASSUME NEW to \in User, PaidAsStake(to, taken) PROVE PSMInOrder'
  <2>. DEFINE all == taken + (taken * EXTRA_PSM_REWARD) \div 100
  <2>1. all \in Nat /\ taken <= all /\ all <= rex[RewardsVault] /\ StakeFromVault(to, all, taken)
    BY <1>2 DEF PaidAsStake
  <2>. HIDE DEF all
  <2>2. all # 0
    BY <2>1
  <2>3. /\ UpdateRewards({to}) /\ Mint(to, all) /\ now' = now
        /\ stakersCooldowns' = [stakersCooldowns EXCEPT ![to] =
                                  getNextCooldownTimestamp(0, all, to, balances[to])]
        /\ rex' = [rex EXCEPT ![RewardsVault] = @ - all, ![StakeContract] = @ + all]
    BY <2>1 DEF StakeFromVault, minted
  <2>4. rex' \in [RexAccount -> Nat]
    BY <2>1, <2>3, AccountsAssumption DEF PSMInOrder, TypeOK, RexAccount
  <2>. QED  BY <2>1, <2>2, <2>3, <2>4, StakedInOrder
<1>. QED
  BY <1>1, <1>2

LEMMA ClaimKeepsOrder == ASSUME IcIInv, Claim PROVE IcIInv'
<1>1. PICK u \in User, list \in Seq(ATokens), taken \in Nat :
        /\ ClaimedBy(u, list, taken)
        /\ \/ taken = 0 /\ UNCHANGED vars
           \/ taken # 0 /\ \E to \in Recipients : PaidOut(to, taken)
           \/ taken # 0 /\ \E to \in User : PaidAsStake(to, taken)
  BY ClaimSteps
<1>2. PSMInOrder'
  <2>1. PSMInOrder
    BY DEF PSMInOrder, IcIInv, ControllerTypeOK
  <2>2. CASE taken = 0 /\ UNCHANGED vars
    BY <2>1, <2>2 DEF PSMInOrder, TypeOK, RecordInOrder, vars
  <2>. QED  BY <1>1, <2>1, <2>2, PaymentInOrder
<1>3. ASSUME NEW a \in ATokens PROVE assets'[a] \in AssetData(User) /\ RecordInOrder(assets[a])'
  <2>1. /\ assets[a] \in AssetData(User) /\ assets[a].lastUpdateTimestamp <= now
        /\ \A v \in User : assets[a].users[v] <= assets[a].index
        /\ scaled[a] \in [User -> Nat] /\ scaledTotalSupply(a) \in Nat /\ now \in Nat
    BY RecordTypes
  <2>2. /\ Settled(u, a) \in AssetData(User) /\ Settled(u, a).lastUpdateTimestamp <= now
        /\ \A v \in User : Settled(u, a).users[v] <= Settled(u, a).index
    <3>1. {u} \in SUBSET User
      OBVIOUS
    <3>. QED  BY <2>1, <3>1, UpdateKeepsOrder DEF Settled
  <2>3. (assets'[a] = Settled(u, a) \/ assets'[a] = assets[a]) /\ now' = now
    BY <1>1 DEF ClaimedBy
  <2>. QED  BY <2>1, <2>2, <2>3 DEF RecordInOrder
<1>4. assets' \in [ATokens -> AssetData(User)]
  BY <1>1, <1>3 DEF ClaimedBy
<1>5. usersUnclaimedRewards' \in [User -> Nat]
  <2>1. SumFunctionOnSet(Gains(u, list), ATokens) \in Nat
    BY ClaimLoopResult
  <2>. DEFINE gain == SumFunctionOnSet(Gains(u, list), ATokens)
  <2>2. /\ gain \in Nat /\ usersUnclaimedRewards \in [User -> Nat]
        /\ taken <= usersUnclaimedRewards[u] + gain
        /\ usersUnclaimedRewards' =
             [usersUnclaimedRewards EXCEPT ![u] = (usersUnclaimedRewards[u] + gain) - taken]
    BY <1>1, <2>1 DEF ClaimedBy, IcIInv, ControllerTypeOK
  <2>. HIDE DEF gain
  <2>3. (usersUnclaimedRewards[u] + gain) - taken \in Nat
    BY <2>2
  <2>. QED  BY <2>2, <2>3
<1>6. scaled' \in [ATokens -> [User -> Nat]] /\ granted' \in Nat /\ claimed' \in Nat
  BY <1>1 DEF ClaimedBy, IcIInv, ControllerTypeOK
<1>. QED
  BY <1>2, <1>3, <1>4, <1>5, <1>6 DEF PSMInOrder, IcIInv, ControllerTypeOK

\* What the emissions grant in the next second
LEMMA GrantedIsNat ==
  ASSUME IcIInv
  PROVE  GrantedUntil(now + 1) \in Nat
<1>. DEFINE f == [a \in ATokens |-> IF scaledTotalSupply(a) = 0 THEN 0
                    ELSE assets[a].emissionPerSecond * (UpToEnd(now + 1) - UpToEnd(now))]
<1>1. now \in Nat /\ now + 1 \in Nat /\ now <= now + 1
  BY TimeAssumption DEF IcIInv, ControllerTypeOK, TypeOK
<1>2. UpToEnd(now + 1) - UpToEnd(now) \in Nat
  BY <1>1, UpToEndGrows
<1>3. \A a \in ATokens : assets[a].emissionPerSecond \in Nat
  BY DEF IcIInv, ControllerTypeOK, AssetData
<1>4. \A a \in ATokens : f[a] \in Nat
  BY <1>2, <1>3
<1>5. IsFiniteSet(ATokens)
  BY ControllerAssumption
<1>. HIDE DEF f
<1>6. SumFunctionOnSet(f, ATokens) \in Nat
  BY <1>4, <1>5, SumNat
<1>. QED
  BY <1>6 DEF GrantedUntil, f

LEMMA IcTickKeeps == ASSUME IcIInv, Tick PROVE IcIInv'
<1>1. /\ now < MaxTime /\ now' = now + 1
      /\ UNCHANGED <<balances, totalSupply, asset, stakerRewardsToClaim, stakersCooldowns, rex>>
      /\ UNCHANGED <<scaled, assets, usersUnclaimedRewards, claimed>>
      /\ granted' = granted + GrantedUntil(now + 1)
  BY DEF Tick, tick, controllerVars
<1>2. granted' \in Nat
  BY <1>1, GrantedIsNat DEF IcIInv, ControllerTypeOK
<1>3. now \in Nat /\ now' \in StartTime .. MaxTime /\ TypeOK'
  BY <1>1, TimeAssumption DEF IcIInv, ControllerTypeOK, TypeOK
<1>4. RecordInOrder(asset)' /\ \A a \in ATokens : RecordInOrder(assets[a])'
  BY <1>1, <1>3 DEF IcIInv, ControllerTypeOK, TypeOK, AssetData, RecordInOrder
<1>5. \A u \in User : stakersCooldowns'[u] <= now'
  BY <1>1, <1>3 DEF IcIInv, ControllerTypeOK, TypeOK
<1>. QED
  BY <1>1, <1>2, <1>3, <1>4, <1>5 DEF IcIInv, ControllerTypeOK

LEMMA IcPSMKeeps == ASSUME IcIInv, PSMStep PROVE IcIInv' /\ now' = now
<1>1. PSMInOrder' /\ now' = now
  <2>1. PSMInOrder
    BY DEF PSMInOrder, IcIInv, ControllerTypeOK
  <2>. QED  BY <2>1, PSMStepInOrder
<1>2. UNCHANGED <<scaled, assets, usersUnclaimedRewards, claimed, granted>>
  BY DEF PSMStep, controllerVars
<1>. QED
  BY <1>1, <1>2 DEF PSMInOrder, IcIInv, ControllerTypeOK, RecordInOrder

LEMMA IcStutterKeeps == ASSUME IcIInv, UNCHANGED icVars PROVE IcIInv'
BY DEF icVars, vars, controllerVars, IcIInv, ControllerTypeOK, TypeOK, RecordInOrder

LEMMA IcNextKeeps == IcIInv /\ [IcNext]_icVars => IcIInv'
<1>1. ASSUME IcIInv, PoolStep PROVE IcIInv'
  BY <1>1, PoolChange, ChangeKeeps, ConfigureATokenKeeps
<1>. QED
  BY <1>1, ClaimKeepsOrder, IcPSMKeeps, IcTickKeeps, IcStutterKeeps DEF IcNext

THEOREM PoolInductiveInvariant == IcSpec => []IcIInv
BY IcInitHolds, IcNextKeeps, PTL DEF IcSpec

\* Every number of the controller and of the token it stakes into stays a
\* natural one: the cap of claimRewards keeps the unclaimed rest from
\* underflowing, whatever list, amount and destination a claim is given.
THEOREM PoolTypeCorrect == IcSpec => []ControllerTypeOK
<1>1. IcIInv => ControllerTypeOK
  BY DEF IcIInv
<1>. QED
  BY <1>1, PoolInductiveInvariant, PTL

------------------------------------------------------------------------------
(* What the emissions grant *)

\* Pending, for one record r and balances b at the time t
PendingOf(r, b, t) ==
  Accruing(r, b, r.index)
  + UNIT * (IF SumFunctionOnSet(b, User) = 0 THEN 0
            ELSE r.emissionPerSecond * (UpToEnd(t) - UpToEnd(r.lastUpdateTimestamp)))

LEMMA PendingIs ==
  ASSUME NEW a \in ATokens
  PROVE  Pending(a) = PendingOf(assets[a], scaled[a], now)
         /\ Pending(a)' = PendingOf(assets'[a], scaled'[a], now')
<1>1. ASSUME NEW r, NEW b, NEW i
      PROVE  Accruing(r, b, i) = SumFunctionOnSet([u \in User |-> b[u] * (i - r.users[u])], User)
  <2>. DEFINE f == [u \in User |-> b[u] * (i - r.users[u])]
  <2>1. DOMAIN f = User /\ Accruing(r, b, i) = SumFunction(f)
    BY DEF Accruing
  <2>. HIDE DEF f
  <2>. QED  BY <2>1, SumOverUsers DEF f
<1>. QED
  BY <1>1 DEF Pending, PendingOf, scaledTotalSupply

\* When the index moves, the sum of the balances earns the difference.
LEMMA AccruingAtOtherIndex ==
  ASSUME NEW r \in AssetData(User), NEW b \in [User -> Nat], NEW i \in Nat, NEW j \in Nat
  PROVE  /\ Accruing(r, b, j) = Accruing(r, b, i) + SumFunctionOnSet(b, User) * (j - i)
         /\ Accruing(r, b, i) \in Int /\ Accruing(r, b, j) \in Int
         /\ SumFunctionOnSet(b, User) \in Nat
<1>. DEFINE none == [u \in User |-> 0]
            s == UNIT * SumFunction(none)
<1>1. none \in [User -> Nat]
  OBVIOUS
<1>. HIDE DEF none
<1>2. /\ Owed(r, b, none, i) = s + Accruing(r, b, i) /\ Accruing(r, b, i) \in Int
      /\ Owed(r, b, none, j) = s + Accruing(r, b, j) /\ Accruing(r, b, j) \in Int
      /\ SumFunction(none) \in Nat
  BY <1>1, OwedSplits
<1>3. Owed(r, b, none, j) = Owed(r, b, none, i) + SumFunction(b) * (j - i)
  BY <1>1, OwedAtOtherIndex
<1>4. SumFunction(b) = SumFunctionOnSet(b, User) /\ SumFunctionOnSet(b, User) \in Nat
  <2>1. DOMAIN b = User /\ \A u \in User : b[u] \in Nat
    OBVIOUS
  <2>. QED  BY <2>1, FiniteUsersAssumption, SumOverUsers, SumNat
<1>5. s \in Int
  BY <1>2, UnitAssumption
<1>. HIDE DEF s
<1>. DEFINE d == SumFunctionOnSet(b, User) * (j - i)
<1>6. d \in Int /\ Owed(r, b, none, j) = Owed(r, b, none, i) + d
  BY <1>3, <1>4
<1>. HIDE DEF d
<1>7. Accruing(r, b, j) = Accruing(r, b, i) + d
  <2>. DEFINE x == Accruing(r, b, i)
              y == Accruing(r, b, j)
  <2>1. x \in Int /\ y \in Int /\ d \in Int /\ s \in Int
    BY <1>2, <1>5, <1>6
  <2>2. s + y = (s + x) + d
    BY <1>2, <1>6
  <2>. HIDE DEF x, y
  <2>3. y = x + d
    BY <2>1, <2>2
  <2>. QED  BY <2>3 DEF x, y
<1>. QED
  BY <1>2, <1>4, <1>7 DEF d

\* At the index of the present no more accrues than is pending, if it is
\* computed with a total that is not understated.
LEMMA PendingCovers ==
  ASSUME NEW r \in AssetData(User), NEW b \in [User -> Nat], NEW t \in Nat,
         r.lastUpdateTimestamp <= t,
         NEW total \in Nat, total = 0 \/ SumFunctionOnSet(b, User) <= total
  PROVE  /\ getAssetIndex(r, total, t) \in Nat
         /\ Accruing(r, b, getAssetIndex(r, total, t)) \in Int
         /\ PendingOf(r, b, t) \in Int
         /\ Accruing(r, b, getAssetIndex(r, total, t)) <= PendingOf(r, b, t)
<1>. DEFINE supply == SumFunctionOnSet(b, User)
            i == getAssetIndex(r, total, t)
            grant == IF supply = 0 THEN 0
                     ELSE r.emissionPerSecond * (UpToEnd(t) - UpToEnd(r.lastUpdateTimestamp))
<1>1. r.index \in Nat /\ UNIT \in Nat
  BY UnitAssumption DEF AssetData
<1>2. supply \in Nat
  BY <1>1, AccruingAtOtherIndex
<1>3. i \in Nat /\ grant \in Nat /\ supply * (i - r.index) <= UNIT * grant
  <2>1. total = 0 \/ supply <= total
    OBVIOUS
  <2>. HIDE DEF supply
  <2>. QED  BY <1>2, <2>1, IndexWithinEmission
<1>4. PendingOf(r, b, t) = Accruing(r, b, r.index) + UNIT * grant
  BY DEF PendingOf
<1>. HIDE DEF i, grant
<1>5. /\ Accruing(r, b, i) = Accruing(r, b, r.index) + supply * (i - r.index)
      /\ Accruing(r, b, r.index) \in Int /\ Accruing(r, b, i) \in Int
  BY <1>1, <1>3, AccruingAtOtherIndex
<1>. HIDE DEF supply
<1>6. supply * (i - r.index) \in Int /\ UNIT * grant \in Int
  BY <1>1, <1>2, <1>3
<1>7. Accruing(r, b, i) <= PendingOf(r, b, t) /\ PendingOf(r, b, t) \in Int
  BY <1>3, <1>4, <1>5, <1>6
<1>. QED
  BY <1>3, <1>5, <1>7 DEF i

\* At the true supply in particular.
LEMMA PendingCoversSupply ==
  ASSUME NEW r \in AssetData(User), NEW b \in [User -> Nat], NEW t \in Nat,
         r.lastUpdateTimestamp <= t
  PROVE  /\ getAssetIndex(r, SumFunctionOnSet(b, User), t) \in Nat
         /\ Accruing(r, b, getAssetIndex(r, SumFunctionOnSet(b, User), t)) \in Int
         /\ PendingOf(r, b, t) \in Int
         /\ Accruing(r, b, getAssetIndex(r, SumFunctionOnSet(b, User), t)) <= PendingOf(r, b, t)
<1>. DEFINE supply == SumFunctionOnSet(b, User)
<1>1. r.index \in Nat
  BY DEF AssetData
<1>2. supply \in Nat /\ supply <= supply
  BY <1>1, AccruingAtOtherIndex
<1>3. supply = SumFunctionOnSet(b, User)
  OBVIOUS
<1>. HIDE DEF supply
<1>. QED
  BY <1>2, <1>3, PendingCovers

\* A record of the present has nothing emitted pending.
LEMMA PendingOfPresent ==
  ASSUME NEW r \in AssetData(User), NEW b, NEW t \in Nat, r.lastUpdateTimestamp = t,
         Accruing(r, b, r.index) \in Int
  PROVE  PendingOf(r, b, t) = Accruing(r, b, r.index)
<1>1. UpToEnd(t) \in Nat /\ UNIT \in Nat /\ r.emissionPerSecond \in Nat
  BY EndAssumption, UnitAssumption DEF UpToEnd, AssetData
<1>2. UpToEnd(t) - UpToEnd(r.lastUpdateTimestamp) = 0
  BY <1>1
<1>3. (IF SumFunctionOnSet(b, User) = 0 THEN 0
       ELSE r.emissionPerSecond * (UpToEnd(t) - UpToEnd(r.lastUpdateTimestamp))) = 0
  BY <1>1, <1>2
<1>. QED
  BY <1>1, <1>3 DEF PendingOf

\* An update credits at most what is pending less.
LEMMA UpdatePending ==
  ASSUME NEW r \in AssetData(User), NEW us \in SUBSET User,
         NEW b \in [User -> Nat], NEW credited \in [User -> Nat],
         NEW t \in Nat, r.lastUpdateTimestamp <= t, \A u \in User : r.users[u] <= r.index,
         NEW b2 \in [User -> Nat], \A u \in User \ us : b2[u] = b[u],
         NEW credited2 \in [User -> Nat],
         \A u \in User : credited2[u] =
           IF u \in us
           THEN credited[u] + accruedRewards(r, u, b, SumFunctionOnSet(b, User), t)
           ELSE credited[u]
  PROVE  /\ PendingOf(updateUsers(r, us, b, SumFunctionOnSet(b, User), t), b2, t) \in Int
         /\ UNIT * SumFunction(credited2)
              + PendingOf(updateUsers(r, us, b, SumFunctionOnSet(b, User), t), b2, t)
              <= UNIT * SumFunction(credited) + PendingOf(r, b, t)
<1>. DEFINE supply == SumFunctionOnSet(b, User)
            c == updateUsers(r, us, b, supply, t)
            i == getAssetIndex(r, supply, t)
<1>1. supply \in Nat
  <2>1. \A u \in User : b[u] \in Nat
    OBVIOUS
  <2>. QED  BY <2>1, FiniteUsersAssumption, SumNat
<1>2. UpdateGives(r, us, b, supply, t) /\ Owed(c, b2, credited2, i) <= Owed(r, b, credited, i)
  <2>1. \A u \in User : credited2[u] =
          IF u \in us THEN credited[u] + accruedRewards(r, u, b, supply, t) ELSE credited[u]
    OBVIOUS
  <2>. HIDE DEF supply
  <2>. QED  BY <1>1, <2>1, UpdateOwes
<1>3. c \in AssetData(User) /\ c.index = i /\ c.lastUpdateTimestamp = t /\ i \in Nat
  BY <1>2 DEF UpdateGives
<1>4. /\ Accruing(r, b, i) \in Int /\ PendingOf(r, b, t) \in Int
      /\ Accruing(r, b, i) <= PendingOf(r, b, t)
  BY PendingCoversSupply
<1>. HIDE DEF supply, c, i
<1>5. /\ Owed(c, b2, credited2, i) = UNIT * SumFunction(credited2) + Accruing(c, b2, i)
      /\ Owed(r, b, credited, i) = UNIT * SumFunction(credited) + Accruing(r, b, i)
      /\ SumFunction(credited) \in Nat /\ SumFunction(credited2) \in Nat
      /\ Accruing(c, b2, i) \in Int
  BY <1>3, OwedSplits
<1>6. PendingOf(c, b2, t) = Accruing(c, b2, i)
  BY <1>3, <1>5, PendingOfPresent
<1>7. UNIT * SumFunction(credited2) \in Int /\ UNIT * SumFunction(credited) \in Int
  BY <1>5, UnitAssumption
<1>8. /\ PendingOf(c, b2, t) \in Int
      /\ UNIT * SumFunction(credited2) + PendingOf(c, b2, t)
           <= UNIT * SumFunction(credited) + PendingOf(r, b, t)
  BY <1>2, <1>4, <1>5, <1>6, <1>7
<1>. QED
  BY <1>8 DEF c, supply

LEMMA PendingIsInt ==
  ASSUME IcIInv, NEW a \in ATokens
  PROVE  Pending(a) \in Int
<1>1. /\ assets[a] \in AssetData(User) /\ assets[a].lastUpdateTimestamp <= now
      /\ scaled[a] \in [User -> Nat] /\ now \in Nat
  BY RecordTypes
<1>2. PendingOf(assets[a], scaled[a], now) \in Int
  BY <1>1, PendingCoversSupply
<1>. QED
  BY <1>2, PendingIs

LEMMA UnclaimedSum ==
  ASSUME NEW f \in [User -> Nat]
  PROVE  SumFunction(f) = SumFunctionOnSet(f, User) /\ SumFunctionOnSet(f, User) \in Nat
<1>1. DOMAIN f = User /\ \A u \in User : f[u] \in Nat
  OBVIOUS
<1>. QED
  BY <1>1, FiniteUsersAssumption, SumOverUsers, SumNat

\* A step that gives users at most what it takes from what is pending keeps
\* the account in order.
LEMMA AccountKept ==
  ASSUME NEW k \in Nat, NEW c \in Int, NEW s \in Int, NEW c2 \in Int, NEW s2 \in Int,
         NEW more \in Int, NEW p \in Int, NEW p2 \in Int, NEW g \in Int,
         c2 + s2 = (c + s) + more, k * more + p2 <= p, k * (c + s) + p <= g
  PROVE  k * (c2 + s2) + p2 <= g
<1>1. k * (c2 + s2) = k * (c + s) + k * more
  BY Z3
<1>2. k * (c + s) \in Int /\ k * more \in Int /\ k * (c2 + s2) \in Int
  OBVIOUS
<1>. QED
  BY <1>1, <1>2

LEMMA ChangeAccounted ==
  ASSUME IcIInv, IcIInv', PoolAccounted, NEW a \in ATokens, NEW us \in SUBSET User,
         NEW new \in [User -> Nat], ChangeScaled(a, us, new),
         \A u \in User \ us : new[u] = scaled[a][u]
  PROVE  PoolAccounted'
<1>. DEFINE S == SumFunctionOnSet(usersUnclaimedRewards, User)
            S2 == SumFunctionOnSet(usersUnclaimedRewards', User)
            f == [b \in ATokens |-> Pending(b)]
            g == [b \in ATokens |-> Pending(b)']
            b0 == scaled[a]
            r == assets[a]
<1>0. IsFiniteSet(ATokens)
  BY ControllerAssumption
<1>1. /\ handleAction(a, us, scaled[a], scaledTotalSupply(a))
      /\ scaled' = [scaled EXCEPT ![a] = new]
      /\ now' = now /\ granted' = granted /\ claimed' = claimed
  BY DEF ChangeScaled, vars
<1>2. /\ r \in AssetData(User) /\ r.lastUpdateTimestamp <= now
      /\ \A u \in User : r.users[u] <= r.index
      /\ b0 \in [User -> Nat] /\ now \in Nat
      /\ scaledTotalSupply(a) = SumFunctionOnSet(b0, User)
  BY RecordTypes DEF scaledTotalSupply
<1>3. /\ usersUnclaimedRewards \in [User -> Nat] /\ usersUnclaimedRewards' \in [User -> Nat]
      /\ assets \in [ATokens -> AssetData(User)] /\ scaled \in [ATokens -> [User -> Nat]]
      /\ granted \in Nat /\ claimed \in Nat
  BY DEF IcIInv, ControllerTypeOK
<1>4. /\ scaled'[a] = new /\ \A b \in ATokens \ {a} : scaled'[b] = scaled[b]
      /\ assets'[a] = updateUsers(r, us, b0, SumFunctionOnSet(b0, User), now)
      /\ \A b \in ATokens \ {a} : assets'[b] = assets[b]
      /\ \A u \in User : usersUnclaimedRewards'[u] =
           IF u \in us
           THEN usersUnclaimedRewards[u] + accruedRewards(r, u, b0, SumFunctionOnSet(b0, User), now)
           ELSE usersUnclaimedRewards[u]
      /\ \A u \in User \ us : new[u] = b0[u]
  BY <1>1, <1>2, <1>3 DEF handleAction
<1>5. Pending(a) = PendingOf(r, b0, now) /\ Pending(a)' = PendingOf(assets'[a], new, now)
  BY <1>1, <1>4, PendingIs
<1>6. \A b \in ATokens \ {a} : Pending(b)' = Pending(b)
  BY <1>1, <1>4, PendingIs
<1>. HIDE DEF b0, r
<1>7. /\ Pending(a)' \in Int
      /\ UNIT * SumFunction(usersUnclaimedRewards') + Pending(a)'
           <= UNIT * SumFunction(usersUnclaimedRewards) + Pending(a)
  <2>. DEFINE x == usersUnclaimedRewards
              y == usersUnclaimedRewards'
              c == updateUsers(r, us, b0, SumFunctionOnSet(b0, User), now)
  <2>1. /\ x \in [User -> Nat] /\ y \in [User -> Nat]
        /\ \A u \in User : y[u] =
             IF u \in us THEN x[u] + accruedRewards(r, u, b0, SumFunctionOnSet(b0, User), now)
             ELSE x[u]
    BY <1>3, <1>4
  <2>2. \A u \in User \ us : new[u] = b0[u]
    BY <1>4
  <2>. HIDE DEF x, y
  <2>3. /\ PendingOf(c, new, now) \in Int
        /\ UNIT * SumFunction(y) + PendingOf(c, new, now)
             <= UNIT * SumFunction(x) + PendingOf(r, b0, now)
    BY <1>2, <2>1, <2>2, UpdatePending
  <2>. QED  BY <1>4, <1>5, <2>3 DEF x, y
<1>8. /\ SumFunction(usersUnclaimedRewards) = S /\ S \in Nat
      /\ SumFunction(usersUnclaimedRewards') = S2 /\ S2 \in Nat
  BY <1>3, UnclaimedSum
<1>9. /\ \A b \in ATokens : f[b] \in Int /\ g[b] \in Int
      /\ \A b \in ATokens \ {a} : g[b] = f[b]
      /\ f[a] = Pending(a) /\ g[a] = Pending(a)'
  BY <1>6, <1>7, PendingIsInt
<1>10. PoolAccounted => UNIT * (claimed + S) + SumFunctionOnSet(f, ATokens) <= UNIT * granted
  BY DEF PoolAccounted
<1>11. UNIT * (claimed + S2) + SumFunctionOnSet(g, ATokens) <= UNIT * granted => PoolAccounted'
  BY <1>1 DEF PoolAccounted
<1>. HIDE DEF f, g, S, S2
<1>12. /\ SumFunctionOnSet(g, ATokens) = SumFunctionOnSet(f, ATokens) + (g[a] - f[a])
       /\ SumFunctionOnSet(f, ATokens) \in Int /\ SumFunctionOnSet(g, ATokens) \in Int
  <2>1. \A x \in ATokens : f[x] \in Int /\ g[x] \in Int
    BY <1>9
  <2>2. SumFunctionOnSet(g, ATokens) = SumFunctionOnSet(f, ATokens) + (g[a] - f[a])
    <3>1. \A x \in ATokens \ {a} : g[x] = f[x]
      BY <1>9
    <3>. QED  BY <1>0, <2>1, <3>1, SumChange
  <2>. QED  BY <1>0, <2>1, <2>2, SumInt
<1>. DEFINE p == SumFunctionOnSet(f, ATokens)
            p2 == SumFunctionOnSet(g, ATokens)
            more == S2 - S
<1>13. UNIT \in Nat /\ UNIT * granted \in Int
  BY <1>3, UnitAssumption
<1>14. UNIT * more + p2 <= p
  <2>1. UNIT * more = UNIT * S2 - UNIT * S /\ UNIT * S \in Int /\ UNIT * S2 \in Int
    BY <1>8, <1>13
  <2>2. g[a] \in Int /\ f[a] \in Int /\ UNIT * S2 + g[a] <= UNIT * S + f[a]
    BY <1>7, <1>8, <1>9
  <2>. HIDE DEF more
  <2>. QED  BY <1>12, <2>1, <2>2
<1>15. more \in Int /\ claimed + S2 = (claimed + S) + more
  BY <1>3, <1>8
<1>16. UNIT * (claimed + S) + p <= UNIT * granted
  BY <1>10
<1>. HIDE DEF p, p2, more
<1>17. UNIT * (claimed + S2) + p2 <= UNIT * granted
  <2>1. p \in Int /\ p2 \in Int /\ claimed \in Int /\ S \in Int /\ S2 \in Int
    BY <1>3, <1>8, <1>12 DEF p, p2
  <2>. QED  BY <1>13, <1>14, <1>15, <1>16, <2>1, AccountKept
<1>. QED
  BY <1>11, <1>17 DEF p2

LEMMA ConfigureATokenAccounted ==
  ASSUME IcIInv, IcIInv', PoolAccounted, NEW a \in ATokens, NEW e \in Emissions,
         NEW total \in TotalStakedInputs \cup {scaledTotalSupply(a)},
         total = 0 \/ scaledTotalSupply(a) <= total, configureAToken(a, e, total)
  PROVE  PoolAccounted'
<1>. DEFINE S == SumFunctionOnSet(usersUnclaimedRewards, User)
            f == [b \in ATokens |-> Pending(b)]
            g == [b \in ATokens |-> Pending(b)']
            b0 == scaled[a]
            r == assets[a]
            i == getAssetIndex(r, total, now)
            c == updateAssetState(r, total, now)
            d == [c EXCEPT !.emissionPerSecond = e]
<1>0. IsFiniteSet(ATokens)
  BY ControllerAssumption
<1>1. /\ r \in AssetData(User) /\ r.lastUpdateTimestamp <= now
      /\ \A u \in User : r.users[u] <= r.index
      /\ b0 \in [User -> Nat] /\ now \in Nat
      /\ scaledTotalSupply(a) = SumFunctionOnSet(b0, User)
      /\ SumFunctionOnSet(b0, User) \in Nat /\ total \in Nat
      /\ total = 0 \/ SumFunctionOnSet(b0, User) <= total
  BY RecordTypes, InputsAssumption DEF scaledTotalSupply
<1>2. /\ usersUnclaimedRewards \in [User -> Nat]
      /\ assets \in [ATokens -> AssetData(User)] /\ scaled \in [ATokens -> [User -> Nat]]
      /\ granted \in Nat /\ claimed \in Nat
  BY DEF IcIInv, ControllerTypeOK
<1>3. /\ assets' = [assets EXCEPT ![a] = d] /\ now' = now /\ scaled' = scaled
      /\ UNCHANGED <<usersUnclaimedRewards, granted, claimed>>
  BY <1>1 DEF configureAToken, vars
<1>4. /\ assets'[a] = d /\ scaled'[a] = b0
      /\ \A b \in ATokens \ {a} : assets'[b] = assets[b]
  BY <1>2, <1>3
<1>. HIDE DEF r, b0
<1>5. c \in AssetData(User) /\ c.index = i /\ c.lastUpdateTimestamp = now /\ c.users = r.users
  <2>1. c.index = i
    BY <1>1, IndexOfNow
  <2>2. c \in AssetData(User)
    <3>1. {} \in SUBSET User
      OBVIOUS
    <3>. QED  BY <1>1, <3>1, UpdateKeepsOrder
  <2>. HIDE DEF i
  <2>3. c.lastUpdateTimestamp = now /\ c.users = r.users
    BY <1>1 DEF updateAssetState, AssetData
  <2>. QED  BY <2>1, <2>2, <2>3
<1>. HIDE DEF c
<1>6. /\ d \in AssetData(User) /\ d.index = i /\ d.lastUpdateTimestamp = now
      /\ d.users = r.users
  BY <1>5, InputsAssumption DEF AssetData
<1>. HIDE DEF d
<1>7. i \in Nat /\ Accruing(r, b0, i) \in Int /\ Accruing(r, b0, i) <= PendingOf(r, b0, now)
  BY <1>1, PendingCovers
<1>. HIDE DEF i
<1>8. Accruing(d, b0, d.index) = Accruing(r, b0, i)
  BY <1>6 DEF Accruing
<1>9. PendingOf(d, b0, now) = Accruing(r, b0, i)
  BY <1>1, <1>6, <1>7, <1>8, PendingOfPresent
<1>10. Pending(a) = PendingOf(r, b0, now) /\ Pending(a)' = PendingOf(d, b0, now)
  BY <1>3, <1>4, PendingIs DEF r, b0
<1>11. Pending(a)' \in Int /\ Pending(a)' <= Pending(a)
  BY <1>7, <1>9, <1>10
<1>12. \A b \in ATokens : b # a => Pending(b)' = Pending(b)
  BY <1>3, <1>4, PendingIs
<1>13. \A b \in ATokens : g[b] \in Int /\ f[b] \in Int /\ g[b] <= f[b]
  BY <1>11, <1>12, PendingIsInt
<1>14. PoolAccounted => UNIT * (claimed + S) + SumFunctionOnSet(f, ATokens) <= UNIT * granted
  BY DEF PoolAccounted
<1>15. UNIT * (claimed + S) + SumFunctionOnSet(g, ATokens) <= UNIT * granted => PoolAccounted'
  BY <1>3 DEF PoolAccounted
<1>16. S \in Nat
  BY <1>2, UnclaimedSum
<1>. HIDE DEF f, g, S
<1>17. /\ SumFunctionOnSet(g, ATokens) <= SumFunctionOnSet(f, ATokens)
       /\ SumFunctionOnSet(g, ATokens) \in Int /\ SumFunctionOnSet(f, ATokens) \in Int
  <2>1. SumFunctionOnSet(g, ATokens) <= SumFunctionOnSet(f, ATokens)
    BY <1>0, <1>13, SumMonotone
  <2>2. \A b \in ATokens : g[b] \in Int
    BY <1>13
  <2>3. \A b \in ATokens : f[b] \in Int
    BY <1>13
  <2>. QED  BY <1>0, <2>1, <2>2, <2>3, SumInt
<1>18. UNIT * (claimed + S) \in Int /\ UNIT * granted \in Int
  BY <1>2, <1>16, UnitAssumption
<1>. QED
  BY <1>14, <1>15, <1>17, <1>18

\* A settled aToken has as much less pending as the claimant gains by it.
LEMMA SettledPending ==
  ASSUME IcIInv, NEW u \in User, NEW a \in ATokens
  PROVE  /\ PendingOf(Settled(u, a), scaled[a], now) \in Int
         /\ UNIT * Gain(u, a) + PendingOf(Settled(u, a), scaled[a], now) <= Pending(a)
         /\ Gain(u, a) \in Nat
<1>. DEFINE none == [v \in User |-> 0]
            gain == [none EXCEPT ![u] = Gain(u, a)]
            b == scaled[a]
            r == assets[a]
            us == {u}
<1>1. /\ r \in AssetData(User) /\ r.lastUpdateTimestamp <= now
      /\ \A v \in User : r.users[v] <= r.index
      /\ b \in [User -> Nat] /\ now \in Nat
      /\ scaledTotalSupply(a) = SumFunctionOnSet(b, User)
      /\ scaledTotalSupply(a) \in Nat
  BY RecordTypes DEF scaledTotalSupply
<1>2. Gain(u, a) \in Nat /\ Gain(u, a) = accruedRewards(r, u, b, SumFunctionOnSet(b, User), now)
  <2>. HIDE DEF r, b
  <2>1. accruedRewards(r, u, b, SumFunctionOnSet(b, User), now) \in Nat
    BY <1>1, RewardsAreNat
  <2>. QED  BY <1>1, <2>1 DEF Gain, r, b
<1>3. Settled(u, a) = updateUsers(r, us, b, SumFunctionOnSet(b, User), now)
  BY <1>1 DEF Settled
<1>4. none \in [User -> Nat] /\ gain \in [User -> Nat] /\ us \in SUBSET User
  BY <1>2
<1>5. \A v \in User : gain[v] =
        IF v \in us THEN none[v] + accruedRewards(r, v, b, SumFunctionOnSet(b, User), now)
        ELSE none[v]
  BY <1>2
<1>6. \A v \in User \ us : b[v] = b[v]
  OBVIOUS
<1>7. SumFunction(none) = 0
  <2>1. DOMAIN none = User /\ \A v \in User : none[v] = 0
    OBVIOUS
  <2>. HIDE DEF none
  <2>2. SumFunction(none) = SumFunctionOnSet(none, User)
    BY <2>1, SumOverUsers
  <2>3. SumFunctionOnSet(none, User) = 0
    BY <2>1, FiniteUsersAssumption, SumZero
  <2>. QED  BY <2>2, <2>3
<1>8. SumFunction(gain) = Gain(u, a)
  <2>1. none[u] = 0
    OBVIOUS
  <2>. HIDE DEF none
  <2>2. SumFunction(gain) = SumFunction(none) + (Gain(u, a) - none[u])
    BY <1>2, <1>4, ChangedBalanceSum
  <2>. QED  BY <1>2, <1>7, <2>1, <2>2
<1>. HIDE DEF none, gain, b, r, us
<1>. DEFINE c == updateUsers(r, us, b, SumFunctionOnSet(b, User), now)
<1>9. /\ PendingOf(c, b, now) \in Int
      /\ UNIT * SumFunction(gain) + PendingOf(c, b, now)
           <= UNIT * SumFunction(none) + PendingOf(r, b, now)
  BY <1>1, <1>4, <1>5, <1>6, UpdatePending
<1>10. PendingOf(r, b, now) = Pending(a) /\ PendingOf(r, b, now) \in Int
  <2>1. PendingOf(r, b, now) = Pending(a)
    BY PendingIs DEF r, b
  <2>. QED  BY <2>1, PendingIsInt
<1>11. UNIT \in Nat
  BY UnitAssumption
<1>. HIDE DEF c
<1>12. UNIT * Gain(u, a) + PendingOf(c, b, now) <= Pending(a)
  BY <1>2, <1>7, <1>8, <1>9, <1>10, <1>11
<1>. QED
  BY <1>2, <1>3, <1>9, <1>12 DEF c, b

LEMMA ClaimAccountedInPool ==
  ASSUME IcIInv, IcIInv', PoolAccounted, Claim
  PROVE  PoolAccounted'
<1>1. PICK u \in User, list \in Seq(ATokens), taken \in Nat : ClaimedBy(u, list, taken)
  BY ClaimSteps
<1>. DEFINE S == SumFunctionOnSet(usersUnclaimedRewards, User)
            S2 == SumFunctionOnSet(usersUnclaimedRewards', User)
            f == [b \in ATokens |-> Pending(b)]
            g == [b \in ATokens |-> Pending(b)']
            gains == Gains(u, list)
            scaledGains == [b \in ATokens |-> gains[b] * UNIT]
            h == [b \in ATokens |-> scaledGains[b] + g[b]]
            gain == SumFunctionOnSet(gains, ATokens)
<1>0. IsFiniteSet(ATokens)
  BY ControllerAssumption
<1>2. UNIT \in Nat
  BY UnitAssumption
<1>3. /\ usersUnclaimedRewards \in [User -> Nat] /\ usersUnclaimedRewards' \in [User -> Nat]
      /\ granted \in Nat /\ claimed \in Nat
  BY DEF IcIInv, ControllerTypeOK
<1>4. /\ taken <= usersUnclaimedRewards[u] + gain
      /\ assets' = [a \in ATokens |-> IF a \in ToSet(list) THEN Settled(u, a) ELSE assets[a]]
      /\ usersUnclaimedRewards' =
           [usersUnclaimedRewards EXCEPT ![u] = (usersUnclaimedRewards[u] + gain) - taken]
      /\ claimed' = claimed + taken
      /\ now' = now /\ scaled' = scaled /\ granted' = granted
  BY <1>1 DEF ClaimedBy
<1>5. gain \in Nat
  BY ClaimLoopResult
<1>6. ASSUME NEW a \in ATokens
      PROVE  /\ Pending(a) \in Int /\ Pending(a)' \in Int /\ gains[a] \in Nat
             /\ gains[a] * UNIT + Pending(a)' <= Pending(a)
  <2>1. /\ PendingOf(Settled(u, a), scaled[a], now) \in Int
        /\ UNIT * Gain(u, a) + PendingOf(Settled(u, a), scaled[a], now) <= Pending(a)
        /\ Gain(u, a) \in Nat
    BY SettledPending
  <2>2. Pending(a) \in Int
    BY PendingIsInt
  <2>3. CASE a \in ToSet(list)
    <3>1. gains[a] = Gain(u, a) /\ Pending(a)' = PendingOf(Settled(u, a), scaled[a], now)
      BY <1>4, <2>3, PendingIs DEF Gains
    <3>2. gains[a] * UNIT = UNIT * Gain(u, a)
      BY <1>2, <2>1, <3>1
    <3>. QED  BY <2>1, <2>2, <3>1, <3>2
  <2>4. CASE a \notin ToSet(list)
    <3>1. gains[a] = 0 /\ Pending(a)' = Pending(a)
      BY <1>4, <2>4, PendingIs DEF Gains
    <3>. QED  BY <1>2, <2>2, <3>1
  <2>. QED  BY <2>3, <2>4
<1>7. PoolAccounted => UNIT * (claimed + S) + SumFunctionOnSet(f, ATokens) <= UNIT * granted
  BY DEF PoolAccounted
<1>8. UNIT * (claimed' + S2) + SumFunctionOnSet(g, ATokens) <= UNIT * granted => PoolAccounted'
  BY <1>4 DEF PoolAccounted
<1>9. S \in Nat /\ S2 \in Nat
  BY <1>3, UnclaimedSum
<1>10. S2 = S + (gain - taken)
  <2>. DEFINE x == usersUnclaimedRewards
              v == (x[u] + gain) - taken
  <2>1. x \in [User -> Nat] /\ x[u] \in Nat
    BY <1>3
  <2>2. /\ SumFunction(x) = S
        /\ SumFunction([x EXCEPT ![u] = v]) = S2
    BY <1>3, <1>4, UnclaimedSum
  <2>3. v \in Nat /\ v - x[u] = gain - taken
    <3>. HIDE DEF x, gain
    <3>. QED  BY <1>4, <1>5, <2>1 DEF x
  <2>. HIDE DEF x, v, S, S2
  <2>4. SumFunction([x EXCEPT ![u] = v]) = SumFunction(x) + (v - x[u])
    BY <2>1, <2>3, ChangedBalanceSum
  <2>. QED  BY <2>2, <2>3, <2>4
<1>. HIDE DEF S, S2, gains
<1>11. \A a \in ATokens : /\ f[a] \in Int /\ g[a] \in Int /\ gains[a] \in Int
                          /\ scaledGains[a] \in Int /\ scaledGains[a] = gains[a] * UNIT
                          /\ h[a] = scaledGains[a] + g[a]
                          /\ h[a] \in Int /\ h[a] <= f[a]
  BY <1>2, <1>6
<1>. HIDE DEF f, g, h, scaledGains
<1>12. SumFunctionOnSet(scaledGains, ATokens) = gain * UNIT
  <2>1. \A a \in ATokens : gains[a] \in Int /\ scaledGains[a] = gains[a] * UNIT
    BY <1>11
  <2>2. UNIT \in Int
    BY <1>2
  <2>. QED  BY <1>0, <2>1, <2>2, SumScale
<1>13. SumFunctionOnSet(h, ATokens) = SumFunctionOnSet(scaledGains, ATokens) + SumFunctionOnSet(g, ATokens)
  <2>1. \A a \in ATokens : scaledGains[a] \in Int /\ g[a] \in Int /\ h[a] = scaledGains[a] + g[a]
    BY <1>11
  <2>. QED  BY <1>0, <2>1, SumAdd
<1>14. SumFunctionOnSet(h, ATokens) <= SumFunctionOnSet(f, ATokens)
  <2>1. \A a \in ATokens : h[a] \in Int /\ f[a] \in Int /\ h[a] <= f[a]
    BY <1>11
  <2>. QED  BY <1>0, <2>1, SumMonotone
<1>15. SumFunctionOnSet(f, ATokens) \in Int /\ SumFunctionOnSet(g, ATokens) \in Int
  <2>1. \A a \in ATokens : f[a] \in Int
    BY <1>11
  <2>2. \A a \in ATokens : g[a] \in Int
    BY <1>11
  <2>. QED  BY <1>0, <2>1, <2>2, SumInt
<1>. DEFINE p == SumFunctionOnSet(f, ATokens)
            p2 == SumFunctionOnSet(g, ATokens)
<1>. HIDE DEF gain
<1>16. UNIT * gain + p2 <= p
  <2>1. UNIT * gain = gain * UNIT /\ gain * UNIT \in Int
    BY <1>2, <1>5
  <2>. QED  BY <1>12, <1>13, <1>14, <1>15, <2>1
<1>17. claimed' + S2 = (claimed + S) + gain
  BY <1>3, <1>4, <1>5, <1>9, <1>10
<1>18. UNIT * (claimed + S) + p <= UNIT * granted
  BY <1>7
<1>19. p \in Int /\ p2 \in Int /\ claimed \in Int /\ S \in Int /\ S2 \in Int /\ gain \in Int
       /\ claimed' \in Int /\ UNIT * granted \in Int
  BY <1>2, <1>3, <1>4, <1>5, <1>9, <1>15
<1>. HIDE DEF p, p2
<1>. DEFINE c2 == claimed'
            G == UNIT * granted
<1>20. /\ p \in Int /\ p2 \in Int /\ claimed \in Int /\ S \in Int /\ S2 \in Int /\ gain \in Int
       /\ c2 \in Int /\ G \in Int
       /\ c2 + S2 = (claimed + S) + gain /\ UNIT * (claimed + S) + p <= G
  BY <1>17, <1>18, <1>19
<1>. HIDE DEF c2, G
<1>21. UNIT * (c2 + S2) + p2 <= G
  BY <1>2, <1>16, <1>20, AccountKept
<1>. QED
  BY <1>8, <1>21 DEF p2, c2, G

LEMMA TickAccountedInPool ==
  ASSUME IcIInv, IcIInv', PoolAccounted, Tick
  PROVE  PoolAccounted'
<1>. DEFINE S == SumFunctionOnSet(usersUnclaimedRewards, User)
            grant == [a \in ATokens |-> IF scaledTotalSupply(a) = 0 THEN 0
                        ELSE assets[a].emissionPerSecond * (UpToEnd(now + 1) - UpToEnd(now))]
            f == [b \in ATokens |-> Pending(b)]
            g == [b \in ATokens |-> Pending(b)']
            h == [b \in ATokens |-> grant[b] * UNIT]
<1>0. IsFiniteSet(ATokens)
  BY ControllerAssumption
<1>1. /\ now' = now + 1 /\ UNCHANGED <<scaled, assets, usersUnclaimedRewards, claimed>>
      /\ granted' = granted + SumFunctionOnSet(grant, ATokens)
  BY DEF Tick, tick, controllerVars, GrantedUntil
<1>2. UNIT \in Nat /\ now \in Nat /\ now + 1 \in Nat
      /\ usersUnclaimedRewards \in [User -> Nat] /\ granted \in Nat /\ claimed \in Nat
  BY UnitAssumption, TimeAssumption DEF IcIInv, ControllerTypeOK, TypeOK
<1>3. ASSUME NEW a \in ATokens
      PROVE  /\ Pending(a) \in Int /\ grant[a] \in Int
             /\ Pending(a)' = Pending(a) + grant[a] * UNIT
  <2>. DEFINE r == assets[a]
              b == scaled[a]
              e == r.emissionPerSecond
              x == UpToEnd(r.lastUpdateTimestamp)
              y == UpToEnd(now)
              z == UpToEnd(now + 1)
              acc == Accruing(r, b, r.index)
  <2>1. r \in AssetData(User) /\ b \in [User -> Nat] /\ r.lastUpdateTimestamp <= now
    BY RecordTypes
  <2>2. e \in Nat /\ r.index \in Nat /\ r.lastUpdateTimestamp \in Nat
    BY <2>1 DEF AssetData
  <2>3. x \in Nat /\ y \in Nat /\ z \in Nat
    BY <1>2, <2>2, EndAssumption DEF UpToEnd
  <2>4. acc \in Int
    <3>. HIDE DEF r, b
    <3>. QED  BY <2>1, <2>2, AccruingAtOtherIndex
  <2>5. Pending(a) = PendingOf(r, b, now) /\ Pending(a)' = PendingOf(r, b, now + 1)
    BY <1>1, PendingIs
  <2>6. scaledTotalSupply(a) = SumFunctionOnSet(b, User)
    BY DEF scaledTotalSupply
  <2>7. CASE SumFunctionOnSet(b, User) = 0
    <3>1. Pending(a) = acc + UNIT * 0 /\ Pending(a)' = acc + UNIT * 0 /\ grant[a] = 0
      BY <2>5, <2>6, <2>7 DEF PendingOf
    <3>. HIDE DEF acc, grant
    <3>. QED  BY <1>2, <2>4, <3>1
  <2>8. CASE SumFunctionOnSet(b, User) # 0
    <3>1. /\ Pending(a) = acc + UNIT * (e * (y - x)) /\ Pending(a)' = acc + UNIT * (e * (z - x))
          /\ grant[a] = e * (z - y)
      BY <2>5, <2>6, <2>8 DEF PendingOf
    <3>. HIDE DEF acc, grant, e, x, y, z
    <3>2. /\ e * (z - x) = e * (y - x) + e * (z - y)
          /\ e * (z - y) \in Int /\ e * (y - x) \in Int
      BY <2>2, <2>3
    <3>. DEFINE m == e * (y - x)
                n == e * (z - y)
    <3>3. /\ Pending(a) = acc + UNIT * m /\ Pending(a)' = acc + UNIT * (m + n)
          /\ grant[a] = n /\ m \in Int /\ n \in Int
      BY <3>1, <3>2
    <3>. HIDE DEF m, n
    <3>4. UNIT * (m + n) = UNIT * m + n * UNIT /\ UNIT * m \in Int /\ n * UNIT \in Int
      BY <1>2, <3>3
    <3>. QED  BY <2>4, <3>3, <3>4
  <2>. QED  BY <2>7, <2>8
<1>4. PoolAccounted => UNIT * (claimed + S) + SumFunctionOnSet(f, ATokens) <= UNIT * granted
  BY DEF PoolAccounted
<1>5. UNIT * (claimed + S) + SumFunctionOnSet(g, ATokens)
        <= UNIT * (granted + SumFunctionOnSet(grant, ATokens)) => PoolAccounted'
  BY <1>1 DEF PoolAccounted
<1>6. S \in Nat
  BY <1>2, UnclaimedSum
<1>. HIDE DEF S, grant
<1>7. \A a \in ATokens : /\ f[a] \in Int /\ grant[a] \in Int /\ h[a] = grant[a] * UNIT
                         /\ h[a] \in Int /\ g[a] = f[a] + h[a]
  BY <1>2, <1>3
<1>. HIDE DEF f, g, h
<1>8. SumFunctionOnSet(h, ATokens) = SumFunctionOnSet(grant, ATokens) * UNIT
  <2>1. \A a \in ATokens : grant[a] \in Int /\ h[a] = grant[a] * UNIT
    BY <1>7
  <2>2. UNIT \in Int
    BY <1>2
  <2>. QED  BY <1>0, <2>1, <2>2, SumScale
<1>9. SumFunctionOnSet(g, ATokens) = SumFunctionOnSet(f, ATokens) + SumFunctionOnSet(h, ATokens)
  <2>1. \A a \in ATokens : f[a] \in Int /\ h[a] \in Int /\ g[a] = f[a] + h[a]
    BY <1>7
  <2>. QED  BY <1>0, <2>1, SumAdd
<1>10. SumFunctionOnSet(f, ATokens) \in Int /\ SumFunctionOnSet(grant, ATokens) \in Int
  <2>1. \A a \in ATokens : f[a] \in Int
    BY <1>7
  <2>2. \A a \in ATokens : grant[a] \in Int
    BY <1>7
  <2>. QED  BY <1>0, <2>1, <2>2, SumInt
<1>. DEFINE p == SumFunctionOnSet(f, ATokens)
            q == SumFunctionOnSet(grant, ATokens)
            c == UNIT * (claimed + S)
<1>11. c + p <= UNIT * granted /\ SumFunctionOnSet(g, ATokens) = p + q * UNIT
  BY <1>4, <1>8, <1>9
<1>12. p \in Int /\ q \in Int /\ c \in Int
  BY <1>2, <1>6, <1>10
<1>. HIDE DEF p, q, c
<1>13. UNIT * (granted + q) = UNIT * granted + q * UNIT /\ UNIT * granted \in Int /\ q * UNIT \in Int
  BY <1>2, <1>12
<1>14. c + SumFunctionOnSet(g, ATokens) <= UNIT * (granted + q)
  BY <1>11, <1>12, <1>13
<1>. QED
  BY <1>5, <1>14 DEF c, q

LEMMA PSMAccounted == ASSUME PoolAccounted, PSMStep \/ UNCHANGED icVars, IcIInv
                      PROVE  PoolAccounted'
<1>1. UNCHANGED <<scaled, assets, usersUnclaimedRewards, claimed, granted>> /\ now' = now
  BY IcPSMKeeps DEF PSMStep, controllerVars, icVars, vars
<1>2. \A a \in ATokens : Pending(a)' = Pending(a)
  BY <1>1, PendingIs
<1>3. [a \in ATokens |-> Pending(a)]' = [a \in ATokens |-> Pending(a)]
  BY <1>2
<1>. QED
  BY <1>1, <1>3 DEF PoolAccounted

LEMMA NextAccountedInPool ==
  IcIInv /\ IcIInv' /\ PoolAccounted /\ [IcNext]_icVars /\ [~UnderstatedPoolConfigure]_icVars
    => PoolAccounted'
<1>1. ASSUME IcIInv, IcIInv', PoolAccounted, PoolStep, ~UnderstatedPoolConfigure PROVE PoolAccounted'
  <2>1. ASSUME NEW a \in ATokens, NEW e \in Emissions,
               NEW total \in TotalStakedInputs \cup {scaledTotalSupply(a)}, configureAToken(a, e, total)
        PROVE  PoolAccounted'
    <3>1. total \in Nat /\ scaledTotalSupply(a) \in Nat
      BY <1>1, RecordTypes, InputsAssumption
    <3>2. total = 0 \/ scaledTotalSupply(a) <= total
      BY <1>1, <2>1, <3>1 DEF UnderstatedPoolConfigure
    <3>. QED  BY <1>1, <2>1, <3>2, ConfigureATokenAccounted
  <2>. QED  BY <1>1, <2>1, PoolChange, ChangeAccounted
<1>. QED
  BY <1>1, ClaimAccountedInPool, TickAccountedInPool, PSMAccounted DEF IcNext

LEMMA InitAccountedInPool == IcInit => PoolAccounted
<1>. SUFFICES ASSUME IcInit PROVE PoolAccounted
  OBVIOUS
<1>. DEFINE f == [a \in ATokens |-> Pending(a)]
            x == usersUnclaimedRewards
<1>0. IsFiniteSet(ATokens)
  BY ControllerAssumption
<1>1. IcIInv /\ claimed = 0 /\ granted = 0 /\ x = [u \in User |-> 0]
      /\ scaled = [a \in ATokens |-> [u \in User |-> 0]]
      /\ assets = [a \in ATokens |-> NoAssetData(User)]
  BY IcInitHolds DEF IcInit
<1>2. ASSUME NEW a \in ATokens PROVE f[a] = 0
  <2>. DEFINE b == scaled[a]
              r == assets[a]
  <2>1. b = [u \in User |-> 0] /\ r = NoAssetData(User) /\ f[a] = PendingOf(r, b, now)
    BY <1>1, PendingIs
  <2>2. SumFunctionOnSet(b, User) = 0
    <3>1. \A u \in User : b[u] = 0
      BY <2>1
    <3>. HIDE DEF b
    <3>. QED  BY <3>1, FiniteUsersAssumption, SumZero
  <2>3. Accruing(r, b, r.index) = 0
    <3>. DEFINE w == [u \in User |-> b[u] * (r.index - r.users[u])]
    <3>1. \A u \in User : w[u] = 0
      BY <2>1 DEF NoAssetData
    <3>2. DOMAIN w = User /\ Accruing(r, b, r.index) = SumFunction(w)
      BY DEF Accruing
    <3>. HIDE DEF w
    <3>. QED  BY <3>1, <3>2, FiniteUsersAssumption, SumOverUsers, SumZero
  <2>. HIDE DEF b, r, f
  <2>4. PendingOf(r, b, now) = 0 + UNIT * 0
    BY <2>2, <2>3 DEF PendingOf
  <2>. QED  BY <2>1, <2>4, UnitAssumption
<1>3. \A u \in User : x[u] = 0
  BY <1>1
<1>4. PoolAccounted <=> UNIT * (claimed + SumFunctionOnSet(x, User)) + SumFunctionOnSet(f, ATokens)
                          <= UNIT * granted
  BY DEF PoolAccounted
<1>. HIDE DEF f, x
<1>5. SumFunctionOnSet(f, ATokens) = 0 /\ SumFunctionOnSet(x, User) = 0
  BY <1>0, <1>2, <1>3, FiniteUsersAssumption, SumZero
<1>. QED
  BY <1>1, <1>4, <1>5, UnitAssumption

\* The rounded index of the present never promises more than is pending.
LEMMA AccountedIsCovered == ASSUME IcIInv, PoolAccounted PROVE PoolRewardsCovered
<1>. DEFINE S == SumFunctionOnSet(usersUnclaimedRewards, User)
            f == [a \in ATokens |-> Pending(a)]
            now_(a) == SumFunctionOnSet(
              [u \in User |-> scaled[a][u]
                * (getAssetIndex(assets[a], scaledTotalSupply(a), now) - assets[a].users[u])], User)
            g == [a \in ATokens |-> now_(a)]
<1>0. IsFiniteSet(ATokens)
  BY ControllerAssumption
<1>1. ASSUME NEW a \in ATokens PROVE g[a] \in Int /\ f[a] \in Int /\ g[a] <= f[a]
  <2>. DEFINE r == assets[a]
              b == scaled[a]
              i == getAssetIndex(r, SumFunctionOnSet(b, User), now)
              w == [u \in User |-> b[u] * (i - r.users[u])]
  <2>1. r \in AssetData(User) /\ r.lastUpdateTimestamp <= now /\ b \in [User -> Nat] /\ now \in Nat
    BY RecordTypes
  <2>2. f[a] = PendingOf(r, b, now) /\ f[a] \in Int
    BY PendingIs, PendingIsInt
  <2>3. g[a] = SumFunctionOnSet(w, User)
    BY DEF scaledTotalSupply
  <2>4. DOMAIN w = User /\ Accruing(r, b, i) = SumFunction(w)
    BY DEF Accruing
  <2>5. Accruing(r, b, i) \in Int /\ Accruing(r, b, i) <= PendingOf(r, b, now)
    <3>. HIDE DEF r, b
    <3>. QED  BY <2>1, PendingCoversSupply
  <2>. HIDE DEF w, f, g
  <2>6. SumFunction(w) = SumFunctionOnSet(w, User)
    BY <2>4, SumOverUsers
  <2>. QED  BY <2>2, <2>3, <2>4, <2>5, <2>6
<1>2. UNIT * (claimed + S) + SumFunctionOnSet(f, ATokens) <= UNIT * granted
  BY DEF PoolAccounted
<1>3. PoolRewardsCovered <=> UNIT * (claimed + S) + SumFunctionOnSet(g, ATokens) <= UNIT * granted
  BY DEF PoolRewardsCovered
<1>4. UNIT * (claimed + S) \in Int /\ UNIT * granted \in Int
  <2>1. usersUnclaimedRewards \in [User -> Nat] /\ claimed \in Nat /\ granted \in Nat
    BY DEF IcIInv, ControllerTypeOK
  <2>2. S \in Nat
    BY <2>1, UnclaimedSum
  <2>. QED  BY <2>1, <2>2, UnitAssumption
<1>. HIDE DEF f, g, S
<1>5. SumFunctionOnSet(g, ATokens) <= SumFunctionOnSet(f, ATokens)
  <2>1. \A a \in ATokens : g[a] \in Int /\ f[a] \in Int /\ g[a] <= f[a]
    BY <1>1
  <2>. QED  BY <1>0, <2>1, SumMonotone
<1>6. SumFunctionOnSet(g, ATokens) \in Int /\ SumFunctionOnSet(f, ATokens) \in Int
  <2>1. \A a \in ATokens : g[a] \in Int
    BY <1>1
  <2>2. \A a \in ATokens : f[a] \in Int
    BY <1>1
  <2>. QED  BY <1>0, <2>1, <2>2, SumInt
<1>. QED
  BY <1>2, <1>3, <1>4, <1>5, <1>6

\* What is claimed, credited and still accruing was granted by the emissions:
\* no order of deposits, withdrawals, transfers and claims over whatever lists
\* pays a second of an aToken's emission twice - as long as the emission manager
\* does not understate an aToken's supply to configureAssets.
THEOREM PoolCovers == IcSpec /\ PoolNeverUnderstated => []PoolRewardsCovered
<1>1. IcSpec /\ PoolNeverUnderstated => []PoolAccounted
  BY PoolInductiveInvariant, InitAccountedInPool, NextAccountedInPool, PTL
     DEF IcSpec, PoolNeverUnderstated
<1>2. IcIInv /\ PoolAccounted => PoolRewardsCovered
  BY AccountedIsCovered
<1>. QED
  BY <1>1, <1>2, PoolInductiveInvariant, PTL

------------------------------------------------------------------------------
(* What a claim is paid *)

LEMMA OnlyClaimsClaim ==
  ASSUME IcIInv, [IcNext]_icVars, claimed' # claimed
  PROVE  Claim
<1>1. ASSUME PoolStep PROVE claimed' = claimed
  BY <1>1, PoolChange DEF ChangeScaled, configureAToken
<1>2. ASSUME PSMStep \/ Tick \/ UNCHANGED icVars PROVE claimed' = claimed
  BY <1>2 DEF PSMStep, Tick, controllerVars, icVars
<1>. QED
  BY <1>1, <1>2 DEF IcNext

\* What leaves the vault is what was claimed, or that with the extra; then the
\* stakers have as much more, and the staked token the REX behind it.
LEMMA PaymentIsFull ==
  ASSUME IcIInv, RewardsVault \notin Recipients, NEW taken \in Nat,
         \/ \E to \in Recipients : PaidOut(to, taken)
         \/ \E to \in User : PaidAsStake(to, taken)
  PROVE  LET gone == rex[RewardsVault] - rex'[RewardsVault]
             staked == totalSupply' - totalSupply
         IN  \/ gone = taken /\ staked = 0
             \/ /\ gone = taken + (taken * EXTRA_PSM_REWARD) \div 100
                /\ staked = gone
                /\ rex'[StakeContract] - rex[StakeContract] = gone
<1>1. /\ rex \in [RexAccount -> Nat] /\ RewardsVault \in RexAccount /\ StakeContract \in RexAccount
      /\ totalSupply \in Nat /\ Recipients \subseteq RexAccount /\ StakeContract # RewardsVault
  BY InputsAssumption, AccountsAssumption DEF IcIInv, ControllerTypeOK, TypeOK, RexAccount
<1>2. ASSUME NEW to \in Recipients, PaidOut(to, taken)
      PROVE  rex[RewardsVault] - rex'[RewardsVault] = taken /\ totalSupply' - totalSupply = 0
  <2>1. rex' = Move(rex, RewardsVault, to, taken) /\ totalSupply' = totalSupply
    BY <1>2 DEF PaidOut, PayFromVault
  <2>2. to \in RexAccount /\ to # RewardsVault
    BY <1>1
  <2>3. rex'[RewardsVault] = rex[RewardsVault] - taken
    BY <1>1, <2>1, <2>2 DEF Move
  <2>. QED  BY <1>1, <2>1, <2>3
<1>3. ASSUME NEW to \in User, PaidAsStake(to, taken)
      PROVE  /\ rex[RewardsVault] - rex'[RewardsVault]
                  = taken + (taken * EXTRA_PSM_REWARD) \div 100
             /\ totalSupply' - totalSupply = taken + (taken * EXTRA_PSM_REWARD) \div 100
             /\ rex'[StakeContract] - rex[StakeContract]
                  = taken + (taken * EXTRA_PSM_REWARD) \div 100
  <2>. DEFINE all == taken + (taken * EXTRA_PSM_REWARD) \div 100
  <2>1. all \in Nat /\ StakeFromVault(to, all, taken)
    BY <1>3 DEF PaidAsStake
  <2>. HIDE DEF all
  <2>2. /\ totalSupply' = totalSupply + all
        /\ rex' = [rex EXCEPT ![RewardsVault] = @ - all, ![StakeContract] = @ + all]
    BY <2>1 DEF StakeFromVault, minted, Mint
  <2>3. /\ rex'[RewardsVault] = rex[RewardsVault] - all
        /\ rex'[StakeContract] = rex[StakeContract] + all
    BY <1>1, <2>2
  <2>4. /\ rex[RewardsVault] - rex'[RewardsVault] = all /\ totalSupply' - totalSupply = all
        /\ rex'[StakeContract] - rex[StakeContract] = all
    BY <1>1, <2>1, <2>2, <2>3
  <2>. QED  BY <2>4 DEF all
<1>. QED
  BY <1>2, <1>3

\* A claim is paid in full or not at all, whoever but the vault is the payee:
\* the vault would pay itself nothing.
THEOREM ClaimsPaidInFull == RewardsVault \notin Recipients => (IcSpec => ClaimPaidInFull)
<1>. DEFINE taken == claimed' - claimed
            gone == rex[RewardsVault] - rex'[RewardsVault]
            staked == totalSupply' - totalSupply
            inFull == \/ gone = taken /\ staked = 0
                      \/ /\ gone = taken + (taken * EXTRA_PSM_REWARD) \div 100
                         /\ staked = gone
                         /\ rex'[StakeContract] - rex[StakeContract] = gone
<1>1. ASSUME RewardsVault \notin Recipients, IcIInv, [IcNext]_icVars
      PROVE  claimed' > claimed => inFull
  <2>. SUFFICES ASSUME claimed' > claimed PROVE inFull
    OBVIOUS
  <2>1. claimed \in Nat
    BY <1>1 DEF IcIInv, ControllerTypeOK
  <2>2. Claim
    <3>1. claimed' # claimed
      BY <2>1
    <3>. QED  BY <1>1, <3>1, OnlyClaimsClaim
  <2>3. PICK u \in User, list \in Seq(ATokens), t \in Nat :
          /\ ClaimedBy(u, list, t)
          /\ \/ t = 0 /\ UNCHANGED vars
             \/ t # 0 /\ \E to \in Recipients : PaidOut(to, t)
             \/ t # 0 /\ \E to \in User : PaidAsStake(to, t)
    BY <1>1, <2>2, ClaimSteps
  <2>4. t = taken /\ t # 0
    <3>1. claimed' = claimed + t
      BY <2>3 DEF ClaimedBy
    <3>. QED  BY <2>1, <3>1
  <2>5. LET away == rex[RewardsVault] - rex'[RewardsVault]
            more == totalSupply' - totalSupply
        IN  \/ away = t /\ more = 0
            \/ /\ away = t + (t * EXTRA_PSM_REWARD) \div 100
               /\ more = away
               /\ rex'[StakeContract] - rex[StakeContract] = away
    BY <1>1, <2>3, <2>4, PaymentIsFull
  <2>. QED  BY <2>4, <2>5
<1>2. RewardsVault \notin Recipients /\ IcIInv /\ [IcNext]_icVars
        => [claimed' > claimed => inFull]_icVars
  BY <1>1
<1>3. SUFFICES ASSUME RewardsVault \notin Recipients PROVE IcSpec => ClaimPaidInFull
  OBVIOUS
<1>4. IcIInv /\ [IcNext]_icVars => [claimed' > claimed => inFull]_icVars
  BY <1>1, <1>3
<1>. HIDE DEF taken, gone, staked, inFull
<1>5. IcSpec => [][claimed' > claimed => inFull]_icVars
  BY <1>4, PoolInductiveInvariant, PTL DEF IcSpec
<1>. QED
  BY <1>5 DEF ClaimPaidInFull, taken, gone, staked, inFull

------------------------------------------------------------------------------
(* What users are shown *)

\* SetToSeq lists every aToken, once.
LEMMA AllATokensListed ==
  /\ AllATokens \in Seq(ATokens)
  /\ \A j, k \in 1 .. Len(AllATokens) : AllATokens[j] = AllATokens[k] => j = k
  /\ Named(AllATokens, Len(AllATokens)) = ATokens
<1>. DEFINE c == Cardinality(ATokens)
            listing(s) == s \in [1 .. c -> ATokens] /\ IsInjective(s)
<1>0. IsFiniteSet(ATokens)
  BY ControllerAssumption
<1>1. c \in Nat /\ ExistsBijection(1 .. c, ATokens)
  BY <1>0, FS_CardinalityType
<1>2. AllATokens = CHOOSE s \in [1 .. c -> ATokens] : IsInjective(s)
  BY DEF AllATokens, SetToSeq
<1>3. \E s \in [1 .. c -> ATokens] : IsInjective(s)
  <2>1. PICK s : s \in Bijection(1 .. c, ATokens)
    BY <1>1 DEF ExistsBijection
  <2>. QED  BY <2>1 DEF Bijection, Injection
<1>4. AllATokens \in [1 .. c -> ATokens] /\ IsInjective(AllATokens)
  BY <1>2, <1>3
<1>. HIDE DEF c
<1>5. AllATokens \in Seq(ATokens) /\ Len(AllATokens) = c
  BY <1>1, <1>4
<1>6. AllATokens \in Surjection(1 .. c, ATokens)
  <2>1. IsFiniteSet(1 .. c) /\ Cardinality(1 .. c) = c
    BY <1>1, FS_Interval
  <2>2. AllATokens \in Injection(1 .. c, ATokens)
    BY <1>4 DEF Injection
  <2>3. Cardinality(1 .. c) = Cardinality(ATokens)
    BY <2>1 DEF c
  <2>. QED  BY <1>0, <2>2, <2>3, FS_Injection
<1>7. Named(AllATokens, c) = ATokens
  BY <1>4, <1>6 DEF Named, Surjection
<1>. QED
  BY <1>4, <1>5, <1>7 DEF IsInjective

\* f solves the recursive equation of getRewardsBalance, whose turn adds due[a].
IsRunningSum(list, start, due, f) ==
  f = [n \in 0 .. Len(list) |-> IF n = 0 THEN start ELSE f[n - 1] + due[list[n]]]

SumOfNamed(list, due, n) ==
  SumFunctionOnSet([a \in ATokens |-> IF a \in Named(list, n) THEN due[a] ELSE 0], ATokens)

\* One aToken's summand changes.
LEMMA OneATokenChanges ==
  ASSUME NEW f, NEW g, NEW a \in ATokens, \A b \in ATokens : f[b] \in Int,
         \A b \in ATokens : g[b] \in Int, \A b \in ATokens \ {a} : g[b] = f[b]
  PROVE  /\ SumFunctionOnSet(g, ATokens) = SumFunctionOnSet(f, ATokens) + (g[a] - f[a])
         /\ SumFunctionOnSet(g, ATokens) \in Int /\ SumFunctionOnSet(f, ATokens) \in Int
<1>0. IsFiniteSet(ATokens)
  BY ControllerAssumption
<1>1. \A b \in ATokens : f[b] \in Int /\ g[b] \in Int
  OBVIOUS
<1>2. SumFunctionOnSet(g, ATokens) = SumFunctionOnSet(f, ATokens) + (g[a] - f[a])
  BY <1>0, <1>1, SumChange
<1>. QED
  BY <1>0, <1>2, SumInt

LEMMA NamedSumStep ==
  ASSUME NEW list \in Seq(ATokens), NEW due, \A a \in ATokens : due[a] \in Int,
         \A j, k \in 1 .. Len(list) : list[j] = list[k] => j = k,
         NEW n \in 1 .. Len(list)
  PROVE  /\ SumOfNamed(list, due, n) = SumOfNamed(list, due, n - 1) + due[list[n]]
         /\ SumOfNamed(list, due, n) \in Int /\ SumOfNamed(list, due, n - 1) \in Int
<1>. DEFINE last == list[n]
            f == [a \in ATokens |-> IF a \in Named(list, n - 1) THEN due[a] ELSE 0]
            g == [a \in ATokens |-> IF a \in Named(list, n) THEN due[a] ELSE 0]
<1>0. IsFiniteSet(ATokens)
  BY ControllerAssumption
<1>1. Named(list, n) = Named(list, n - 1) \cup {last} /\ last \in ATokens
  BY NamedGrows
<1>2. last \notin Named(list, n - 1)
  <2>1. \A k \in 1 .. (n - 1) : k \in 1 .. Len(list) /\ k # n
    OBVIOUS
  <2>. QED  BY <2>1 DEF Named
<1>3. /\ \A a \in ATokens : f[a] \in Int /\ g[a] \in Int
      /\ \A a \in ATokens \ {last} : g[a] = f[a]
      /\ f[last] = 0 /\ g[last] = due[last] /\ due[last] \in Int
  BY <1>1, <1>2
<1>4. /\ SumOfNamed(list, due, n) = SumFunctionOnSet(g, ATokens)
      /\ SumOfNamed(list, due, n - 1) = SumFunctionOnSet(f, ATokens)
  BY DEF SumOfNamed
<1>. HIDE DEF f, g, last
<1>5. /\ SumFunctionOnSet(g, ATokens) = SumFunctionOnSet(f, ATokens) + (g[last] - f[last])
      /\ SumFunctionOnSet(g, ATokens) \in Int /\ SumFunctionOnSet(f, ATokens) \in Int
  <2>1. \A a \in ATokens : f[a] \in Int
    BY <1>3
  <2>2. \A a \in ATokens : g[a] \in Int
    BY <1>3
  <2>3. \A a \in ATokens \ {last} : g[a] = f[a]
    BY <1>3
  <2>. QED  BY <1>1, <2>1, <2>2, <2>3, OneATokenChanges
<1>6. g[last] - f[last] = due[last]
  BY <1>3
<1>. QED
  BY <1>4, <1>5, <1>6 DEF last

LEMMA NoneNamed ==
  ASSUME NEW list, NEW due PROVE SumOfNamed(list, due, 0) = 0
<1>. DEFINE none == [a \in ATokens |-> IF a \in Named(list, 0) THEN due[a] ELSE 0]
<1>1. \A a \in ATokens : none[a] = 0
  BY DEF Named
<1>2. SumOfNamed(list, due, 0) = SumFunctionOnSet(none, ATokens)
  BY DEF SumOfNamed
<1>. HIDE DEF none
<1>3. IsFiniteSet(ATokens)
  BY ControllerAssumption
<1>. QED
  BY <1>1, <1>2, <1>3, SumZero

\* The equation has a solution, and every solution adds up what is named.
LEMMA RunningSum ==
  ASSUME NEW list \in Seq(ATokens), NEW start \in Int, NEW due, \A a \in ATokens : due[a] \in Int,
         \A j, k \in 1 .. Len(list) : list[j] = list[k] => j = k
  PROVE  /\ \E f : IsRunningSum(list, start, due, f)
         /\ \A f : IsRunningSum(list, start, due, f) =>
              f[Len(list)] = start + SumOfNamed(list, due, Len(list))
<1>0. Len(list) \in Nat
  OBVIOUS
<1>. DEFINE total(n) == start + SumOfNamed(list, due, n)
<1>1. ASSUME NEW n \in 1 .. Len(list)
      PROVE  total(n) = total(n - 1) + due[list[n]]
  <2>1. /\ SumOfNamed(list, due, n) = SumOfNamed(list, due, n - 1) + due[list[n]]
        /\ SumOfNamed(list, due, n) \in Int /\ SumOfNamed(list, due, n - 1) \in Int
    BY NamedSumStep
  <2>2. due[list[n]] \in Int
    OBVIOUS
  <2>. QED  BY <2>1, <2>2
<1>2. total(0) = start
  BY NoneNamed
<1>. HIDE DEF total
<1>3. \E f : IsRunningSum(list, start, due, f)
  <2>. DEFINE f == [n \in 0 .. Len(list) |-> total(n)]
              G(n) == IF n = 0 THEN start ELSE f[n - 1] + due[list[n]]
  <2>1. ASSUME NEW n \in 0 .. Len(list) PROVE total(n) = G(n)
    <3>1. CASE n = 0
      BY <1>2, <3>1
    <3>2. CASE n # 0
      <4>1. n \in 1 .. Len(list) /\ n - 1 \in 0 .. Len(list)
        BY <1>0, <3>2
      <4>. QED  BY <1>1, <3>2, <4>1
    <3>. QED  BY <3>1, <3>2
  <2>2. f = [n \in 0 .. Len(list) |-> G(n)]
    <3>. HIDE DEF G
    <3>. QED  BY <2>1
  <2>3. IsRunningSum(list, start, due, f)
    <3>. HIDE DEF f
    <3>. QED  BY <2>2 DEF IsRunningSum
  <2>. QED  BY <2>3
<1>4. ASSUME NEW f, IsRunningSum(list, start, due, f)
      PROVE  f[Len(list)] = total(Len(list))
  <2>. DEFINE wrong == {k \in 0 .. Len(list) : f[k] # total(k)}
  <2>1. SUFFICES ASSUME Len(list) \in wrong PROVE FALSE
    BY <1>0
  <2>2. PICK m \in wrong : \A k \in wrong : m <= k
    <3>1. wrong \in SUBSET Nat
      BY <1>0
    <3>. HIDE DEF wrong
    <3>. QED  BY <2>1, <3>1, LeastNumber
  <2>3. m \in 0 .. Len(list) /\ f[m] # total(m)
    OBVIOUS
  <2>4. f[m] = IF m = 0 THEN start ELSE f[m - 1] + due[list[m]]
    BY <1>4, <2>3 DEF IsRunningSum
  <2>5. CASE m = 0
    BY <1>2, <2>3, <2>4, <2>5
  <2>6. CASE m # 0
    <3>1. m \in 1 .. Len(list) /\ m - 1 \in 0 .. Len(list) /\ ~(m <= m - 1)
      BY <1>0, <2>3, <2>6
    <3>2. f[m - 1] = total(m - 1)
      BY <2>2, <3>1
    <3>. QED  BY <1>1, <2>3, <2>4, <2>6, <3>1, <3>2
  <2>. QED  BY <2>5, <2>6
<1>. QED
  BY <1>3, <1>4 DEF total

\* What u accrued on a since his last update
Due(u, a) ==
  getRewards(scaled[a][u], getAssetIndex(assets[a], scaledTotalSupply(a), now), assets[a].users[u])

Shown(u) == usersUnclaimedRewards[u] + SumFunctionOnSet([a \in ATokens |-> Due(u, a)], ATokens)

\* It is also what an update credits.
LEMMA DueIsGain ==
  ASSUME IcIInv, NEW u \in User, NEW a \in ATokens
  PROVE  Due(u, a) = Gain(u, a) /\ Due(u, a) \in Nat
<1>. DEFINE r == assets[a]
            s == scaledTotalSupply(a)
<1>1. r \in AssetData(User) /\ s \in Nat /\ now \in Nat
  BY RecordTypes
<1>2. updateAssetState(r, s, now).index = getAssetIndex(r, s, now)
  <2>. HIDE DEF r, s
  <2>. QED  BY <1>1, IndexOfNow
<1>3. Due(u, a) = Gain(u, a)
  BY <1>2 DEF Due, Gain, accruedRewards
<1>4. Gain(u, a) \in Nat
  BY RecordTypes, RewardsAreNat DEF Gain
<1>. QED
  BY <1>3, <1>4

LEMMA ShownIs ==
  IcIInv => \A u \in User : getRewardsBalance(u, AllATokens) = Shown(u) /\ Shown(u) \in Int
<1>. SUFFICES ASSUME IcIInv, NEW u \in User
              PROVE  getRewardsBalance(u, AllATokens) = Shown(u) /\ Shown(u) \in Int
  OBVIOUS
<1>. DEFINE list == AllATokens
            start == usersUnclaimedRewards[u]
            due == [a \in ATokens |-> Due(u, a)]
            solves(f) == f = [n \in 0 .. Len(list) |->
              IF n = 0 THEN start
              ELSE f[n - 1] + getRewards(scaled[list[n]][u],
                     getAssetIndex(assets[list[n]], scaledTotalSupply(list[n]), now),
                     assets[list[n]].users[u])]
            of == CHOOSE f : solves(f)
<1>1. /\ list \in Seq(ATokens)
      /\ \A j, k \in 1 .. Len(list) : list[j] = list[k] => j = k
      /\ Named(list, Len(list)) = ATokens
  BY AllATokensListed
<1>2. start \in Int /\ \A a \in ATokens : due[a] \in Int
  BY DueIsGain DEF IcIInv, ControllerTypeOK
<1>3. getRewardsBalance(u, list) = of[Len(list)]
  BY DEF getRewardsBalance
<1>. HIDE DEF list
<1>4. ASSUME NEW f PROVE solves(f) <=> IsRunningSum(list, start, due, f)
  <2>. DEFINE E(n) == f[n - 1] + getRewards(scaled[list[n]][u],
                        getAssetIndex(assets[list[n]], scaledTotalSupply(list[n]), now),
                        assets[list[n]].users[u])
  <2>1. ASSUME NEW n \in 0 .. Len(list), n # 0 PROVE E(n) = f[n - 1] + due[list[n]]
    <3>1. list[n] \in ATokens
      BY <1>1, <2>1
    <3>. QED  BY <3>1 DEF Due
  <2>. HIDE DEF E, due, start
  <2>2. [n \in 0 .. Len(list) |-> IF n = 0 THEN start ELSE E(n)]
          = [n \in 0 .. Len(list) |-> IF n = 0 THEN start ELSE f[n - 1] + due[list[n]]]
    BY <2>1
  <2>3. solves(f) <=> f = [n \in 0 .. Len(list) |-> IF n = 0 THEN start ELSE E(n)]
    BY DEF E
  <2>. QED  BY <2>2, <2>3 DEF IsRunningSum
<1>. HIDE DEF start, due, solves
<1>5. /\ \E f : IsRunningSum(list, start, due, f)
      /\ \A f : IsRunningSum(list, start, due, f) =>
           f[Len(list)] = start + SumOfNamed(list, due, Len(list))
  BY <1>1, <1>2, RunningSum
<1>6. of[Len(list)] = start + SumOfNamed(list, due, Len(list))
  <2>1. solves(of)
    BY <1>4, <1>5
  <2>. HIDE DEF of
  <2>. QED  BY <1>4, <1>5, <2>1
<1>7. SumOfNamed(list, due, Len(list)) = SumFunctionOnSet(due, ATokens)
  <2>1. due = [a \in ATokens |-> due[a]]
    BY DEF due
  <2>2. [a \in ATokens |-> IF a \in ATokens THEN due[a] ELSE 0] = [a \in ATokens |-> due[a]]
    OBVIOUS
  <2>. QED  BY <1>1, <2>1, <2>2 DEF SumOfNamed
<1>8. SumFunctionOnSet(due, ATokens) \in Int
  <2>1. IsFiniteSet(ATokens)
    BY ControllerAssumption
  <2>. QED  BY <1>2, <2>1, SumInt
<1>9. Shown(u) = start + SumFunctionOnSet(due, ATokens)
  BY DEF Shown, start, due
<1>. HIDE DEF of
<1>. QED
  BY <1>2, <1>3, <1>6, <1>7, <1>8, <1>9 DEF list

LEMMA ShownIsThen ==
  IcIInv' => (\A u \in User : getRewardsBalance(u, AllATokens) = Shown(u) /\ Shown(u) \in Int)'
BY ShownIs, PTL

\* After an update at the index of the present, those updated are due nothing,
\* the others what they were.
LEMMA DueAfterUpdate ==
  ASSUME IcIInv, now' = now, NEW a \in ATokens, NEW us \in SUBSET User, NEW v \in User,
         \/ assets'[a] = updateUsers(assets[a], us, scaled[a], scaledTotalSupply(a), now)
         \/ /\ assets'[a].index = getAssetIndex(assets[a], scaledTotalSupply(a), now)
            /\ assets'[a].lastUpdateTimestamp = now
            /\ assets'[a].users = assets[a].users
            /\ us = {},
         scaled'[a][v] \in Nat, v \in us \/ scaled'[a][v] = scaled[a][v]
  PROVE  Due(v, a)' = IF v \in us THEN 0 ELSE Due(v, a)
<1>. DEFINE r == assets[a]
            s == scaledTotalSupply(a)
            i == getAssetIndex(r, s, now)
            c == assets'[a]
            s2 == scaledTotalSupply(a)'
<1>1. /\ r \in AssetData(User) /\ r.lastUpdateTimestamp <= now
      /\ \A w \in User : r.users[w] <= r.index
      /\ s \in Nat /\ now \in Nat
  BY RecordTypes
<1>2. /\ c.index = i /\ c.lastUpdateTimestamp = now /\ i \in Nat
      /\ c.users[v] = IF v \in us THEN i ELSE r.users[v]
  <2>1. UpdateGives(r, us, scaled[a], s, now)
    <3>. HIDE DEF r, s
    <3>. QED  BY <1>1, UpdatedRecord
  <2>2. i \in Nat
    BY <2>1 DEF UpdateGives
  <2>3. CASE c = updateUsers(r, us, scaled[a], s, now)
    BY <2>1, <2>3 DEF UpdateGives
  <2>4. CASE c.index = i /\ c.lastUpdateTimestamp = now /\ c.users = r.users /\ us = {}
    BY <2>2, <2>4
  <2>. QED  BY <2>3, <2>4
<1>3. Due(v, a)' = getRewards(scaled'[a][v], getAssetIndex(c, s2, now), c.users[v])
  BY DEF Due
<1>4. Due(v, a) = getRewards(scaled[a][v], i, r.users[v])
  BY DEF Due
<1>. HIDE DEF c, s2, i, r, s
<1>5. getAssetIndex(c, s2, now) = i
  BY <1>2 DEF getAssetIndex
<1>6. CASE v \in us
  <2>1. getRewards(scaled'[a][v], i, i) = 0
    BY <1>2, RewardsGrow
  <2>. QED  BY <1>2, <1>3, <1>5, <1>6, <2>1
<1>7. CASE v \notin us
  BY <1>2, <1>3, <1>4, <1>5, <1>7
<1>. QED
  BY <1>6, <1>7

LEMMA ChangeShows ==
  ASSUME IcIInv, IcIInv', NEW a \in ATokens, NEW us \in SUBSET User,
         NEW new \in [User -> Nat], ChangeScaled(a, us, new),
         \A u \in User \ us : new[u] = scaled[a][u], NEW v \in User
  PROVE  Shown(v)' = Shown(v)
<1>. DEFINE f == [b \in ATokens |-> Due(v, b)]
            g == [b \in ATokens |-> Due(v, b)']
            x == usersUnclaimedRewards[v]
            y == usersUnclaimedRewards'[v]
<1>1. /\ handleAction(a, us, scaled[a], scaledTotalSupply(a))
      /\ scaled' = [scaled EXCEPT ![a] = new] /\ now' = now
  BY DEF ChangeScaled, vars
<1>2. /\ assets \in [ATokens -> AssetData(User)] /\ scaled \in [ATokens -> [User -> Nat]]
      /\ usersUnclaimedRewards \in [User -> Nat]
  BY DEF IcIInv, ControllerTypeOK
<1>3. /\ assets'[a] = updateUsers(assets[a], us, scaled[a], scaledTotalSupply(a), now)
      /\ \A b \in ATokens \ {a} : assets'[b] = assets[b] /\ scaled'[b] = scaled[b]
      /\ scaled'[a] = new
      /\ y = IF v \in us THEN x + Gain(v, a) ELSE x
  BY <1>1, <1>2 DEF handleAction, Gain
<1>4. Due(v, a)' = IF v \in us THEN 0 ELSE Due(v, a)
  <2>1. scaled'[a][v] \in Nat /\ (v \in us \/ scaled'[a][v] = scaled[a][v])
    BY <1>3
  <2>. QED  BY <1>1, <1>3, <2>1, DueAfterUpdate
<1>5. \A b \in ATokens \ {a} : Due(v, b)' = Due(v, b)
  BY <1>1, <1>3 DEF Due, scaledTotalSupply
<1>6. Due(v, a) = Gain(v, a) /\ \A b \in ATokens : Due(v, b) \in Nat
  BY DueIsGain
<1>7. /\ \A b \in ATokens : f[b] \in Int
      /\ \A b \in ATokens \ {a} : g[b] = f[b]
      /\ f[a] = Gain(v, a) /\ f[a] \in Int /\ g[a] = IF v \in us THEN 0 ELSE f[a]
  BY <1>4, <1>5, <1>6
<1>8. \A b \in ATokens : g[b] \in Int
  <2>. HIDE DEF f, g
  <2>. QED  BY <1>7
<1>9. /\ Shown(v) = x + SumFunctionOnSet(f, ATokens)
      /\ Shown(v)' = y + SumFunctionOnSet(g, ATokens)
  BY DEF Shown
<1>10. x \in Int
  BY <1>2
<1>. HIDE DEF f, g, x, y
<1>11. /\ SumFunctionOnSet(g, ATokens) = SumFunctionOnSet(f, ATokens) + (g[a] - f[a])
       /\ SumFunctionOnSet(g, ATokens) \in Int /\ SumFunctionOnSet(f, ATokens) \in Int
  <2>1. \A b \in ATokens : f[b] \in Int
    BY <1>7
  <2>2. \A b \in ATokens \ {a} : g[b] = f[b]
    BY <1>7
  <2>. QED  BY <1>8, <2>1, <2>2, OneATokenChanges
<1>12. CASE v \in us
  <2>1. y = x + f[a] /\ g[a] = 0 /\ f[a] \in Int
    BY <1>3, <1>7, <1>12
  <2>. QED  BY <1>9, <1>10, <1>11, <2>1
<1>13. CASE v \notin us
  <2>1. y = x /\ g[a] - f[a] = 0
    BY <1>3, <1>7, <1>13
  <2>. QED  BY <1>9, <1>10, <1>11, <2>1
<1>. QED
  BY <1>12, <1>13

LEMMA ConfigureATokenShows ==
  ASSUME IcIInv, NEW a \in ATokens, NEW e \in Emissions,
         configureAToken(a, e, scaledTotalSupply(a)), NEW v \in User
  PROVE  Shown(v)' = Shown(v)
<1>. DEFINE r == assets[a]
            s == scaledTotalSupply(a)
            c == updateAssetState(r, s, now)
            d == [c EXCEPT !.emissionPerSecond = e]
            none == {}
<1>1. /\ assets' = [assets EXCEPT ![a] = d] /\ now' = now /\ scaled' = scaled
      /\ usersUnclaimedRewards' = usersUnclaimedRewards
  BY DEF configureAToken, vars
<1>2. /\ assets \in [ATokens -> AssetData(User)] /\ scaled \in [ATokens -> [User -> Nat]]
  BY DEF IcIInv, ControllerTypeOK
<1>3. /\ r \in AssetData(User) /\ r.lastUpdateTimestamp <= now
      /\ \A w \in User : r.users[w] <= r.index
      /\ s \in Nat /\ now \in Nat
  BY RecordTypes
<1>4. assets'[a] = d /\ \A b \in ATokens \ {a} : assets'[b] = assets[b]
  BY <1>1, <1>2
<1>5. c.index = getAssetIndex(r, s, now)
  <2>. HIDE DEF r, s
  <2>. QED  BY <1>3, IndexOfNow
<1>6. c \in AssetData(User)
  <2>1. {} \in SUBSET User
    OBVIOUS
  <2>. HIDE DEF r, s
  <2>. QED  BY <1>3, <2>1, UpdateKeepsOrder
<1>7. c.lastUpdateTimestamp = now /\ c.users = r.users
  <2>. HIDE DEF r, s
  <2>. QED  BY <1>3 DEF updateAssetState, AssetData
<1>. HIDE DEF c
<1>8. d.index = getAssetIndex(r, s, now) /\ d.lastUpdateTimestamp = now /\ d.users = r.users
  BY <1>5, <1>6, <1>7 DEF AssetData
<1>. HIDE DEF d
<1>9. Due(v, a)' = Due(v, a)
  <2>1. none \in SUBSET User /\ v \notin none
    OBVIOUS
  <2>2. scaled'[a][v] \in Nat /\ scaled'[a][v] = scaled[a][v]
    BY <1>1, <1>2
  <2>3. /\ assets'[a].index = getAssetIndex(assets[a], scaledTotalSupply(a), now)
        /\ assets'[a].lastUpdateTimestamp = now /\ assets'[a].users = assets[a].users
        /\ none = {}
    BY <1>4, <1>8
  <2>. HIDE DEF none
  <2>4. Due(v, a)' = IF v \in none THEN 0 ELSE Due(v, a)
    BY <1>1, <2>1, <2>2, <2>3, DueAfterUpdate
  <2>. QED  BY <2>1, <2>4
<1>10. \A b \in ATokens \ {a} : Due(v, b)' = Due(v, b)
  BY <1>1, <1>4 DEF Due, scaledTotalSupply
<1>11. [b \in ATokens |-> Due(v, b)]' = [b \in ATokens |-> Due(v, b)]
  BY <1>9, <1>10
<1>. QED
  BY <1>1, <1>11 DEF Shown

LEMMA StillShows ==
  ASSUME IcIInv, PSMStep \/ UNCHANGED icVars, NEW v \in User
  PROVE  Shown(v)' = Shown(v)
<1>1. UNCHANGED <<scaled, assets, usersUnclaimedRewards>> /\ now' = now
  BY IcPSMKeeps DEF PSMStep, controllerVars, icVars, vars
<1>2. \A b \in ATokens : Due(v, b)' = Due(v, b)
  BY <1>1 DEF Due, scaledTotalSupply
<1>3. [b \in ATokens |-> Due(v, b)]' = [b \in ATokens |-> Due(v, b)]
  BY <1>2
<1>. QED
  BY <1>1, <1>3 DEF Shown

LEMMA IcTickShows ==
  ASSUME IcIInv, Tick, NEW v \in User
  PROVE  ~(Shown(v)' < Shown(v))
<1>. DEFINE f == [b \in ATokens |-> Due(v, b)]
            g == [b \in ATokens |-> Due(v, b)']
            x == usersUnclaimedRewards[v]
<1>0. IsFiniteSet(ATokens)
  BY ControllerAssumption
<1>1. now' = now + 1 /\ UNCHANGED <<scaled, assets, usersUnclaimedRewards>>
  BY DEF Tick, tick, controllerVars
<1>2. ASSUME NEW b \in ATokens
      PROVE  Due(v, b) \in Nat /\ Due(v, b)' \in Nat /\ Due(v, b) <= Due(v, b)'
  <2>. DEFINE r == assets[b]
              s == scaledTotalSupply(b)
              i == getAssetIndex(r, s, now)
              j == getAssetIndex(r, s, now + 1)
  <2>1. /\ r \in AssetData(User) /\ r.lastUpdateTimestamp <= now
        /\ r.users[v] <= r.index /\ r.users[v] \in Nat /\ r.index \in Nat
        /\ scaled[b][v] \in Nat /\ s \in Nat /\ now \in Nat /\ now + 1 \in Nat /\ now <= now + 1
    BY RecordTypes DEF AssetData
  <2>2. Due(v, b) = getRewards(scaled[b][v], i, r.users[v])
    BY DEF Due
  <2>3. Due(v, b)' = getRewards(scaled[b][v], j, r.users[v])
    BY <1>1 DEF Due, scaledTotalSupply
  <2>. HIDE DEF r, s
  <2>4. r.lastUpdateTimestamp <= now + 1
    BY <2>1 DEF AssetData
  <2>5. i \in Nat /\ r.index <= i /\ j \in Nat
    BY <2>1, <2>4, IndexGrows
  <2>6. i <= j
    BY <2>1, IndexInTime
  <2>. HIDE DEF i, j
  <2>. DEFINE m == r.users[v]
              n == scaled[b][v]
  <2>7. n \in Nat /\ m \in Nat /\ m <= i /\ Due(v, b) = getRewards(n, i, m)
        /\ Due(v, b)' = getRewards(n, j, m)
    BY <2>1, <2>2, <2>3, <2>5
  <2>. HIDE DEF m, n
  <2>8. getRewards(n, i, m) \in Nat /\ getRewards(n, j, m) \in Nat
        /\ getRewards(n, i, m) <= getRewards(n, j, m)
    BY <2>5, <2>6, <2>7, RewardsGrow
  <2>. QED  BY <2>7, <2>8
<1>3. \A b \in ATokens : f[b] \in Int /\ g[b] \in Int /\ f[b] <= g[b]
  BY <1>2
<1>4. /\ Shown(v) = x + SumFunctionOnSet(f, ATokens) /\ x \in Int
      /\ Shown(v)' = x + SumFunctionOnSet(g, ATokens)
  BY <1>1 DEF Shown, IcIInv, ControllerTypeOK
<1>. HIDE DEF f, g, x
<1>5. SumFunctionOnSet(f, ATokens) <= SumFunctionOnSet(g, ATokens)
  BY <1>0, <1>3, SumMonotone
<1>6. SumFunctionOnSet(f, ATokens) \in Int /\ SumFunctionOnSet(g, ATokens) \in Int
  <2>1. \A b \in ATokens : f[b] \in Int
    BY <1>3
  <2>2. \A b \in ATokens : g[b] \in Int
    BY <1>3
  <2>. QED  BY <1>0, <2>1, <2>2, SumInt
<1>. QED
  BY <1>4, <1>5, <1>6

\* A claim lowers what its user is shown by what he takes, nobody else's.
LEMMA ClaimShowsInPool ==
  ASSUME IcIInv, NEW u \in User, NEW list \in Seq(ATokens), NEW taken \in Nat,
         ClaimedBy(u, list, taken), NEW v \in User
  PROVE  Shown(v)' = IF v = u THEN Shown(v) - taken ELSE Shown(v)
<1>. DEFINE f == [b \in ATokens |-> Due(v, b)]
            g == [b \in ATokens |-> Due(v, b)']
            gains == Gains(u, list)
            gain == SumFunctionOnSet(gains, ATokens)
            x == usersUnclaimedRewards[v]
            y == usersUnclaimedRewards'[v]
            us == {u}
            none == {}
<1>0. IsFiniteSet(ATokens)
  BY ControllerAssumption
<1>1. /\ assets' = [a \in ATokens |-> IF a \in ToSet(list) THEN Settled(u, a) ELSE assets[a]]
      /\ usersUnclaimedRewards' =
           [usersUnclaimedRewards EXCEPT ![u] = (usersUnclaimedRewards[u] + gain) - taken]
      /\ now' = now /\ scaled' = scaled
  BY DEF ClaimedBy
<1>2. /\ scaled \in [ATokens -> [User -> Nat]] /\ usersUnclaimedRewards \in [User -> Nat]
  BY DEF IcIInv, ControllerTypeOK
<1>3. us \in SUBSET User /\ (v \in us <=> v = u)
  OBVIOUS
<1>4. \A b \in ATokens : Due(v, b) = Gain(v, b) /\ Due(v, b) \in Nat
  BY DueIsGain
<1>5. ASSUME NEW b \in ATokens
      PROVE  Due(v, b)' = IF v = u /\ b \in ToSet(list) THEN 0 ELSE Due(v, b)
  <2>1. CASE b \in ToSet(list)
    <3>1. assets'[b] = updateUsers(assets[b], us, scaled[b], scaledTotalSupply(b), now)
      BY <1>1, <2>1 DEF Settled
    <3>2. scaled'[b][v] \in Nat /\ (v \in us \/ scaled'[b][v] = scaled[b][v])
      BY <1>1, <1>2
    <3>. HIDE DEF us
    <3>3. Due(v, b)' = IF v \in us THEN 0 ELSE Due(v, b)
      BY <1>1, <1>3, <3>1, <3>2, DueAfterUpdate
    <3>. QED  BY <1>3, <2>1, <3>3
  <2>2. CASE b \notin ToSet(list)
    <3>1. assets'[b] = assets[b]
      BY <1>1, <2>2
    <3>. QED  BY <1>1, <2>2, <3>1 DEF Due, scaledTotalSupply
  <2>. QED  BY <2>1, <2>2
<1>6. /\ Shown(v) = x + SumFunctionOnSet(f, ATokens)
      /\ Shown(v)' = y + SumFunctionOnSet(g, ATokens)
  BY DEF Shown
<1>7. x \in Nat
  BY <1>2
<1>8. CASE v # u
  <2>1. y = x
    BY <1>1, <1>2, <1>8
  <2>2. g = f
    BY <1>5, <1>8
  <2>. HIDE DEF f, g, x, y
  <2>. QED  BY <1>6, <1>8, <2>1, <2>2
<1>9. CASE v = u
  <2>1. y = (x + gain) - taken
    BY <1>1, <1>2, <1>9
  <2>2. \A b \in ATokens : g[b] \in Int /\ gains[b] \in Int /\ f[b] = g[b] + gains[b]
    BY <1>4, <1>5, <1>9 DEF Gains
  <2>3. \A b \in ATokens : g[b] \in Int
    BY <2>2
  <2>4. gain \in Nat
    BY ClaimLoopResult
  <2>. HIDE DEF f, g, x, y, gains
  <2>5. SumFunctionOnSet(f, ATokens) = SumFunctionOnSet(g, ATokens) + SumFunctionOnSet(gains, ATokens)
    BY <1>0, <2>2, SumAdd
  <2>6. SumFunctionOnSet(g, ATokens) \in Int
    BY <1>0, <2>3, SumInt
  <2>7. SumFunctionOnSet(f, ATokens) = SumFunctionOnSet(g, ATokens) + gain
    BY <2>5
  <2>. HIDE DEF gain
  <2>. QED  BY <1>6, <1>7, <1>9, <2>1, <2>4, <2>6, <2>7
<1>. QED
  BY <1>8, <1>9

LEMMA StepShows ==
  ASSUME IcIInv, IcIInv', [IcNext]_icVars, NEW u \in User, Shown(u) \in Int, Shown(u)' \in Int
  PROVE  Shown(u)' < Shown(u) =>
           MisinformedPoolConfigure \/ Shown(u) - Shown(u)' = claimed' - claimed
<1>1. CASE Claim
  <2>1. PICK v \in User, list \in Seq(ATokens), taken \in Nat : ClaimedBy(v, list, taken)
    BY <1>1, ClaimSteps
  <2>2. Shown(u)' = IF u = v THEN Shown(u) - taken ELSE Shown(u)
    BY <2>1, ClaimShowsInPool
  <2>3. claimed' = claimed + taken /\ claimed \in Nat
    BY <2>1 DEF ClaimedBy, IcIInv, ControllerTypeOK
  <2>. QED  BY <2>2, <2>3
<1>2. CASE PoolStep
  <2>1. Shown(u)' = Shown(u) \/ MisinformedPoolConfigure
    <3>1. ASSUME NEW a \in ATokens, NEW e \in Emissions,
                 NEW total \in TotalStakedInputs \cup {scaledTotalSupply(a)}, configureAToken(a, e, total)
          PROVE  Shown(u)' = Shown(u) \/ MisinformedPoolConfigure
      <4>1. CASE total = scaledTotalSupply(a)
        BY <3>1, <4>1, ConfigureATokenShows
      <4>2. CASE total # scaledTotalSupply(a)
        BY <3>1, <4>2 DEF MisinformedPoolConfigure
      <4>. QED  BY <4>1, <4>2
    <3>. QED  BY <1>2, <3>1, PoolChange, ChangeShows
  <2>. QED  BY <2>1
<1>3. CASE PSMStep \/ UNCHANGED icVars
  <2>1. Shown(u)' = Shown(u)
    BY <1>3, StillShows
  <2>. QED  BY <2>1
<1>4. CASE Tick
  BY <1>4, IcTickShows
<1>. QED
  BY <1>1, <1>2, <1>3, <1>4 DEF IcNext

\* The rewards a user is shown for all aTokens fall only by a claim, and then
\* by what was claimed: no deposit, transfer, claim of somebody else's or
\* incomplete list takes any from him.  The one exception is a configureAssets
\* that is told another total than the aToken's supply.
THEOREM PoolShownNeverShrink == IcSpec => PoolRewardsNeverShrink
<1>. DEFINE fair(u) ==
       LET before == getRewardsBalance(u, AllATokens) IN
       LET after == getRewardsBalance(u, AllATokens)' IN
          after < before =>
            \/ MisinformedPoolConfigure
            \/ before - after = claimed' - claimed
<1>1. ASSUME IcIInv, IcIInv', [IcNext]_icVars, NEW u \in User PROVE fair(u)
  <2>1. /\ getRewardsBalance(u, AllATokens) = Shown(u) /\ Shown(u) \in Int
        /\ getRewardsBalance(u, AllATokens)' = Shown(u)' /\ Shown(u)' \in Int
    BY <1>1, ShownIs, ShownIsThen
  <2>2. Shown(u)' < Shown(u) =>
          MisinformedPoolConfigure \/ Shown(u) - Shown(u)' = claimed' - claimed
    BY <1>1, <2>1, StepShows
  <2>. QED  BY <2>1, <2>2
<1>2. IcIInv /\ IcIInv' /\ [IcNext]_icVars => [\A u \in User : fair(u)]_icVars
  <2>. HIDE DEF fair
  <2>. QED  BY <1>1
<1>. HIDE DEF fair
<1>3. IcSpec => [][\A u \in User : fair(u)]_icVars
  BY <1>2, PoolInductiveInvariant, PTL DEF IcSpec
<1>. QED
  BY <1>3 DEF PoolRewardsNeverShrink, fair

==============================================================================
