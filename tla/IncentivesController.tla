------------------------ MODULE IncentivesController ------------------------
(***************************************************************************)
(* contracts/stake/RollexIncentivesController.sol with the staked token it *)
(* stakes rewards into, its PSM (module StakedREX), and the aTokens of the *)
(* lending pool, which are external: they report a user's balance and the  *)
(* supply to handleAction whenever they change, and tell the controller the*)
(* present ones when it asks.                                              *)
(*                                                                         *)
(* The controller inherits the distribution manager, so an aToken's record *)
(* is one of RollexDistributionManager.  As in test/helpers/deploy.ts one  *)
(* vault pays the rewards of both contracts, and both distributions have   *)
(* one end.  Allowances suffice: initialize and the vault approve the      *)
(* maximum.  A transaction is one step: what reverts leaves no trace.      *)
(***************************************************************************)
EXTENDS StakedREX, SequencesExt

CONSTANTS
    ATokens,            \* the assets of the lending pool
    Controller,         \* address(this)
    EXTRA_PSM_REWARD,   \* percent on top of rewards that are staked
    AssetLists,         \* the lists of aTokens users pass to claimRewards
    ClaimAmounts,       \* the amounts they pass
    StakeChoices,       \* the values of its argument stake
    Deposits,           \* bound: amounts of aTokens minted, burnt, sent
    MaxSupply           \* bound: aToken -> its supply

ASSUME ControllerAssumption ==
    /\ IsFiniteSet(ATokens)
    /\ Controller \notin User \cup {StakeContract, RewardsVault}
    /\ EXTRA_PSM_REWARD \in Nat
    /\ AssetLists \subseteq Seq(ATokens)
    /\ ClaimAmounts \subseteq Nat /\ StakeChoices \subseteq BOOLEAN
    /\ Deposits \subseteq Nat /\ MaxSupply \in [ATokens -> Nat]

VARIABLES
    scaled,                 \* aToken -> user -> scaled balance (external)
    assets,                 \* aToken -> its AssetData in the controller
    usersUnclaimedRewards,
    granted,                \* history: rewards the emissions granted to non-empty aTokens
    claimed                 \* history: rewards claimed, without the extra

controllerVars == <<scaled, assets, usersUnclaimedRewards, claimed>>
icVars == <<vars, controllerVars, granted>>

scaledTotalSupply(a) == SumFunctionOnSet(scaled[a], User)

\* What the aTokens' emissions grant while time passes, to whoever holds them.
GrantedUntil(t) ==
    SumFunctionOnSet(
        [a \in ATokens |-> IF scaledTotalSupply(a) = 0 THEN 0
                           ELSE assets[a].emissionPerSecond * (UpToEnd(t) - UpToEnd(now))], ATokens)

IcInit ==
    /\ Init
    /\ scaled = [a \in ATokens |-> [u \in User |-> 0]]
    /\ assets = [a \in ATokens |-> NoAssetData(User)]
    /\ usersUnclaimedRewards = [u \in User |-> 0]
    /\ granted = 0 /\ claimed = 0

-----------------------------------------------------------------------------
(***************************************************************************)
(* handleAction, for each user of us in one transaction of aToken a, with  *)
(* the balances and the supply that a passes.                              *)
(***************************************************************************)
handleAction(a, us, userBalance, totalSupplyOfA) ==
    /\ CanAccrue(assets[a], us, userBalance, totalSupplyOfA, now)
    /\ assets' = [assets EXCEPT ![a] = updateUsers(@, us, userBalance, totalSupplyOfA, now)]
    /\ usersUnclaimedRewards' =
         [u \in User |->
            IF u \in us THEN usersUnclaimedRewards[u]
                             + accruedRewards(assets[a], u, userBalance, totalSupplyOfA, now)
            ELSE usersUnclaimedRewards[u]]

\* Variant: an aToken that reports what it has after the change.
ReportedAfter(a, us, new) ==
    /\ scaled' = [scaled EXCEPT ![a] = new]
    /\ handleAction(a, us, new, SumFunctionOnSet(new, User))
    /\ UNCHANGED <<vars, granted, claimed>>

\* An aToken changes the balances of us to new, and reports the old ones.
ChangeScaled(a, us, new) ==
    /\ scaled' = [scaled EXCEPT ![a] = new]
    /\ handleAction(a, us, scaled[a], scaledTotalSupply(a))
    /\ UNCHANGED <<vars, granted, claimed>>

Deposit(a, u, amount) ==
    /\ scaledTotalSupply(a) + amount <= MaxSupply[a]
    /\ ChangeScaled(a, {u}, [scaled[a] EXCEPT ![u] = @ + amount])

Withdraw(a, u, amount) ==
    /\ amount <= scaled[a][u]
    /\ ChangeScaled(a, {u}, [scaled[a] EXCEPT ![u] = @ - amount])

Send(a, from, to, amount) ==
    /\ amount <= scaled[a][from]
    /\ ChangeScaled(a, {from, to}, Move(scaled[a], from, to, amount))

\* configureAssets by the EMISSION_MANAGER.  The index moves with the total the
\* manager passes, which nothing compares to the aToken's supply.
configureAToken(a, emissionPerSecond, totalStaked) ==
    /\ assets' = [assets EXCEPT ![a] =
                    [updateAssetState(@, totalStaked, now)
                       EXCEPT !.emissionPerSecond = emissionPerSecond]]
    /\ UNCHANGED <<vars, scaled, usersUnclaimedRewards, granted, claimed>>

-----------------------------------------------------------------------------
(***************************************************************************)
(* claimRewards.                                                           *)
(***************************************************************************)
\* One turn of _claimRewards' loop: acc has the records and the sum so far.
ClaimOne(u, acc, a) ==
    [assets |-> [acc.assets EXCEPT ![a] = updateUsers(@, {u}, scaled[a], scaledTotalSupply(a), now)],
     accrued |-> acc.accrued
                 + accruedRewards(acc.assets[a], u, scaled[a], scaledTotalSupply(a), now)]

\* _claimRewards over the list, which may name an aToken twice
claimLoop(u, list) ==
    LET turns[n \in 0..Len(list)] ==
            IF n = 0 THEN [assets |-> assets, accrued |-> 0]
            ELSE ClaimOne(u, turns[n - 1], list[n])
    IN  turns[Len(list)]

\* Variant: the amount is not capped.
AsMuchAsAsked(amount, unclaimed) == amount

\* The part of the unclaimed rewards that is paid
toClaim(amount, unclaimed) == IF amount > unclaimed THEN unclaimed ELSE amount

\* Variant: the accrual of this call is paid but the rest is computed without it.
RestForgetsAccrual(u, accrued, taken) == usersUnclaimedRewards[u]

\* What stays unclaimed
rest(u, accrued, taken) == usersUnclaimedRewards[u] + accrued - taken

\* What the vault pays; the extra is rounded down.
payout(taken, stakeThem) ==
    IF stakeThem THEN taken + (taken * EXTRA_PSM_REWARD) \div 100 ELSE taken

\* Variant: the staked amount is the one without the extra.
StakedWithoutExtra(to, amount, taken) == amount - (taken * EXTRA_PSM_REWARD) \div 100

\* What PSM.stake mints to the beneficiary
minted(to, amount, taken) == amount

(***************************************************************************)
(* PSM.stake called by the controller after transferFrom(vault, this), for *)
(* the beneficiary: StakedREX's stake but for the payer.                   *)
(***************************************************************************)
StakeFromVault(to, amount, taken) ==
    /\ UpdateRewards({to})
    /\ stakersCooldowns' = [stakersCooldowns EXCEPT ![to] =
                              getNextCooldownTimestamp(0, amount, to, balances[to])]
    /\ Mint(to, minted(to, amount, taken))
    /\ rex' = [rex EXCEPT ![RewardsVault] = @ - amount,
                          ![StakeContract] = @ + minted(to, amount, taken)]
    /\ UNCHANGED now

PayFromVault(to, amount) ==
    /\ rex' = Move(rex, RewardsVault, to, amount)
    /\ UNCHANGED <<now, balances, totalSupply, asset, stakerRewardsToClaim, stakersCooldowns>>

\* With nothing to claim the records are updated and the call returns 0.
claimPoolRewards(u, list, amount, to, stakeThem) ==
    LET loop == claimLoop(u, list)
        taken == toClaim(amount, usersUnclaimedRewards[u] + loop.accrued)
        paid == payout(taken, stakeThem)
    IN  /\ amount # 0
        /\ \A a \in ToSet(list) : CanAccrue(assets[a], {u}, scaled[a], scaledTotalSupply(a), now)
        /\ assets' = loop.assets
        /\ usersUnclaimedRewards' = [usersUnclaimedRewards EXCEPT ![u] = rest(u, loop.accrued, taken)]
        /\ claimed' = claimed + taken
        /\ IF taken = 0 THEN UNCHANGED vars
           ELSE /\ paid <= rex[RewardsVault]
                /\ IF stakeThem THEN StakeFromVault(to, paid, taken) ELSE PayFromVault(to, paid)
        /\ UNCHANGED <<scaled, granted>>

\* getRewardsBalance, for the aTokens of the list
getRewardsBalance(u, list) ==
    LET of[n \in 0..Len(list)] ==
            IF n = 0 THEN usersUnclaimedRewards[u]
            ELSE of[n - 1] + getRewards(scaled[list[n]][u],
                     getAssetIndex(assets[list[n]], scaledTotalSupply(list[n]), now),
                     assets[list[n]].users[u])
    IN  of[Len(list)]

-----------------------------------------------------------------------------
Claim ==
    \E u \in User, list \in AssetLists, amount \in ClaimAmounts, stakeThem \in StakeChoices :
        \E to \in IF stakeThem THEN Recipients \cap User ELSE Recipients :
            claimPoolRewards(u, list, amount, to, stakeThem)

PoolStep ==
    \/ \E a \in ATokens, u \in User, amount \in Deposits : Deposit(a, u, amount) \/ Withdraw(a, u, amount)
    \/ \E a \in ATokens, from, to \in User, amount \in Deposits : Send(a, from, to, amount)
    \/ \E a \in ATokens, e \in Emissions : \E total \in TotalStakedInputs \cup {scaledTotalSupply(a)} :
          configureAToken(a, e, total)

PSMStep ==
    /\ \/ \E u \in User, amount \in Amounts : stake(u, u, amount) \/ redeem(u, u, amount)
       \/ \E u \in User : cooldown(u)
    /\ UNCHANGED <<controllerVars, granted>>

Tick ==
    /\ tick
    /\ granted' = granted + GrantedUntil(now + 1)
    /\ UNCHANGED controllerVars

IcNext == Claim \/ PoolStep \/ PSMStep \/ Tick

IcSpec == IcInit /\ [][IcNext]_icVars

-----------------------------------------------------------------------------
\* Types; the cap of claimRewards keeps the unchecked subtraction in Nat.
ControllerTypeOK ==
    /\ TypeOK
    /\ scaled \in [ATokens -> [User -> Nat]]
    /\ assets \in [ATokens -> AssetData(User)]
    /\ usersUnclaimedRewards \in [User -> Nat]
    /\ granted \in Nat /\ claimed \in Nat

AllATokens == SetToSeq(ATokens)

(***************************************************************************)
(* What is claimed, credited and still accruing (scaled by UNIT) was       *)
(* granted by the emissions: no order of deposits, withdrawals, transfers  *)
(* and claims, with whatever list, pays a second twice.  It rests on the   *)
(* aTokens reporting balance and supply from before a change, and on       *)
(* configureAssets being told 0 or no less than the supply.                *)
(***************************************************************************)
PoolRewardsCovered ==
    UNIT * (claimed + SumFunctionOnSet(usersUnclaimedRewards, User))
    + SumFunctionOnSet(
        [a \in ATokens |-> SumFunctionOnSet(
            [u \in User |-> scaled[a][u]
                * (getAssetIndex(assets[a], scaledTotalSupply(a), now) - assets[a].users[u])], User)], ATokens)
    <= UNIT * granted

\* configureAssets is told a total other than the aToken's supply.
MisinformedPoolConfigure ==
    \E a \in ATokens, e \in Emissions : \E total \in TotalStakedInputs \ {scaledTotalSupply(a)} :
        configureAToken(a, e, total)

(***************************************************************************)
(* The rewards a user is shown for all aTokens fall only by a claim, and   *)
(* then by what was claimed: nothing a deposit, a transfer, somebody's     *)
(* claim or an incomplete list does takes any from him.  Or they fall when *)
(* the emission manager gives configureAssets another total than the       *)
(* aToken's supply, as the repository's tests do: with 0 the seconds since *)
(* the last update are forfeited.                                          *)
(***************************************************************************)
PoolRewardsNeverShrink ==
    [][\A u \in User :
         LET before == getRewardsBalance(u, AllATokens) IN
         LET after == getRewardsBalance(u, AllATokens)' IN
            after < before =>
              \/ MisinformedPoolConfigure
              \/ before - after = claimed' - claimed]_icVars

(***************************************************************************)
(* A claim is paid in full or not at all: the vault gives exactly what was *)
(* claimed, to a user; or that with the extra, and then the stakers have as*)
(* much more stkREX, and the staked token the REX that backs it.  The      *)
(* controller keeps nothing in between.                                    *)
(***************************************************************************)
ClaimPaidInFull ==
    [][claimed' > claimed =>
         LET taken == claimed' - claimed
             gone == rex[RewardsVault] - rex'[RewardsVault]
             staked == totalSupply' - totalSupply
         IN  \/ gone = taken /\ staked = 0
             \/ /\ gone = taken + (taken * EXTRA_PSM_REWARD) \div 100
                /\ staked = gone
                /\ rex'[StakeContract] - rex[StakeContract] = gone]_icVars

\* configureAssets is told less than the aToken's supply, but not 0.
UnderstatedPoolConfigure ==
    \E a \in ATokens, e \in Emissions, total \in TotalStakedInputs :
        /\ total # 0 /\ total < scaledTotalSupply(a)
        /\ configureAToken(a, e, total)

\* The emission manager keeps to 0, to the supply or to more than that.
PoolNeverUnderstated == [][~UnderstatedPoolConfigure]_icVars

-----------------------------------------------------------------------------
(***************************************************************************)
(* The inductive invariant of the proofs.  Rewards stay natural while the  *)
(* users' indexes stay behind their asset's, in both contracts.            *)
(***************************************************************************)
RecordInOrder(record) ==
    /\ record.lastUpdateTimestamp <= now
    /\ \A u \in User : record.users[u] <= record.index

IcIInv ==
    /\ ControllerTypeOK
    /\ RecordInOrder(asset)
    /\ \A a \in ATokens : RecordInOrder(assets[a])
    /\ \A u \in User : stakersCooldowns[u] <= now

\* What of a's emission is spoken for (scaled): what its users accrue at the
\* index stored, and all that was emitted since the last update.
Pending(a) ==
    SumFunctionOnSet(
        [u \in User |-> scaled[a][u] * (assets[a].index - assets[a].users[u])], User)
    + UNIT * (IF scaledTotalSupply(a) = 0 THEN 0
              ELSE assets[a].emissionPerSecond
                     * (UpToEnd(now) - UpToEnd(assets[a].lastUpdateTimestamp)))

\* PoolRewardsCovered speaks of the rounded index of the present, and a tick may
\* move that by more than a second's emission.  This is inductive.
PoolAccounted ==
    UNIT * (claimed + SumFunctionOnSet(usersUnclaimedRewards, User))
    + SumFunctionOnSet([a \in ATokens |-> Pending(a)], ATokens)
    <= UNIT * granted

=============================================================================
