------------------------------ MODULE StakedREX ------------------------------
(***************************************************************************)
(* contracts/stake/StakedREX.sol: REX is locked in the contract, stkREX is *)
(* minted one to one, stakers accrue REX rewards from a vault, and stake   *)
(* leaves the contract only in a window that opens COOLDOWN_SECONDS after  *)
(* the staker asked for it and stays open for UNSTAKE_WINDOW seconds.      *)
(*                                                                         *)
(* One action per transaction that changes state.  A transaction that      *)
(* reverts changes nothing, so each require, each SafeMath sub or div and  *)
(* each balance check of the REX token is a conjunct of the action's guard.*)
(* StakedREXV3.sol keeps these functions as they are; what it adds         *)
(* (delegation, permit) does not touch the variables of this module.       *)
(*                                                                         *)
(* Abstractions.  The allowances payers and the vault give this contract   *)
(* are assumed to suffice (transferFrom then only needs the balance).  The *)
(* snapshots and the governance hook of _beforeTokenTransfer read and      *)
(* write nothing of what is modelled here.  Addresses that never hold      *)
(* stkREX are not in User.  configureAssets may list other assets too:     *)
(* no function of StakedREX reads their records.                           *)
(***************************************************************************)
EXTENDS RollexDistributionManager, FiniteSets

CONSTANTS User,                 \* the accounts that stake, hold or receive stkREX
          StakeContract,        \* address(this)
          RewardsVault,         \* REWARDS_VAULT
          COOLDOWN_SECONDS,
          UNSTAKE_WINDOW,
          UINT_MAX,             \* type(uint256).max, "everything" in claimRewards
          \* bounds of the model
          StartTime, MaxTime,   \* block.timestamp runs from one to the other
          InitialREX,           \* the REX each account holds at the start
          Amounts,              \* the amounts passed to calls
          Recipients,           \* the REX accounts redeem and claimRewards pay to
          Emissions,            \* the rates configureAssets is given
          TotalStakedInputs     \* totalStaked arguments other than totalSupply()

RexAccount == User \cup {StakeContract, RewardsVault}

ASSUME AccountsAssumption ==
  StakeContract \notin User /\ RewardsVault \notin User /\ StakeContract # RewardsVault
\* Finitely many addresses have ever held stkREX.
ASSUME FiniteUsersAssumption == IsFiniteSet(User)
ASSUME PeriodsAssumption == COOLDOWN_SECONDS \in Nat /\ UNSTAKE_WINDOW \in Nat
\* UNIX time: the two periods are days, the clock has run for decades.
ASSUME TimeAssumption ==
  /\ StartTime \in Nat /\ MaxTime \in Nat /\ StartTime <= MaxTime
  /\ COOLDOWN_SECONDS + UNSTAKE_WINDOW < StartTime
ASSUME InputsAssumption ==
  /\ InitialREX \in [RexAccount -> Nat]
  /\ Amounts \subseteq Nat
  /\ Recipients \subseteq RexAccount
  /\ UINT_MAX \in Nat
  /\ Emissions \subseteq Nat
  /\ TotalStakedInputs \subseteq Nat

VARIABLES now,                  \* block.timestamp
          balances,             \* stkREX, ERC20._balances
          totalSupply,          \* stkREX, ERC20._totalSupply
          asset,                \* assets[address(this)]
          stakerRewardsToClaim,
          stakersCooldowns,     \* 0: no cooldown asked for
          rex                   \* balances of the REX token

vars == <<now, balances, totalSupply, asset, stakerRewardsToClaim, stakersCooldowns, rex>>

TypeOK ==
  /\ now \in StartTime .. MaxTime
  /\ balances \in [User -> Nat]
  /\ totalSupply \in Nat
  /\ asset \in AssetData(User)
  /\ stakerRewardsToClaim \in [User -> Nat]
  /\ stakersCooldowns \in [User -> 0 .. MaxTime]
  /\ rex \in [RexAccount -> Nat]

------------------------------------------------------------------------------
(* Helpers *)

\* Variant: a cooldown is over the moment it starts.
CooldownOverAtOnce(u) == now > stakersCooldowns[u]

\* redeem's first require: COOLDOWN_SECONDS have passed
CooldownOver(u) == now > stakersCooldowns[u] + COOLDOWN_SECONDS

\* Variant: the last second of the window is lost.
WindowNotFinishedStrict(u) == now - (stakersCooldowns[u] + COOLDOWN_SECONDS) < UNSTAKE_WINDOW

\* redeem's second require: the window is still open
WindowNotFinished(u) == now - (stakersCooldowns[u] + COOLDOWN_SECONDS) <= UNSTAKE_WINDOW

InUnstakeWindow(u) == CooldownOver(u) /\ WindowNotFinished(u)

\* Cooldowns older than this have missed their window.  By TimeAssumption the
\* two SafeMath subs cannot revert.
minimalValidCooldownTimestamp == now - COOLDOWN_SECONDS - UNSTAKE_WINDOW

\* The sender's cooldown as the recipient inherits it: none (0) or expired
\* counts as asked for right now.
InheritedCooldown(fromCooldown) ==
  IF minimalValidCooldownTimestamp > fromCooldown THEN now ELSE fromCooldown

Expired(cooldownTimestamp) == minimalValidCooldownTimestamp > cooldownTimestamp

\* The branch of getNextCooldownTimestamp that takes the weighted average
TakesAverage(fromCooldown, to) ==
  /\ stakersCooldowns[to] # 0
  /\ ~Expired(stakersCooldowns[to])
  /\ InheritedCooldown(fromCooldown) >= stakersCooldowns[to]

\* Variants of the next operator: the sum is not divided by the total; a
\* cooldown in the last second of its window counts as expired.
CooldownWithoutDivision(fromCooldown, amount, to, toBalance) ==
  IF stakersCooldowns[to] = 0 \/ Expired(stakersCooldowns[to]) THEN 0
  ELSE IF ~TakesAverage(fromCooldown, to) THEN stakersCooldowns[to]
  ELSE amount * InheritedCooldown(fromCooldown) + toBalance * stakersCooldowns[to]

CooldownExpiredEarly(fromCooldown, amount, to, toBalance) ==
  IF stakersCooldowns[to] = 0 \/ minimalValidCooldownTimestamp >= stakersCooldowns[to] THEN 0
  ELSE IF ~TakesAverage(fromCooldown, to) THEN stakersCooldowns[to]
  ELSE (amount * InheritedCooldown(fromCooldown) + toBalance * stakersCooldowns[to])
         \div (amount + toBalance)

\* getNextCooldownTimestamp: the recipient's cooldown after receiving amount
getNextCooldownTimestamp(fromCooldown, amount, to, toBalance) ==
  IF stakersCooldowns[to] = 0 \/ Expired(stakersCooldowns[to]) THEN 0
  ELSE IF ~TakesAverage(fromCooldown, to) THEN stakersCooldowns[to]
  ELSE (amount * InheritedCooldown(fromCooldown) + toBalance * stakersCooldowns[to])
         \div (amount + toBalance)

\* Moving an amount of a token: in the code a sub, then an add to what the sub
\* left, so an account that sends to itself keeps its balance.
Move(token, from, to, amount) ==
  LET less == [token EXCEPT ![from] = @ - amount]
  IN  [less EXCEPT ![to] = @ + amount]

\* Variant: updateStorage is false, the accrued rewards are dropped.
UpdateRewardsUnsaved(us) ==
  /\ CanAccrue(asset, us, balances, totalSupply, now)
  /\ asset' = updateUsers(asset, us, balances, totalSupply, now)
  /\ UNCHANGED stakerRewardsToClaim

\* _updateCurrentUnclaimedRewards(u, balanceOf(u), true) for each user of us;
\* stake inlines the same code.
UpdateRewards(us) ==
  /\ CanAccrue(asset, us, balances, totalSupply, now)
  /\ asset' = updateUsers(asset, us, balances, totalSupply, now)
  /\ stakerRewardsToClaim' =
       [u \in User |->
          IF u \in us
          THEN stakerRewardsToClaim[u] + accruedRewards(asset, u, balances, totalSupply, now)
          ELSE stakerRewardsToClaim[u]]

\* getTotalRewardsBalance
getTotalRewardsBalance(u) ==
  stakerRewardsToClaim[u]
  + getRewards(balances[u], getAssetIndex(asset, totalSupply, now), asset.users[u])

------------------------------------------------------------------------------
(* Actions *)

\* ERC20._mint
Mint(u, amount) ==
  /\ balances' = [balances EXCEPT ![u] = @ + amount]
  /\ totalSupply' = totalSupply + amount

\* Variant: the total keeps the burnt tokens.
BurnWithoutTotal(u, amount) ==
  /\ amount <= balances[u]
  /\ balances' = [balances EXCEPT ![u] = @ - amount]
  /\ totalSupply' = totalSupply

\* ERC20._burn
Burn(u, amount) ==
  /\ amount <= balances[u] /\ amount <= totalSupply
  /\ balances' = [balances EXCEPT ![u] = @ - amount]
  /\ totalSupply' = totalSupply - amount

\* stake(onBehalfOf, amount) called by payer, who pays the REX
stake(payer, onBehalfOf, amount) ==
  /\ amount # 0
  /\ amount <= rex[payer]
  /\ UpdateRewards({onBehalfOf})
  /\ stakersCooldowns' =
       [stakersCooldowns EXCEPT ![onBehalfOf] =
          getNextCooldownTimestamp(0, amount, onBehalfOf, balances[onBehalfOf])]
  /\ Mint(onBehalfOf, amount)
  /\ rex' = Move(rex, payer, StakeContract, amount)
  /\ UNCHANGED now

\* What redeem burns and pays out: at most the balance
amountToRedeem(u, amount) == IF amount > balances[u] THEN balances[u] ELSE amount

\* Variant: the cooldown survives the position.
CooldownKept(u, amount) == stakersCooldowns

\* redeem clears the cooldown when nothing is left.
CooldownsAfterRedeem(u, amount) ==
  IF balances[u] - amount = 0 THEN [stakersCooldowns EXCEPT ![u] = 0] ELSE stakersCooldowns

\* redeem(to, amount) called by u
redeem(u, to, amount) ==
  /\ amount # 0
  /\ InUnstakeWindow(u)
  /\ UpdateRewards({u})
  /\ Burn(u, amountToRedeem(u, amount))
  /\ stakersCooldowns' = CooldownsAfterRedeem(u, amountToRedeem(u, amount))
  /\ amountToRedeem(u, amount) <= rex[StakeContract]
  /\ rex' = Move(rex, StakeContract, to, amountToRedeem(u, amount))
  /\ UNCHANGED now

\* cooldown() called by u; a second call restarts the cooldown
cooldown(u) ==
  /\ balances[u] # 0
  /\ stakersCooldowns' = [stakersCooldowns EXCEPT ![u] = now]
  /\ UNCHANGED <<now, balances, totalSupply, asset, stakerRewardsToClaim, rex>>

\* What _updateCurrentUnclaimedRewards(u, balanceOf(u), false) returns
unclaimedRewards(u) ==
  stakerRewardsToClaim[u] + accruedRewards(asset, u, balances, totalSupply, now)

amountToClaim(u, amount) == IF amount = UINT_MAX THEN unclaimedRewards(u) ELSE amount

\* claimRewards(to, amount) called by u
claimRewards(u, to, amount) ==
  /\ CanAccrue(asset, {u}, balances, totalSupply, now)
  /\ amountToClaim(u, amount) <= unclaimedRewards(u)
  /\ amountToClaim(u, amount) <= rex[RewardsVault]
  /\ asset' = updateUsers(asset, {u}, balances, totalSupply, now)
  /\ stakerRewardsToClaim' =
       [stakerRewardsToClaim EXCEPT ![u] = unclaimedRewards(u) - amountToClaim(u, amount)]
  /\ rex' = Move(rex, RewardsVault, to, amountToClaim(u, amount))
  /\ UNCHANGED <<now, balances, totalSupply, stakersCooldowns>>

\* The cooldowns _transfer leaves: the recipient's moves later or is void, the
\* sender's is cleared when he sends all he has.
CooldownsAfterTransfer(from, to, amount) ==
  IF from = to THEN stakersCooldowns
  ELSE [stakersCooldowns EXCEPT
          ![to] = getNextCooldownTimestamp(stakersCooldowns[from], amount, to, balances[to]),
          ![from] = IF balances[from] = amount THEN 0 ELSE @]

\* _transfer of stkREX; a zero average divisor makes SafeMath's div revert.
transfer(from, to, amount) ==
  /\ UpdateRewards({from, to})
  /\ from # to /\ TakesAverage(stakersCooldowns[from], to) => amount + balances[to] # 0
  /\ stakersCooldowns' = CooldownsAfterTransfer(from, to, amount)
  /\ amount <= balances[from]
  /\ balances' = Move(balances, from, to, amount)
  /\ UNCHANGED <<now, totalSupply, rex>>

\* configureAssets by EMISSION_MANAGER, for address(this).  The index moves
\* with the total the manager passes, which nothing compares to totalSupply().
configureAssets(emissionPerSecond, totalStaked) ==
  /\ asset' = [updateAssetState(asset, totalStaked, now)
                 EXCEPT !.emissionPerSecond = emissionPerSecond]
  /\ UNCHANGED <<now, balances, totalSupply, stakerRewardsToClaim, stakersCooldowns, rex>>

\* Time passes between blocks.
tick ==
  /\ now < MaxTime
  /\ now' = now + 1
  /\ UNCHANGED <<balances, totalSupply, asset, stakerRewardsToClaim, stakersCooldowns, rex>>

\* The contract behind its proxy right after initialize
Init ==
  /\ now = StartTime
  /\ balances = [u \in User |-> 0]
  /\ totalSupply = 0
  /\ asset = NoAssetData(User)
  /\ stakerRewardsToClaim = [u \in User |-> 0]
  /\ stakersCooldowns = [u \in User |-> 0]
  /\ rex = InitialREX

Next ==
  \/ \E payer, onBehalfOf \in User, amount \in Amounts : stake(payer, onBehalfOf, amount)
  \/ \E u \in User, to \in Recipients, amount \in Amounts : redeem(u, to, amount)
  \/ \E u \in User : cooldown(u)
  \/ \E u \in User, to \in Recipients, amount \in Amounts \cup {UINT_MAX} :
       claimRewards(u, to, amount)
  \/ \E from, to \in User, amount \in Amounts : transfer(from, to, amount)
  \/ \E e \in Emissions, total \in TotalStakedInputs \cup {totalSupply} :
       configureAssets(e, total)
  \/ tick

Spec == Init /\ [][Next]_vars
==============================================================================
