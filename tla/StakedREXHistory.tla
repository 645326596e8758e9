-------------------------- MODULE StakedREXHistory --------------------------
(***************************************************************************)
(* StakedREX with history variables, and the properties that need them.    *)
(* The history records what the contract does not store: when a staker     *)
(* last asked for a cooldown himself, what the distribution has emitted,   *)
(* what it has paid.  It restricts no step: HSpec's behaviours are Spec's. *)
(***************************************************************************)
EXTENDS StakedREX, Functions

VARIABLES activated,   \* time of the user's last cooldown() on his present position, or 0
          emitted,     \* rewards the emission has granted to a non-empty pool
          paid         \* rewards claimed

hvars == <<now, balances, totalSupply, asset, stakerRewardsToClaim, stakersCooldowns, rex,
           activated, emitted, paid>>

HTypeOK ==
  /\ TypeOK
  /\ activated \in [User -> 0 .. MaxTime]
  /\ emitted \in Nat
  /\ paid \in Nat

------------------------------------------------------------------------------
\* The activation of a position ends with the position.
Activations(us) ==
  [u \in User |-> IF balances'[u] = 0 THEN 0 ELSE IF u \in us THEN now ELSE activated[u]]

\* What asset emits from t1 to t2 to stakers, if there are any
Emission(t1, t2) ==
  IF totalSupply = 0 THEN 0 ELSE asset.emissionPerSecond * (UpToEnd(t2) - UpToEnd(t1))

Record(us, payment) ==
  /\ activated' = Activations(us)
  /\ paid' = paid + payment
  /\ emitted' = emitted + Emission(now, now')

HInit == Init /\ activated = [u \in User |-> 0] /\ emitted = 0 /\ paid = 0

HStake == \E payer, onBehalfOf \in User, amount \in Amounts :
            stake(payer, onBehalfOf, amount) /\ Record({}, 0)
HRedeem == \E u \in User, to \in Recipients, amount \in Amounts :
             redeem(u, to, amount) /\ Record({}, 0)
HCooldown == \E u \in User : cooldown(u) /\ Record({u}, 0)
HClaim == \E u \in User, to \in Recipients, amount \in Amounts \cup {UINT_MAX} :
            claimRewards(u, to, amount) /\ Record({}, amountToClaim(u, amount))
HTransfer == \E from, to \in User, amount \in Amounts :
               transfer(from, to, amount) /\ Record({}, 0)
HConfigure == \E e \in Emissions, total \in TotalStakedInputs \cup {totalSupply} :
                configureAssets(e, total) /\ Record({}, 0)
HTick == tick /\ Record({}, 0)

HNext == \/ HStake \/ HRedeem \/ HCooldown \/ HClaim \/ HTransfer \/ HConfigure \/ HTick

HSpec == HInit /\ [][HNext]_hvars

------------------------------------------------------------------------------
(* The cooldown *)

\* A running cooldown was asked for by its owner on the position he still has,
\* and nothing that happened since has moved it to before that call, nor
\* beyond the present: getNextCooldownTimestamp's average stays between the
\* recipient's own time and now, and a cooldown never outlives its position.
CooldownIsOwn ==
  \A u \in User :
    stakersCooldowns[u] # 0 =>
      /\ balances[u] # 0
      /\ activated[u] # 0
      /\ activated[u] <= stakersCooldowns[u]
      /\ stakersCooldowns[u] <= now

\* A step in which stake leaves: by whom, and how long after his own cooldown()
WithdrawalIsDue ==
  totalSupply' < totalSupply =>
    \E u \in User :
      /\ balances'[u] < balances[u]
      /\ activated[u] # 0
      /\ now > activated[u] + COOLDOWN_SECONDS

\* "if a user staking withdraws, he already respected a cooldown period"
\* (README.md:67): stake leaves the contract only for a staker who called
\* cooldown() himself, on this position, more than COOLDOWN_SECONDS ago -
\* whatever he has staked, sent and received in between.
RedeemRespectsCooldown == [][WithdrawalIsDue]_hvars

\* u calls cooldown() in this step.
ActivatesCooldown(u) == stakersCooldowns'[u] = now /\ balances' = balances /\ now' = now

\* Running, its window not over; once over it stays so.
Alive(c) == c # 0 /\ ~Expired(c)

\* What a step that is not u's own cooldown() may do to his cooldown
Worsens(u) ==
  /\ stakersCooldowns'[u] # 0 =>
       stakersCooldowns[u] # 0 /\ stakersCooldowns[u] <= stakersCooldowns'[u]
  /\ ~Alive(stakersCooldowns[u]) => ~(Alive(stakersCooldowns[u]))'
  /\ Alive(stakersCooldowns[u]) /\ balances'[u] # 0 => stakersCooldowns'[u] # 0

\* "movement of funds should only affect negatively the cooldown period"
\* (README.md:67): except by his own call, a staker's cooldown can only move
\* later or be cleared; a missed window never reopens; and it is cleared only
\* when missed or when the position is empty.
CooldownOnlyWorsens == [][\A u \in User : ActivatesCooldown(u) \/ Worsens(u)]_hvars

\* In every one of the UNSTAKE_WINDOW seconds after his cooldown a staker can
\* take everything out: no require, no SafeMath sub of the reward accounting
\* and no lack of REX in the contract stands in the way.
RedeemNeverBlocked ==
  \A u \in User : \A second \in 1 .. UNSTAKE_WINDOW :
    /\ stakersCooldowns[u] # 0
    /\ now = stakersCooldowns[u] + COOLDOWN_SECONDS + second
    => ENABLED redeem(u, u, balances[u])

\* stkREX stays liquid, in or out of a window, for every amount up to the
\* balance, zero included: no cooldown arithmetic of sender or recipient
\* reverts (the average divides by what the recipient then holds).
TransferNeverBlocked ==
  \A from, to \in User : \A amount \in Amounts :
    amount <= balances[from] => ENABLED transfer(from, to, amount)

------------------------------------------------------------------------------
(* The tokens and the rewards *)

\* Each stkREX is somebody's and backed by a REX the contract holds.
Backed ==
  /\ totalSupply = SumFunction(balances)
  /\ rex[StakeContract] >= totalSupply

\* A user's index is one the asset had: _getRewards's sub never reverts, so no
\* call of a staker is ever stuck on the reward accounting.
IndexesInOrder ==
  /\ asset.lastUpdateTimestamp <= now
  /\ \A u \in User : asset.users[u] <= asset.index

\* What is paid, credited and still accruing (scaled by UNIT) was emitted: no
\* order of stakes, transfers, redeems and claims makes the lazy indexes grant
\* a second twice or to tokens that were not there.
EmissionCoversRewards ==
  UNIT * (paid + SumFunction(stakerRewardsToClaim))
  + SumFunction([u \in User |->
      balances[u] * (getAssetIndex(asset, totalSupply, now) - asset.users[u])])
  <= UNIT * emitted

\* configureAssets is told a total other than the true one.
MisinformedConfigure ==
  \E e \in Emissions, total \in TotalStakedInputs \ {totalSupply} : configureAssets(e, total)

\* Nothing a staker is shown is taken from him: his total rewards fall only
\* by his own claim (getTotalRewardsBalance before and after every step), or
\* when the emission manager gives configureAssets a wrong total, as the
\* repository's tests do, and the seconds since the last update are forfeited.
RewardsNeverShrink ==
  [][\A u \in User :
       getTotalRewardsBalance(u)' < getTotalRewardsBalance(u) =>
         \/ MisinformedConfigure
         \/ /\ paid' > paid
            /\ getTotalRewardsBalance(u) - getTotalRewardsBalance(u)' = paid' - paid
            /\ \A v \in User \ {u} : getTotalRewardsBalance(v)' = getTotalRewardsBalance(v)]_hvars

\* From DISTRIBUTION_END on nobody's total rewards grow, however late the
\* last seconds before the end are accounted.
NothingAccruesAfterEnd ==
  [][now >= DISTRIBUTION_END =>
       \A u \in User : getTotalRewardsBalance(u)' <= getTotalRewardsBalance(u)]_hvars

\* The inductive invariant of the proofs: the types bound the averages, the
\* order of the indexes keeps the rewards in Nat.
IInv == HTypeOK /\ IndexesInOrder /\ CooldownIsOwn

\* What the users of a still accrue at the index i, by their balances b (scaled)
Accruing(a, b, i) == SumFunction([u \in User |-> b[u] * (i - a.users[u])])

\* EmissionCoversRewards is not inductive: a tick moves the rounded-down index
\* of the present by more than the second's emission now and then.  What is:
\* at the stored index, the emission since the last update is still untouched.
RewardsAccounted ==
  UNIT * (paid + SumFunction(stakerRewardsToClaim)) + Accruing(asset, balances, asset.index)
  + UNIT * Emission(asset.lastUpdateTimestamp, now)
  <= UNIT * emitted

\* configureAssets is told that less is staked than is, but not nothing.
UnderstatedConfigure ==
  \E e \in Emissions, total \in TotalStakedInputs :
    /\ total # 0 /\ total < totalSupply
    /\ configureAssets(e, total)

\* The emission manager keeps to 0, as the repository's tests do, to
\* totalSupply() or to more than that.
NeverUnderstated == [][~UnderstatedConfigure]_hvars

------------------------------------------------------------------------------
(* What the documentation says and the code does not do *)

\* "If the user redeems AAVE, the cooldown timestamp is set to 0" (README.md:74).
\* redeem clears it only when the balance becomes 0 (StakedREX.sol:139).
DocRedeemClearsCooldown ==
  [][\A u \in User :
       totalSupply' < totalSupply /\ balances'[u] < balances[u] => stakersCooldowns'[u] = 0]_hvars

==============================================================================
