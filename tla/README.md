# Formal models of rex-stake

TLA+ models of the staking contracts in `src/contracts` and of the hardhat
scripts in `src/tasks`, `src/helpers` and `src/test` that deploy, propose,
verify and sign, TLC configurations that check them on small instances, and
TLAPS proofs of the properties that matter most for every instance. Paths are
relative to `src`, contracts to `src/contracts`; `README.md:n` is the
repository's own README.

## 1. Inventory

**On the chain** the system is a set of Solidity contracts behind proxies. A
transaction is atomic: it runs to its end or reverts and changes nothing. What
interleaves is the transactions of different accounts and the passing of time
between blocks.

| Component | State | Operations |
|---|---|---|
| `stake/RollexDistributionManager.sol` | per asset: emission rate, last update, index, index of each user | configureAssets; updates called by the inheriting contract |
| `stake/StakedREX.sol` (V1) | stkREX balances and supply, rewards to claim, cooldowns, the REX it holds | stake, redeem, cooldown, claimRewards, transfer, previewRedeem |
| `stake/StakedREXV3.sol` | V1's, and delegates, two snapshot histories, nonces | V1's, and delegate(ByType)(BySig), permit |
| `stake/RollexIncentivesController.sol` | V1-like indexes for several assets, unclaimed rewards | handleAction (called by aTokens), claimRewards, optionally restaking into the safety module |
| `lib/ERC20.sol` | balances, supply, allowances | transfer, approve, transferFrom, in/decreaseAllowance |
| `lib/ERC20WithSnapshot.sol`, `GovernancePowerDelegationERC20` (in src only inside `proposals/.../StakedTokenV2Rev3.sol`:1077) | per account a list of (block, value) | the transfer hook, delegation, power now and at a block |
| `lib/*Proxy*.sol`, `utils/VersionedInitializable.sol` | implementation, admin, last initialised revision | initialize, upgradeTo(AndCall), changeAdmin |
| `proposals/.../StakedTokenV2Rev3.sol`, `StakedTokenBptV2Rev2.sol` | as V3 | as V3; initialize rewinds `lastUpdateTimestamp`; stakeWithPermit |
| `misc/RollexStakingHelper.sol` | none | permit + transferFrom + stake |
| `misc/StakedTokenDataProvider.sol`, `StakeUIHelper.sol` | none | views |

**Off the chain** it is a set of TypeScript scripts. A script is one process
that awaits one thing after another; what interleaves with it is the mining of
its transactions, the block explorer and, at any await, its own end.

| Component | State | Operations |
|---|---|---|
| `tasks/**` (hardhat tasks) | none of their own | deploy, initialize, propose; they run one another |
| `helpers/contracts-accessors.ts`, `contracts-helpers.ts` | `deployed-contracts.json`: network, name -> address | deploy and register, look up, wait |
| `helpers/etherscan-verification.ts` | a parameter file, a counter of attempts | verifyContract with retries |
| `helpers/defender-utils.ts` | none | the signer that replaces the first account |
| typed data in `helpers/contracts-helpers.ts` | none | permit, delegateByType, delegate: build, sign |
| `test/__setup.spec.ts`, `test/helpers/*` | testEnv, the snapshot id | deploy the environment, a snapshot per suite |
| `helpers/misc-utils.ts` | DRE | advanceBlock(To), increaseTime, snapshots |
| `test-fork/*` | none | one scripted proposal on a fork of the main net |

Interactions. The stake contract is a client of the REX token (`transferFrom`
on stake, `transfer` on redeem, `transferFrom` the vault on claim). Its own
token's `_transfer` / `_mint` / `_burn` call the snapshot hook, and the hook a
governance contract if one is set. The distribution manager is a base contract:
its internal functions run inside the caller's transaction and are handed
balances and totals, which must be those from *before* the change that causes
the call. The incentives controller gets the same numbers from aTokens and is
itself a staker on others' behalf. A proposal of the governance makes its
executor, the admin of the proxies, upgrade both staked tokens in one
transaction. The scripts meet only in `deployed-contracts.json` and on the
chain: an entry is keyed by a contract's name, written without looking and
never checked.

What is hard here:

* **Lazy accrual.** Rewards are computed when somebody touches an account. Any
  order of stakes, transfers, redeems, claims, rate changes, before and after
  the end of the distribution, must grant what an eager computation would, up
  to rounding, and never more than was emitted.
* **The cooldown** moves with tokens: receiving stkREX mixes two times into an
  average. No sequence of movements may shorten anybody's wait.
* **Boundaries**: strict and non-strict comparisons of seconds, three divisions,
  the end of the distribution, "everything" given as `type(uint256).max`.
* **Power snapshots** are lazy too (an account without one has its balance),
  overwritten within a block and created by an upgrade of a live contract.
* **Signed calls** share a nonce; **initializers** run once per revision, and
  one of them rewinds the time of the last accrual.
* **Claims over lists**: a list of aTokens may be incomplete or repeat one; its
  rewards may be staked in the same call.
* **Stopped scripts**: transactions that were sent and not awaited, a file that
  has an address and a chain that has none (or an old one), retries of what may
  have been done already, exceptions swallowed in one place and not in the next.

What makes each component correct:

* distribution: indexes only grow, users' indexes follow; everything granted was
  emitted; nothing after the end; nobody's claim is reduced by somebody else.
* staking: withdrawal only after one's own cooldown on one's present position;
  in the window never blocked; every stkREX backed by a REX.
* governance power: a user's power is the stake of those who delegate to him; the
  power at a past block is what it was at the end of that block, for good.
* incentives: accrual per asset as above, claims never above what was accrued.
* permit and signatures: a signed message takes effect at most once.
* proxies: every revision's initializer once, in order; an extension of the
  distribution grants every second once, to both tokens or to neither.
* scripts: one that ends well leaves live contracts under the names its users
  look up; no proposal names a contract still pending; every script ends.
* tests: every suite starts from the same chain.

## 2. Plan

1. `RollexDistributionManager`, `StakedREX`, `StakedREXHistory` - the core. *Done.*
2. `PowerSnapshots`, `GovernancePower` - snapshots and delegation, V1's and
   V3's, with the upgrade between them; abstract specification `PowerHistory`
   (power as a function of block and user) and the refinement. *Done.*
3. `SignedMessages` - permit and the signed delegations with the nonce they
   share, delivered in any way; abstract specification `SignedOrders`. *Done.*
   What they act on is 1's and 2's and is not repeated.
4. `IncentivesController` - several assets, the aTokens, the claim that stakes,
   composed with 1. *Done.*
5. `ExtensionProposal` - proxies, revisions, initializers, the rewound last
   update, the proposal. *Done.*
6. `EtherscanVerification`, `DeploymentTasks`, `Deployment` - the scripts, stopped
   at any await. *Done.*
7. `TestChain` - snapshots and blocks under the test suites. *Done.*
8. `RewardPool` - an abstract specification of the rewards (eager accrual per user
   and second) that 1 and 4 implement up to rounding. *Left*: the invariants
   `EmissionCoversRewards`, `RewardsNeverShrink` and `NothingAccruesAfterEnd` say
   most of it.
9. stakeWithPermit and the staking helper: 3 composed with 1. *Left.*

Theorems: for 1 to 7 those of section 5, with `SumTheorems`, the lemmas about sums
that 1, 2 and 4 rest on, and an abstract token, `StakeLedger`, which 1 and 2 both
implement. Every invariant and every action property of the runs is proved except the two
stated with `ENABLED`; of those the guards are, and of the two liveness properties the
measures.

## 3. The modules

`RollexDistributionManager.tla` holds the contract's functions as operators on
an asset record (the contract is abstract and its functions run inside other
contracts' transactions). `updateUsers` is `_updateUserAssetInternal` called
for a *set* of users in one transaction, which is how `_transfer` uses it: the
second call finds `lastUpdateTimestamp = now` and returns the same index, and
both calls are given the balances from before.

`StakedREX.tla` is the state machine. One variable per storage variable
(`balances`, `totalSupply`, `asset` for `assets[address(this)]`,
`stakerRewardsToClaim`, `stakersCooldowns`), the REX token's balances `rex` and
the clock `now`. One action per external function that changes state; `stake`
has payer and beneficiary apart, `redeem` and `claimRewards` pay any account of
`Recipients`. A revert is a disabled action: every `require`, every SafeMath
`sub` and `div` that the state could make fail and REX's balance check is a
conjunct. `Init` is the contract after `initialize`: nothing staked, no
emission configured.

`StakedREXHistory.tla` adds what the contract does not store: `activated` (the
owner's last `cooldown()` on his present position), `emitted`, `paid`. It
restricts no step. Its properties:

| Property | Says |
|---|---|
| `CooldownIsOwn` | a running cooldown was asked for by its owner on his present position, lies between that call and now |
| `RedeemRespectsCooldown` | README.md:67: stake leaves only for a staker whose own call is over COOLDOWN_SECONDS old |
| `CooldownOnlyWorsens` | README.md:67: movements of funds only delay or clear a cooldown; a missed window stays missed; a valid one is cleared only with the position |
| `RedeemNeverBlocked` | in each second of the window the whole balance can be redeemed (`ENABLED`) |
| `TransferNeverBlocked` | every amount up to the balance, 0 included, can be transferred (`ENABLED`) |
| `Backed` | supply is the sum of the balances, the contract's REX covers it |
| `IndexesInOrder` | users' indexes never pass the asset's: `_getRewards` cannot revert |
| `EmissionCoversRewards` | paid + credited + accruing rewards never exceed what was emitted |
| `RewardsNeverShrink` | `getTotalRewardsBalance` falls only by the user's own claim, by exactly what it pays (or by a `configureAssets` told a wrong total) |
| `NothingAccruesAfterEnd` | from DISTRIBUTION_END on no total grows |

`MCStakedREX.tla` gives TLC the initial REX and the symmetry set.
`StakedREX_proofs.tla` holds the proofs.

`PowerSnapshots.tla` holds what the code does to one mapping of snapshot lists:
`writeSnapshot`, `moveDelegates` (`_moveDelegatesByType`, which updates a power by
a difference, from the last snapshot or, without any, from the balance) and the
binary search; and, to compare, `RecordedValue`, what a list says of a block.

`GovernancePower.tla` is the life of one kind of power: block number, balances,
delegates and lists, first under the hook of `ERC20WithSnapshot.sol`, after
`upgrade` under that of `StakedREXV3.sol`. One action per change of a balance
(the rest of stake, redeem and transfer is in `StakedREX`), `delegateByType`,
`upgrade` and `mine`. `KeepsLegacySnapshots` says which power it is: the voting
power takes over the first implementation's lists with the storage slot, the
proposition power starts with empty ones. The two kinds share only the
balances, so one instance each covers both.

| Property | Says |
|---|---|
| `PowerIsDelegatedStake` | power is the stake of those an account represents, itself included unless it delegated; so the hook's `sub` cannot revert on a movement the balance allows |
| `SnapshotsOrdered` | one snapshot per block, in order, none in the future |
| `SearchFindsLast` | the bisection returns what the list records |
| `RecordedPowerFixed` | no write changes what a list records for a block that is over |
| `ImplementsPowerHistory` | voting power refines `PowerHistory.tla`: a table by block and account of which only the present column changes, by a gain, a loss or a passing on |

The refinement maps the table to `getPowerAtBlock` of each block and account.
`GovernancePower_proofs.tla` holds the proofs, also those about `PowerSnapshots`.

`StakeLedger.tla` is the token `StakedREX` and `GovernancePower` are both about: an
amount appears, disappears or passes on. It has no run of its own; that both implement
it is proved (section 5), and is what joins the two.

`SignedMessages.tla` has the signatures that exist (`signed`), and per contract
the nonces, allowances, delegates and a history of executed messages. The
builders of `contracts-helpers.ts` make the typed data, whose domain is a
contract; a user signs what concerns himself. `Deliver` is a call of `permit`,
`delegateByTypeBySig` or `delegateBySig` by anybody with *any* signature and *any*
arguments: `ecrecover`, external, returns the signer for the data he signed and an
account of nobody otherwise, which may "delegate" its empty self, as in the code.
As in the code a permit is hashed with the owner's current nonce, a delegation
with the argument, which is compared. `SignedOrders.tla` promises what remains
when nonces kept, signatures recovered and deliveries are forgotten: time passes, orders
are signed, and a user's rights at a contract (what he allows spenders, whom he
delegates to) change by an own call or by his next order, executed before it expires and with
exactly the effect it was signed for.

| Property | Says |
|---|---|
| `ExecutedInOrder` | a user's executed messages have the nonces 0, 1, 2, ... and he signed each for this contract |
| `OnlyAuthorised` | his nonce, allowances and delegates change by his own call, or exactly as a message says that he signed for this contract with the current nonce and that has not expired |
| `ImplementsSignedOrders` | refinement of `SignedOrders`: rights are what own calls and executed orders, each in its turn and before its expiry, made them |

`IncentivesController.tla` extends `StakedREX`: an aToken's record in the
controller is one of `RollexDistributionManager`, the aTokens' balances are
external and change together with their call of `handleAction`, with the values
from before, as Aave's aTokens do. `claimRewards` is one step: the loop over the
list is a function of the turns, each of which sees what earlier ones stored, then the cap, the
unclaimed rest, and the payment: a transfer from the vault, or `PSM.stake` with the
extra (`StakeFromVault`). `granted` and `claimed` are history. `configureAToken` takes the
total from its caller, as `configureAssets` does, and nothing compares it to the
supply: the controller's tests pass totals other than the supply
(`test/PegasysIncentivesController/claim-rewards.spec.ts:90-96`,
`configure-assets.spec.ts:22-34` beside it). Told 0, or too much,
it forfeits what accrued since the last update, or part of it.

| Property | Says |
|---|---|
| `PoolRewardsCovered` | claimed + unclaimed + accruing never exceed what the emissions granted, unless `configureAssets` is told a total below the supply and not 0 (`PoolNeverUnderstated`) |
| `PoolRewardsNeverShrink` | what a user is shown falls only by a claim, and by what was claimed (or by a `configureAssets` told a total other than the supply) |
| `ClaimPaidInFull` | the vault pays exactly the claim, or the claim with the extra, which all becomes backed stkREX; nothing stays with the controller |

`ExtensionProposal.tla` keeps of each staked token its proxy, the time of the last
accrual and, as history, how often each *second* was rewarded. `Accrue` is
`_updateAssetStateInternal` in whatever call a staker makes; the extension's
`initialize` sets stkREX's last update to the end of the old distribution and
leaves stkBPT's. The governance is external: a created proposal is queued or
over, a queued one may be executed at any time, by the proxies' admin. Besides the
extension it can call `upgradeTo` and `changeAdmin`, anybody can call `initialize`,
and a deployment may have failed unnoticed.

| Property | Says |
|---|---|
| `SecondsPaidOnce` | the rewards of no second are granted twice, whatever accrued in the gap and however often it is proposed |
| `GapIsPaid` | nor is one lost: after the extension all of the gap is paid, and what precedes the old end if it was settled |
| `BlockedUntilOldEnd` | executed early, the extension blocks stkREX (the subtraction of times reverts), and not beyond the old end |
| `ExtendedTogether` | both tokens are extended and initialized, or neither |
| `RevisionsInOrder` | a proxy's initializers run once, in order |

Three of them hold as long as no proposal was executed that calls `upgradeTo`
without the initializer (`NeverBareUpgrade`): between it and the first `initialize`
accruals use the new end with the old last update. The repository's proposal
calls `upgradeToAndCall`; the assumption is what it relies on.

`EtherscanVerification.tla` is `verifyContract`: the wait, four attempts, the
errors that end it, the parameter file. The explorer may answer anything its
state allows, and an answer may be lost. As in the code the early returns of the
catch clause (`etherscan-verification.ts:91`) leave the parameter file behind, also when the
"error" says that the source is verified already; no property forbids it. `DeploymentTasks.tla` writes each hardhat
task, and each function it calls, as the sequence of what it awaits.
`Deployment.tla` runs them: a process with its flags and environment, chains on
which a transaction is pending, mined or reverted, in the order of its sender's
nonces, and the file. `Crash` stops the process at any await; what it sent is
mined all the same. The chain "hardhat" lives and dies with its process, the
entries it left in the file do not.

| Property | Says |
|---|---|
| `FinishedMeansLive` | a deployment that ends well, also after crashed ones, leaves a mined contract of the right kind under each name: the proxy under the one the implementation had first |
| `ProposalOnlyAfterImplementation` | no proposal names an implementation still pending, although nobody waits: both come from one account. One whose deployment was reverted it may name: nobody looks, in the code as in the model |
| `SetupComplete` | after the test setup testEnv has the two proxies at revisions 1 and 2 and the controller's, approved by the vault |
| `ExhaustedOnlyUnnoticed` | "Errors after all the retries" for a published contract only if every answer since was lost; by then all sources were tried and the file removed |
| `ProcessEnds` | liveness: every started task ends |

`TestChain.tla` is a suite's snapshot and revert (a used id answers only false) and
`advanceBlockTo` over `advanceBlock`, which mines again while the node's block
number has not moved. Each of their reads of the number is a request, and a step, of its
own: `currentBlock`, the loop's `latestBlock()`, `priorBlock`, `nextBlock`. The node may be late to tell of a
block (`late`) and catches up between any two steps, with some or all blocks, or never (`Tell`).
The code has no limit: with a node that is behind at every `nextBlock` and has caught up at every
`priorBlock`, `advanceBlock` calls itself and mines for ever. That the node is late with at
most `MaxLate` blocks in a suite is therefore an assumption about it, and
what its late answers cost is a property.

| Property | Says |
|---|---|
| `SuitesStartFresh` | each suite starts on the chain the setup left |
| `AdvanceIsShort` | advancing goes past its target by at most one block for each block from the target on that the node was late to tell of |
| `AdvanceEnds` | liveness: it ends, with at most `MaxLate` late blocks |

The MC modules give TLC its instances; every `_proofs` module holds the proofs
about the module it is named after (`Deployment_proofs` also about the two it is
composed of), `SumTheorems` the lemmas about sums they share.

Operators whose comment begins with "Variant" are plausible errors of the code
(a forgotten sum, a strict comparison, a step in the wrong order); no
specification uses them. `PROJECT.json` pairs each with the property it must break.

## 4. The runs

| Run | Question | Bounds |
|---|---|---|
| `cooldown` | The cooldown in every order of calls | two users, 3 REX each, periods of 2 s, 5 s beyond the start; emission 0, so that rewards add no states |
| `rewards` | Lazy accrual, rates 0 and 5, end at second 2 of 3; `configureAssets` told the true total, or 0 as the tests of the repository do | two users, 2 REX, UNIT 3 so that index and rewards both round; cooldown 0 so that redeems are frequent |
| `power_history` | Who represents whom around the upgrade; the past; the bisection; the refinement | two users, 2 stkREX, 4 blocks |
| `power_proposition` | Power counted from balances until the first snapshot | three users (delegator, old and new delegatee), 2 stkREX, 2 blocks |
| `controller` | Controller, aTokens and staked token together | two users, two aTokens of supply 2 and 1, lists that omit one or name one twice, 1 REX to stake, a vault of 3 (payments can fail), one rate, one second; `configureAssets` told the supply, 0 or 3, which is more than either |
| `signed` | Any delivery of signed messages | one user, two contracts, five messages of all kinds: nonces that collide, leave a gap, expire, name the other contract; the refinement's time, order of execution and effects |
| `extension` | The proposal between accruals | old end 2, new duration 2, times 0 to 5, two further implementations, two proposals of any kind |
| `deployment` | Every task, stopped anywhere, then the deployment of the staked token on what is left | one task with any flags and environment, then `deploy-StakedREXV3`; 14 contracts, what the test setup deploys |
| `test_chain` | Suites and advancing | three suites (a snapshot is used once, so the second must not need the first's), 4 blocks, advance by 3, two late blocks per suite |
| `doc_redeem`, `doc_power`, `doc_init` | sentences of the documentation the code departs from (section 7) | as `cooldown`; as `power_history` with the upgrade in the first block, so that no past block ended under the old implementation; one task of any name |

Two users suffice for what an operation can relate: it touches at most a sender
and a recipient, and the effect of everybody else is in the total, which the
second user varies. The clock runs from a value above COOLDOWN_SECONDS +
UNSTAKE_WINDOW, as UNIX time does (`TimeAssumption`); a smaller one would make
the code's `sub` revert and 0 a valid cooldown. In `cooldown` a cooldown can
start, be averaged, open, close and be touched after it closed. In `rewards`
`RewardsNeverShrink` excepts the steps that call `configureAssets` with a total
other than the present one: told 0, it forfeits what accrued since the last
update, which is what the tests of the repository do. `PoolRewardsNeverShrink` excepts the same
steps of the controller, and needs to: without the exception the run `controller` violates it. The pool can be empty, hold
one or both users, at either rate, on both sides of the end. `UINT_MAX` is a number larger than any amount of the run.

In the `power` runs a step touches at most two lists, and three accounts are
what one delegation can concern. With 2 stkREX a power can be split, part
delegated and part one's own. Four blocks give a past that was written before
the upgrade, one written after it and a present, and the bisection, over lists
of up to four snapshots, rounds with both parities.

`controller` needs the second turn of a repeated aToken to see time that has
passed once, a second staker to take rewards from, and a payment that exceeds the
vault. `extension` has times before, at and after both ends, and enough
implementations for one to be missing. A second process on the leavings of a first
is enough for `deployment`: what processes share is the file, the explorer and
the chain, and the second one starts from every state the first can leave; the
sizes of the scripts bound the contracts.

Most models may stop: nobody has to call, and their bounds end them. Their
configurations say `CHECK_DEADLOCK FALSE`.

**Fairness.** The contracts have none to rely on: nobody is obliged to call
them, so what "must be possible" is stated as `ENABLED` (`RedeemNeverBlocked`,
`TransferNeverBlocked`). Scripts have a scheduler, node's event loop, which
resumes an await whose promise has settled. `Deployment` assumes WF of
`ProcessStep`, one disjunction for the whole process: the provider answers, and a
verification attempt ends with a result or an error. And WF of `MineNext`: sent
transactions are mined, in time; without it `wait()` has no limit and `ProcessEnds`
fails. There is none for `Start` or `Crash`. `TestChain` assumes WF of `Advance`: the node
answers every request. There is none for `Tell`: it need never catch up. That `advanceBlock`
comes back needs `MaxLate`, for nothing in the code bounds its recursion; two late
blocks are enough for the recursion to go past its target twice, the node being behind at each
`nextBlock` and catching up before the `priorBlock` that follows.

## 5. The proofs

The models sum balances over sets of users with the community module `Functions`,
whose sums are defined by a recursion that takes an arbitrary element away in each
step. `SumTheorems.tla` proves of them what the other modules need: that the
recursion has a value, that the order does not matter, what a change of one
summand or of the set does. An induction over a finite set is written as the
smallest set without the property (`SmallestSet`, from the well-foundedness of
strict inclusion), since no induction theorem can be instantiated. For these
sums the sets of accounts and of aTokens are assumed finite
(`FiniteUsersAssumption`, `ControllerAssumption`), as they are on a chain.

`StakedREX_proofs.tla`, for every finite set of users, and all periods, rates, amounts
and bounds that satisfy the ASSUMEs of the modules (natural numbers, a clock later
than the two periods, distinct accounts):

* `TypeCorrect`, `IndexesStayInOrder`, `CooldownStaysOwn`, `EveryTokenBacked` - invariants;
* `WithdrawalRespectsCooldown`, `MovementsOnlyWorsenCooldown`, `ShownRewardsNeverShrink` -
  action properties;
* `EmissionCovers` and `EndOfDistribution` - the emission covers what is paid and
  shown, and nothing accrues after the end, for behaviours that satisfy
  `NeverUnderstated`.

The first rest on one inductive invariant, `IInv == HTypeOK /\ IndexesInOrder /\
CooldownIsOwn`. The types alone are not inductive: rewards stay natural only
because users' indexes stay behind the asset's, which needs an index that does
not go back, which needs the last update not to lie in the future. The cooldown
needs all three conjuncts of `CooldownIsOwn`: the average of `getNextCooldownTimestamp`
is at least the recipient's own time only when the inherited time is, and at
most now only when the sender's is (`AverageBetween`, `NextCooldownLater`); and
the divisor is positive because no cooldown outlives its position. One lemma
per action follows, then the temporal step. `Backed` is inductive with it, by what
a transfer, a stake and a redemption do to a sum.

`EmissionCoversRewards` is *not* inductive. It speaks of the index of the present,
which is rounded down: from one second to the next it may stand still and then
move by more than a second's emission. The strengthening `RewardsAccounted` speaks
of the *stored* index and counts the whole emission since the last update as
untouched; an update then spends at most that (the two divisions lose, they never
gain), and the property follows because the present index is what an update
would store. `NeverUnderstated` says that `configureAssets` is not told a total
below the present one, except 0. The code takes the total from its caller and
divides by it: a smaller one would grant the same emission to more tokens than
there are. The tests tell it 0, which forfeits, and that is allowed.
`ShownRewardsNeverShrink` needs no such condition, since it excepts the steps with a
wrong total.

`RedeemNeverBlocked` and `TransferNeverBlocked` are about `ENABLED`. What makes them true
is proved without it: `redeem` and `transfer` are each split into the checks on the
state and one value for every variable (`RedeemSplits`, `TransferSplits`), and
`RedeemChecksPass` and `TransferChecksPass` say that the checks hold in every reachable
state: in the window there is a position, `Backed` covers what is withdrawn, indexes are in
order, so that accruing cannot revert, and the divisor of the average is positive.

`GovernancePower_proofs.tla`, for every finite set of accounts, any number of blocks
and supply, and for both kinds of power:

* `PowerTypeCorrect`, `SnapshotsStayOrdered`, `PowerStaysDelegatedStake`, `SearchIsRight` -
  invariants;
* `RecordedPowerStaysFixed` - action property;
* `ListsImplementHistory` - the refinement of `PowerHistory`, for the voting power
  (`KeepsLegacySnapshots`), which is the one it is claimed of.

The first invariant is `PowerIInv == TypeOK /\ SnapshotsOrdered`. All writes
go through `writeSnapshot`; `WriteKeepsRecords` shows for one list that it stays
ordered and says the same of earlier blocks. Types are
needed because a power that went negative would not be a value of a snapshot.

`PowerIsDelegatedStake` needs `StakeIInv`: a delegation leaves a list both with the
delegator and with his delegatee (`DelegationsRecorded`), before the upgrade nobody
delegates (`NothingDelegatedYet`), and with the lists of the first implementation
nobody without a list has a stake (`NoListNoStake`). So the balance that stands in
for a missing list is the account's own stake and moves with it. The two hooks
and `delegateByType` are then shown to pass one amount from one account to
another, or to let it appear or disappear (`Passed`), and the sums follow. The same
form is the step of `PowerHistory`, so the refinement needs in addition only that
nothing else in the table changes. The bisection is a recursive function: it is
proved right by the smallest interval for which it would not be.

Three results follow from the invariant:

* `EveryTokenVotesOnce`: the accounts grouped by whom they are represented by are the
  accounts (`SumOfGroups`), so the powers add up to the supply.
* `StakeIsNeverStuck`: the `sub` of `_moveDelegatesByType` has enough to take from. Together
  with `TransferChecksPass`: no state of either contract keeps a holder from moving
  what he has.
* `PowerImplementsLedger`, and in `StakedREX_proofs.tla` `StakeImplementsLedger`: both
  models' balances behave as `StakeLedger`. This is why the two may be apart. One
  contract has both states; the hook sees of staking only movements of the ledger, and
  accepts every one of them (`LedgerStepAccepted`). So what is proved of the power holds under
  every behaviour of the staking, and the hook takes none from it.

`SignedMessages_proofs.tla`, for all users, contracts, messages and times: `TypeCorrect`
and `InOrder` (invariants), `Authority` (`OnlyAuthorised`) and `Refinement` (`Spec =>
ImplementsSignedOrders`; the rights of the abstract specification are the allowances and
delegates each contract holds, and `DeliveryEffect` says of the three calls that they change them
as the order says). `Delivery` says once what the three calls have in common:
some account's current nonce is used, for data it signed. `ExecutedInOrder` is then
inductive with the types: the nonce counts the log, so the message with the
current nonce is the next order of the abstract specification, and an account of
nobody adds none. `MessagesRunOnce` follows: two places in the logs that hold the same
message have its nonce and its contract, and are one place.

`ExtensionProposal_proofs.tla`, for every length of both distributions, bound and
kind of proposal: `RevisionsStayInOrder`, `NeverBlockedForLonger`, `SecondsArePaidOnce`,
`GapIsAlwaysPaid` and `AlwaysExtendedTogether`. The inductive invariant has a part
that always holds (`Base`: types, the old implementations come first, a proposal's
belong to its tokens, the last initialized revision is the last of the history, a
last update ahead of now is the old end) and one under `NeverBareUpgrade`
(`Accounted`): revisions and implementations are in step, so that `initialize` is
disabled; a rewarded second lies before the last update *and before now*, and
before the old end while the old revision is in force - that is why the rewind
pays nothing again; and no second before the last update is missing.

`TestChain_proofs.tla`, for any number of suites, any target and any `MaxLate`, on the network
"hardhat": `EverySuiteStartsFresh` and `AdvanceStaysShort`. The latter needs the invariant
`AlmostThere`: a round is started only when there is room for one more block within the
bound, and if after the `evm_mine` the number has not moved, the block just mined was late
and has made that room; and `NodeInv`: every block the node has yet to tell of is a late one.
`AdvanceMakesProgress`: that bound makes a natural number of what is left, six steps for
each block still to come, the blocks still to be told of and the steps of the
round, and each step lowers it, the node's `Tell` included.

`IncentivesController_proofs.tla`, for every finite set of users and aTokens, all lists,
amounts and rates: `PoolTypeCorrect` and `PoolCovers` (invariants, the
second for behaviours that satisfy `PoolNeverUnderstated`, the controller's `NeverUnderstated`), `PoolShownNeverShrink` and
`ClaimsPaidInFull` (action properties), the last if the vault is not itself a payee
(`RewardsVault \notin Recipients`): a payment to itself changes nothing. The loop of
`claimRewards` is solved explicitly: after it every aToken the list names has been
settled for the user, once, however often it is listed, since the second turn finds
the index the first has stored. The inductive invariant is `IcIInv` (types, users'
indexes behind the assets', in both contracts). `PoolRewardsCovered` is not
inductive for the reason given above; `PoolAccounted` is, with one term for each
aToken. What a user is shown sums over the aTokens in the order `SetToSeq` gives
them; the proof replaces it by the sum over the set, which has no order.

`Deployment_proofs.tla`, for any sequence of processes, any flags and environment
and any number of contracts: `ExhaustedUnnoticed`, `DeploymentTypeCorrect`, `FinishedIsLive`,
`ProposalsAfterImplementations` and `TestSetupCompletes` (invariants), `ProcessMakesProgress`
(action property).

* For the verification the invariant is `AttemptsCounted`: since the source was
  published every attempt has lost its answer, as any other answer would have
  ended the call; and the attempts left count the lost ones.
* For the scripts it is a logic of programs. A *fact* says of a contract instance
  of the process that it is set, is a contract of the chain, of which kind, mined,
  or what the file has under a key. A step *needs* facts (a wait needs a contract to
  wait for), *gives* some and *breaks* some (an assignment those of the variable,
  a registration those of the key, a nested task all). `Fits(script, R, Q, signer)`
  is the triple: run where `R` holds, no step lacks what it needs and `Q` holds at
  the end. It has a rule for sequences (`Sequenced`), and every script of
  `LoadedTasks` is shown to fit, with the entries of `FinishedMeansLive` as its goal
  (`LoadedTasksFit`).
* The inductive invariant, `DeploymentIInv`, says that in every state what the
  process has still to do fits the facts of that state (`ScriptFits`). Other steps
  never destroy a fact: a mined transaction was pending before, so no fact said
  that it was mined. A nested task's script goes before the rest, which by the
  rule may count on nothing. `ImplsOurs` adds that an implementation was given on
  the command line or sent by the signer of this process, who therefore has nothing
  pending when his proposal is mined. A crash at any await leaves the chain and the
  file, about which a new process knows nothing and assumes nothing.
* `TestSetupCompletes` takes a second logic of the same form (`Leads`). The script of the
  test setup reaches one proxy under several names: an instance of the process, an
  entry of the file. A fact says what the contract under a name *is*, *runs* and
  *was approved for*. An upgrade through one name makes void what is known of all others to
  run; an initialization makes nothing void, since it succeeds only on a proxy without logic, of
  which no such fact holds. V1's second deployment overwrites every entry of the first but
  V3's. That the two instances differ follows from their revisions.
* `ProcessMakesProgress` is the measure of `ProcessEnds`: the tasks still to be run,
  the steps, the attempts of the present verification and the pending transactions.
  Every step of a running process, and every transaction mined meanwhile, lowers one of the four
  and keeps those before it. It rests on a fact about all scripts (`LoadedTasksNest`): a
  task runs others only of a kind that runs none.

Only model-checked:

* the liveness properties `ProcessEnds` and `AdvanceEnds`: the prover treats neither
  fairness nor `ENABLED`. `AdvanceEnds` supposes `MaxLate`. Their measures are proved (`ProcessMakesProgress`,
  `AdvanceMakesProgress`); left is that no state lacks a next step and that fairness takes it;
* `RedeemNeverBlocked` and `TransferNeverBlocked`, stated with `ENABLED`; the checks of the
  code they are about are proved to pass;
* the properties of the `doc_` runs, which are false.

## 6. What the models leave out

Contracts:

* Allowances of REX: payers and the vault are assumed to have approved enough.
  Spending an allowance of stkREX (`transferFrom`, `decreaseAllowance`) is `_transfer`
  behind a guard.
* uint256 and uint128 overflow: amounts are bounded by the REX in existence;
  `emissionPerSecond * seconds * 10^18` is far below 2^256.
* Events, names, symbols, decimals; the views of `StakedTokenDataProvider` and
  `StakeUIHelper`; the libraries, whose reverts are guards.
* The governance contract the token hook notifies: external, and trusted by the
  comment at `ERC20WithSnapshot.sol:25`. How the governance votes: external.
* Configurations of assets other than the stake contract in `StakedREX`: none of
  its functions reads them.
* `stakeWithPermit` and `RollexStakingHelper`: a permit of the REX token, whose
  contract is not in the repository, and a stake, one after the other.
* The storage and fallback of the proxies: a model's action is the
  implementation's, on the proxy's state.

Scripts:

* `deploy-bpt.ts` and `deploy-staked-bpt-rev2.ts` are comments from the first line to
  the last. They register no task, and that is how `LoadedTasks` has them.
* Constructor arguments and the getters by network that provide them. Functions
  nothing calls: `linkBytecode`, accessors of unused contracts, and
  `fullCycleLendingPool`, `getReserveConfigs` of `test-fork/helpers.ts`, which drive a
  lending pool the repository does not have.
* The fork test is one schedule of what `ExtensionProposal` leaves open.
* What an aborted run has paid for gas.
* `TestChain` is about the network "hardhat" and not about `deployed-contracts.json`,
  which no revert of the chain restores. A test's own transactions are marks.

## 7. Departures of the code from the documentation

* README.md:74 "If the user redeems AAVE, the cooldown timestamp is set to 0":
  only when nothing is left (`StakedREX.sol:139`). Run `doc_redeem`.
* README.md:76-77 "On transfer ... the cooldown timestamp of the sender remains as
  it is": cleared when he sends everything (`StakedREX.sol:216`). The code is right: a kept cooldown would outlive the
  position (`TransferNeverBlocked` would fail).
* `StakedTokenV2Rev3.sol:1142` (the governance library): getPowerAtBlock "returns
  the delegated power of a user at a certain block". Without a snapshot it
  returns the present balance, and 0 for earlier blocks after the first write
  (1274-1285). After the upgrade this is every staker's proposition power. Run
  `doc_power`.
* `StakedTokenV2Rev3.sol:1160`: totalSupplyAt "returns the total supply at a certain
  block number", as REX is not minted (1162). stkREX is minted and burned all
  the time; the function returns the present supply (1166).
* `tasks/deployments/initialize-StakedPSYS.ts:18` "Initialize the StakedREXV3 proxy
  contract": it looks up `StakedREXImpl` (`helpers/contracts-accessors.ts:293`), a name
  under which nothing is ever stored, so `common-deployment` aborts with the proxy
  deployed and not initialized. Run `doc_init`. (Had it been found, the encoding of
  four arguments for an initialize without parameters would throw next.)
* `tasks/deployments/deploy-StakedPSYSV3.ts:32`: the environment is checked "to prevent
  loss of gas in failed deployments", behind the flag; the implementation is verified
  without it (58, whose comment says "disable verify"), so without a key the task
  throws after the deployment.
* Tasks that run tasks nobody registers: `dev-deployment.ts` runs `deploy-StakedREX`,
  `verify-sc.ts` runs `set-DRE` (its name is `set-dre`), `proposal-stk-extensions.ts` runs
  `deploy-staked-bpt-rev2`, a comment. In the model these end in
  `Abort("unknownTask")`, the last after its first deployment and before a proposal.
