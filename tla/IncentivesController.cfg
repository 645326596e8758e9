\* Two aTokens, lists that omit one or name one twice, claims that are paid out
\* or staked, for oneself or for the other user, and the staked token's own steps.
\* configureAssets is told the supply, that nothing is staked, or too much.
SPECIFICATION IcSpec
CONSTANTS
  User = {u1, u2}
  StakeContract = stk
  RewardsVault = vault
  Controller = controller
  u1 = u1
  a1 = a1
  a2 = a2
  ATokens = {a1, a2}
  AssetLists <- OneOmittedOrTwice
  EXTRA_PSM_REWARD = 50
  Deposits = {1}
  MaxSupply <- MCMaxSupply
  UNIT = 1
  DISTRIBUTION_END = 4
  COOLDOWN_SECONDS = 0
  UNSTAKE_WINDOW = 1
  UINT_MAX = 99
  StartTime = 3
  MaxTime = 4
  VaultFunds = 3
  InitialREX <- MCInitialREX
  Recipients = {u1}
  Amounts = {1}
  ClaimAmounts = {2}
  StakeChoices = {TRUE, FALSE}
  Emissions = {3}
  TotalStakedInputs = {0, 3}
INVARIANTS
  ControllerTypeOK
  PoolRewardsCovered
PROPERTIES
  ClaimPaidInFull
  PoolRewardsNeverShrink
CHECK_DEADLOCK FALSE
