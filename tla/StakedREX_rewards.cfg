\* Rewards: a window always open once asked for, two rates, the end of the
\* distribution inside the run; configureAssets is told the true total, or that
\* nothing is staked, as the tests of the repository do.
SPECIFICATION HSpec
CONSTANTS
  User = {u1, u2}
  StakeContract = stk
  RewardsVault = vault
  UNIT = 3
  DISTRIBUTION_END = 5
  COOLDOWN_SECONDS = 0
  UNSTAKE_WINDOW = 2
  UINT_MAX = 99
  StartTime = 3
  MaxTime = 6
  Funded = {u1}
  PocketMoney = 2
  VaultFunds = 6
  InitialREX <- MCInitialREX
  Recipients = {vault}
  Amounts = {1, 2}
  Emissions = {0, 5}
  TotalStakedInputs = {0}
INVARIANTS
  IndexesInOrder
  EmissionCoversRewards
PROPERTIES
  RewardsNeverShrink
  NothingAccruesAfterEnd
