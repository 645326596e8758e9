\* Cooldowns alone: no emission, two users, all times from start to expiry.
SPECIFICATION HSpec
CONSTANTS
  User = {u1, u2}
  StakeContract = stk
  RewardsVault = vault
  UNIT = 1
  DISTRIBUTION_END = 0
  COOLDOWN_SECONDS = 2
  UNSTAKE_WINDOW = 2
  UINT_MAX = 99
  StartTime = 5
  MaxTime = 10
  Funded = {u1, u2}
  PocketMoney = 3
  VaultFunds = 0
  InitialREX <- MCInitialREX
  Recipients = {u1, u2, stk, vault}
  Amounts = {0, 1, 2, 3, 99}
  Emissions = {0}
  TotalStakedInputs = {}
SYMMETRY UserSymmetry
INVARIANTS
  HTypeOK
  CooldownIsOwn
  RedeemNeverBlocked
  TransferNeverBlocked
  Backed
PROPERTIES
  RedeemRespectsCooldown
  CooldownOnlyWorsens
