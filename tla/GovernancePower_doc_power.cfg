\* What the comment of getPowerAtBlock says, for proposition power.
SPECIFICATION UpgradedFirstSpec
CONSTANTS
  User = {u1, u2}
  NoOne = NoOne
  KeepsLegacySnapshots = FALSE
  StartBlock = 1
  MaxBlock = 3
  MaxSupply = 2
SYMMETRY UserSymmetry
CHECK_DEADLOCK FALSE
PROPERTIES
  DocPowerAtBlock
