\* Proposition power: no lists before the upgrade.
SPECIFICATION Spec
CONSTANTS
  User = {u1, u2, u3}
  NoOne = NoOne
  KeepsLegacySnapshots = FALSE
  StartBlock = 1
  MaxBlock = 2
  MaxSupply = 2
SYMMETRY UserSymmetry
CHECK_DEADLOCK FALSE
INVARIANTS
  TypeOK
  PowerIsDelegatedStake
PROPERTIES
  RecordedPowerFixed
