\* Voting power: every list of up to four blocks, with the upgrade at any point
\* among the transfers and delegations.
SPECIFICATION Spec
CONSTANTS
  User = {u1, u2}
  NoOne = NoOne
  KeepsLegacySnapshots = TRUE
  StartBlock = 1
  MaxBlock = 4
  MaxSupply = 2
SYMMETRY UserSymmetry
CHECK_DEADLOCK FALSE
INVARIANTS
  SnapshotsOrdered
  PowerIsDelegatedStake
  SearchFindsLast
PROPERTIES
  ImplementsPowerHistory
