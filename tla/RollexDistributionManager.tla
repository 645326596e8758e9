---------------------- MODULE RollexDistributionManager ----------------------
(***************************************************************************)
(* The reward accounting of contracts/stake/RollexDistributionManager.sol: *)
(* per asset an emission rate and an index, the rewards emitted so far per *)
(* staked token, scaled by UNIT; per user the index of his last touch.     *)
(* Rewards accrue lazily, when somebody touches the asset or the user.     *)
(*                                                                         *)
(* The contract is abstract: StakedREX and RollexIncentivesController      *)
(* inherit from it.  So this module has no variables, it has the contract's*)
(* functions as operators on an asset record; the modules of the two       *)
(* contracts hold the records and use the operators in their actions.      *)
(*                                                                         *)
(* block.timestamp is the parameter t.  Numbers are unbounded: emission *  *)
(* seconds * 10^18 overflows uint256 only beyond any token supply.         *)
(***************************************************************************)
EXTENDS Integers

CONSTANTS UNIT,              \* 10 ** PRECISION
          DISTRIBUTION_END   \* nothing is emitted from this time on

ASSUME UnitAssumption == UNIT \in Nat \ {0}
ASSUME EndAssumption  == DISTRIBUTION_END \in Nat

\* struct AssetData, with the users' indexes in the field users
AssetData(Users) ==
  [emissionPerSecond: Nat, lastUpdateTimestamp: Nat, index: Nat, users: [Users -> Nat]]

\* A mapping entry nobody has written: all zero.
NoAssetData(Users) ==
  [emissionPerSecond |-> 0, lastUpdateTimestamp |-> 0, index |-> 0,
   users |-> [u \in Users |-> 0]]

------------------------------------------------------------------------------
\* The part of the distribution period that lies before t.
UpToEnd(t) == IF t > DISTRIBUTION_END THEN DISTRIBUTION_END ELSE t

\* Variant: the end of the distribution is tested but does not cap the delta.
getAssetIndexUncapped(a, totalBalance, t) ==
  IF \/ a.emissionPerSecond = 0
     \/ totalBalance = 0
     \/ a.lastUpdateTimestamp = t
     \/ a.lastUpdateTimestamp >= DISTRIBUTION_END
  THEN a.index
  ELSE a.index + (a.emissionPerSecond * (t - a.lastUpdateTimestamp) * UNIT) \div totalBalance

\* Variant: the sum with the current index is forgotten.
getAssetIndexFromZero(a, totalBalance, t) ==
  IF \/ a.emissionPerSecond = 0
     \/ totalBalance = 0
     \/ a.lastUpdateTimestamp = t
     \/ a.lastUpdateTimestamp >= DISTRIBUTION_END
  THEN a.index
  ELSE (a.emissionPerSecond * (UpToEnd(t) - a.lastUpdateTimestamp) * UNIT) \div totalBalance

\* _getAssetIndex
getAssetIndex(a, totalBalance, t) ==
  IF \/ a.emissionPerSecond = 0
     \/ totalBalance = 0
     \/ a.lastUpdateTimestamp = t
     \/ a.lastUpdateTimestamp >= DISTRIBUTION_END
  THEN a.index
  ELSE a.index
       + (a.emissionPerSecond * (UpToEnd(t) - a.lastUpdateTimestamp) * UNIT) \div totalBalance

\* _getRewards; the caller has checked reserveIndex >= userIndex (SafeMath sub)
getRewards(principalUserBalance, reserveIndex, userIndex) ==
  (principalUserBalance * (reserveIndex - userIndex)) \div UNIT

------------------------------------------------------------------------------
\* Variant: the new index is stored, the time it is the index of is not.
updateAssetStateStale(a, totalStaked, t) ==
  [a EXCEPT !.index = getAssetIndex(a, totalStaked, t)]

\* _updateAssetStateInternal: at most one accrual per timestamp
updateAssetState(a, totalStaked, t) ==
  IF t = a.lastUpdateTimestamp
  THEN a
  ELSE [a EXCEPT !.index = getAssetIndex(a, totalStaked, t),
                 !.lastUpdateTimestamp = t]

\* Variant: the user's index is written only when he had something staked.
updateUsersIfStaked(a, us, staked, totalStaked, t) ==
  LET b == updateAssetState(a, totalStaked, t)
  IN  [b EXCEPT !.users =
         [u \in DOMAIN b.users |-> IF u \in us /\ staked[u] # 0 THEN b.index ELSE b.users[u]]]

\* The storage _updateUserAssetInternal leaves when it is called, in one
\* transaction, for each of the users us: the first call moves the asset to t,
\* the later ones return early with the same index (lastUpdateTimestamp = t).
updateUsers(a, us, staked, totalStaked, t) ==
  LET b == updateAssetState(a, totalStaked, t)
  IN  [b EXCEPT !.users = [u \in DOMAIN b.users |-> IF u \in us THEN b.index ELSE b.users[u]]]

\* The accrued rewards _updateUserAssetInternal returns for user u.  When the
\* two indexes agree or nothing is staked the product is 0, as in the code.
accruedRewards(a, u, staked, totalStaked, t) ==
  getRewards(staked[u], updateAssetState(a, totalStaked, t).index, a.users[u])

\* SafeMath's sub in _getRewards, the one revert of _updateUserAssetInternal;
\* the code computes it only for a user who has something staked.
CanAccrue(a, us, staked, totalStaked, t) ==
  \A u \in us :
    staked[u] # 0 => a.users[u] <= updateAssetState(a, totalStaked, t).index

==============================================================================
