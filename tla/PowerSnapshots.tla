---------------------------- MODULE PowerSnapshots ----------------------------
(***************************************************************************)
(* The snapshot lists of GovernancePowerDelegationERC20, for one kind of   *)
(* power: per account a list of (block number, value), written when the    *)
(* power changes and searched when a proposal asks for the power at its    *)
(* start block.  The library is in src inside                              *)
(* contracts/proposals/extend-stkaave-distribution/StakedTokenV2Rev3.sol;  *)
(* StakedREXV3.sol imports it from a package.  ERC20WithSnapshot.sol, the  *)
(* base of StakedREX.sol, keeps the same lists and writes them with the    *)
(* same code.                                                              *)
(*                                                                         *)
(* Pure operators on the storage mapping `snapshots`.  The mapping         *)
(* snapshotsCounts is the length of the list; lists start at 1 here and at *)
(* 0 in the code.  Values are uint128 in the code: amounts are bounded by  *)
(* the supply of REX, far below.                                           *)
(***************************************************************************)
EXTENDS Integers, Sequences

CONSTANT NoOne          \* address(0)

Snapshot == [blockNumber : Nat, value : Nat]

LastOf(list) == list[Len(list)]

\* Variants: the operations of one block each leave a snapshot; the last
\* snapshot is overwritten whatever its block.
WriteSnapshotAlways(list, block, newValue) ==
  Append(list, [blockNumber |-> block, value |-> newValue])

WriteSnapshotOverLast(list, block, newValue) ==
  IF list # <<>>
  THEN [list EXCEPT ![Len(list)].value = newValue]
  ELSE Append(list, [blockNumber |-> block, value |-> newValue])

\* _writeSnapshot: the second write within a block overwrites the first
writeSnapshot(list, block, newValue) ==
  IF list # <<>> /\ LastOf(list).blockNumber = block
  THEN [list EXCEPT ![Len(list)].value = newValue]
  ELSE Append(list, [blockNumber |-> block, value |-> newValue])

\* Variant: an account without snapshots has no power.
PreviousZero(snapshots, balances, u) ==
  IF snapshots[u] # <<>> THEN LastOf(snapshots[u]).value ELSE 0

\* The power _moveDelegatesByType starts from: that of the last snapshot or,
\* without any, the account's own balance
previous(snapshots, balances, u) ==
  IF snapshots[u] # <<>> THEN LastOf(snapshots[u]).value ELSE balances[u]

\* previous.sub(amount) does not revert
CanMove(snapshots, balances, from, to, amount) ==
  from \notin {to, NoOne} => amount <= previous(snapshots, balances, from)

\* _moveDelegatesByType: amount of power goes from one account to another;
\* NoOne on either side when stkREX is minted or burned
moveDelegates(snapshots, balances, from, to, amount, block) ==
  IF from = to THEN snapshots
  ELSE [u \in DOMAIN snapshots |->
          CASE u = from -> writeSnapshot(snapshots[u], block, previous(snapshots, balances, u) - amount)
            [] u = to   -> writeSnapshot(snapshots[u], block, previous(snapshots, balances, u) + amount)
            [] OTHER    -> snapshots[u]]

\* The loop of _searchByBlockNumber between two bounds
binarySearch(list, blockNumber) ==
  LET search[bounds \in (1 .. Len(list)) \X (1 .. Len(list))] ==
        LET lower == bounds[1]
            upper == bounds[2]
            center == upper - (upper - lower) \div 2
            snapshot == list[center]
        IN  IF upper <= lower THEN list[lower].value
            ELSE IF snapshot.blockNumber = blockNumber THEN snapshot.value
            ELSE IF snapshot.blockNumber < blockNumber THEN search[<<center, upper>>]
            ELSE search[<<lower, center - 1>>]
  IN  search[<<1, Len(list)>>]

\* Variant: the block of the first snapshot still counts as before it.
SearchMissesFirst(list, balance, blockNumber) ==
  IF list = <<>> THEN balance
  ELSE IF LastOf(list).blockNumber <= blockNumber THEN LastOf(list).value
  ELSE IF list[1].blockNumber >= blockNumber THEN 0
  ELSE binarySearch(list, blockNumber)

\* _searchByBlockNumber, for an account with this list and this balance
searchByBlockNumber(list, balance, blockNumber) ==
  IF list = <<>> THEN balance
  ELSE IF LastOf(list).blockNumber <= blockNumber THEN LastOf(list).value
  ELSE IF list[1].blockNumber > blockNumber THEN 0
  ELSE binarySearch(list, blockNumber)

------------------------------------------------------------------------------
\* What the search should find: the value of the last snapshot taken in this
\* block or before, 0 before the first one.
RecordedValue(list, blockNumber) ==
  LET taken == {i \in DOMAIN list : list[i].blockNumber <= blockNumber}
  IN  IF taken = {} THEN 0
      ELSE list[CHOOSE i \in taken : \A j \in taken : j <= i].value

\* Block numbers strictly increase and do not pass the present block.
Ordered(list, block) ==
  /\ \A i, j \in DOMAIN list : i < j => list[i].blockNumber < list[j].blockNumber
  /\ \A i \in DOMAIN list : list[i].blockNumber <= block
==============================================================================
