---------------------------- MODULE GovernancePower ----------------------------
(***************************************************************************)
(* One kind of governance power (VOTING_POWER or PROPOSITION_POWER) of     *)
(* stkREX over the contract's life: first StakedREX.sol, whose hook        *)
(* (ERC20WithSnapshot.sol) records balances, then, behind the same proxy,  *)
(* StakedREXV3.sol, whose hook moves power between delegatees.             *)
(*                                                                         *)
(* The lists of ERC20WithSnapshot become those of the voting power by      *)
(* storage layout (GovernancePowerWithSnapshot.sol): for voting            *)
(* KeepsLegacySnapshots is TRUE.  The proposition power has lists of its   *)
(* own, empty at the upgrade: KeepsLegacySnapshots is FALSE, and the first *)
(* implementation writes none.                                             *)
(*                                                                         *)
(* One action per change of balances (stake mints, redeem burns, transfer  *)
(* moves; what else those functions do is in StakedREX) and delegateByType,*)
(* which delegate and the signed calls perform too.  The governance        *)
(* contract the hook may call is external and trusted by the code's        *)
(* comment; it is not modelled.                                            *)
(***************************************************************************)
EXTENDS PowerSnapshots, Functions, FiniteSets

CONSTANTS User,
          KeepsLegacySnapshots,
          \* bounds of the model
          StartBlock, MaxBlock,         \* block.number runs from one to the other
          MaxSupply                     \* the stkREX in existence, at most

ASSUME NoOneAssumption == NoOne \notin User
ASSUME FiniteUsersAssumption == IsFiniteSet(User)
ASSUME LegacyAssumption == KeepsLegacySnapshots \in BOOLEAN
ASSUME BlocksAssumption == StartBlock \in Nat /\ MaxBlock \in Nat /\ StartBlock <= MaxBlock
ASSUME SupplyAssumption == MaxSupply \in Nat

VARIABLES block,                \* block.number
          implementation,       \* what the proxy points to
          balances,
          delegates,            \* _votingDelegates or _propositionPowerDelegates
          snapshots             \* of this kind of power

vars == <<block, implementation, balances, delegates, snapshots>>

TypeOK ==
  /\ block \in StartBlock .. MaxBlock
  /\ implementation \in {"StakedREX", "StakedREXV3"}
  /\ balances \in [User -> Nat]
  /\ delegates \in [User -> User \cup {NoOne}]
  /\ snapshots \in [User -> Seq(Snapshot)]

\* _totalSupply: each mint, burn and transfer changes it as it changes balances
totalSupply == SumFunction(balances)

\* _getDelegatee; the hook's inlined copies also meet address(0)
getDelegatee(u) ==
  IF u = NoOne THEN NoOne
  ELSE IF delegates[u] = NoOne THEN u ELSE delegates[u]

------------------------------------------------------------------------------
(* The hooks.  Both run before the balances change. *)

\* ERC20WithSnapshot._beforeTokenTransfer: the new balances are recorded
SnapshotBalances(from, to, amount) ==
  /\ from \notin {to, NoOne} => amount <= balances[from]
  /\ snapshots' =
       IF from = to THEN snapshots
       ELSE [u \in User |->
               CASE u = from -> writeSnapshot(snapshots[u], block, balances[u] - amount)
                 [] u = to   -> writeSnapshot(snapshots[u], block, balances[u] + amount)
                 [] OTHER    -> snapshots[u]]

\* StakedREXV3._beforeTokenTransfer, for one kind of power
MoveDelegatedPower(from, to, amount) ==
  /\ CanMove(snapshots, balances, getDelegatee(from), getDelegatee(to), amount)
  /\ snapshots' = moveDelegates(snapshots, balances,
                                getDelegatee(from), getDelegatee(to), amount, block)

beforeTokenTransfer(from, to, amount) ==
  CASE implementation = "StakedREXV3" -> MoveDelegatedPower(from, to, amount)
    [] implementation = "StakedREX" /\ KeepsLegacySnapshots -> SnapshotBalances(from, to, amount)
    [] OTHER -> UNCHANGED snapshots

------------------------------------------------------------------------------
(* The actions *)

Init ==
  /\ block = StartBlock
  /\ implementation = "StakedREX"
  /\ balances = [u \in User |-> 0]
  /\ delegates = [u \in User |-> NoOne]
  /\ snapshots = [u \in User |-> <<>>]

\* _mint, called by stake with a positive amount
mint(account, amount) ==
  /\ totalSupply + amount <= MaxSupply
  /\ beforeTokenTransfer(NoOne, account, amount)
  /\ balances' = [balances EXCEPT ![account] = @ + amount]
  /\ UNCHANGED <<block, implementation, delegates>>

\* Variant: nothing checks the balance.
BurnUnchecked(account, amount) ==
  /\ beforeTokenTransfer(account, NoOne, amount)
  /\ balances' = [balances EXCEPT ![account] = @ - amount]
  /\ UNCHANGED <<block, implementation, delegates>>

\* _burn, called by redeem with a positive amount
burn(account, amount) ==
  /\ amount <= balances[account]
  /\ beforeTokenTransfer(account, NoOne, amount)
  /\ balances' = [balances EXCEPT ![account] = @ - amount]
  /\ UNCHANGED <<block, implementation, delegates>>

\* _transfer; 0 is a legal amount
transfer(sender, recipient, amount) ==
  /\ amount <= balances[sender]
  /\ beforeTokenTransfer(sender, recipient, amount)
  /\ balances' = [[balances EXCEPT ![sender] = @ - amount] EXCEPT ![recipient] = @ + amount]
  /\ UNCHANGED <<block, implementation, delegates>>

\* Variant: the power is taken from the delegator instead of his delegatee.
DelegateFromOwn(delegator, delegatee) ==
  /\ implementation = "StakedREXV3"
  /\ CanMove(snapshots, balances, delegator, delegatee, balances[delegator])
  /\ snapshots' = moveDelegates(snapshots, balances, delegator, delegatee, balances[delegator], block)
  /\ delegates' = [delegates EXCEPT ![delegator] = delegatee]
  /\ UNCHANGED <<block, implementation, balances>>

\* _delegateByType
delegateByType(delegator, delegatee) ==
  /\ implementation = "StakedREXV3"
  /\ CanMove(snapshots, balances, getDelegatee(delegator), delegatee, balances[delegator])
  /\ snapshots' = moveDelegates(snapshots, balances, getDelegatee(delegator), delegatee,
                                balances[delegator], block)
  /\ delegates' = [delegates EXCEPT ![delegator] = delegatee]
  /\ UNCHANGED <<block, implementation, balances>>

\* Variant: the new implementation starts with empty lists.
UpgradeForgetsLists ==
  /\ implementation = "StakedREX"
  /\ implementation' = "StakedREXV3"
  /\ snapshots' = [u \in User |-> <<>>]
  /\ UNCHANGED <<block, balances, delegates>>

\* upgradeToAndCall: the storage stays, initialize sets the DOMAIN_SEPARATOR
upgrade ==
  /\ implementation = "StakedREX"
  /\ implementation' = "StakedREXV3"
  /\ UNCHANGED <<block, balances, delegates, snapshots>>

\* The next block
mine ==
  /\ block < MaxBlock
  /\ block' = block + 1
  /\ UNCHANGED <<implementation, balances, delegates, snapshots>>

Next ==
  \/ \E u \in User, amount \in 1 .. MaxSupply : mint(u, amount) \/ burn(u, amount)
  \/ \E u, w \in User, amount \in 0 .. MaxSupply : transfer(u, w, amount)
  \/ \E u, w \in User : delegateByType(u, w)
  \/ upgrade
  \/ mine

Spec == Init /\ [][Next]_vars

------------------------------------------------------------------------------
(* The views.  _searchByBlockNumber reverts for a block not yet mined. *)

getPowerAtBlock(u, blockNumber) == searchByBlockNumber(snapshots[u], balances[u], blockNumber)

getPowerCurrent(u) == getPowerAtBlock(u, block)

------------------------------------------------------------------------------
(* Properties *)

\* The lists of all accounts are ordered by block, one snapshot per block: the
\* assumption of the binary search (_writeSnapshot's same-block branch).
SnapshotsOrdered == \A u \in User : Ordered(snapshots[u], block)

\* In every order of stakes, redeems, transfers and delegations, before and
\* after the upgrade, the power of an account is the stake of those who are
\* represented by it, no more and no less (_moveDelegatesByType computes it by
\* differences, from the balance where there is no snapshot).
PowerIsDelegatedStake ==
  \A u \in User :
    getPowerCurrent(u) =
      SumFunctionOnSet(balances, {w \in User : getDelegatee(w) = u})

\* The binary search of _searchByBlockNumber returns the value of the last
\* snapshot taken in the block or before it.
SearchFindsLast ==
  \A u \in User, b \in StartBlock .. block :
    snapshots[u] # <<>> => getPowerAtBlock(u, b) = RecordedValue(snapshots[u], b)

\* No write of a snapshot, of whichever account and in whichever hook, changes
\* what the lists say of a block that is over; with SearchFindsLast, an answer
\* of getPowerAtBlock that comes from a list is final.
RecordsAreFinal ==
  \A u \in User, b \in StartBlock .. block - 1 :
    RecordedValue(snapshots[u], b)' = RecordedValue(snapshots[u], b)

RecordedPowerFixed == [][RecordsAreFinal]_vars

\* The snapshots implement the table of PowerHistory: the power at a past block
\* is what it was at the end of that block, whatever happens later, upgrade
\* included.  True of the voting power, whose lists exist from the start.
History == INSTANCE PowerHistory WITH
  power <- [b \in StartBlock .. block |-> [u \in User |-> getPowerAtBlock(u, b)]]

ImplementsPowerHistory == History!Spec

\* StakedTokenV2Rev3.sol:1142, of getPowerAtBlock: "returns the delegated power of
\* a user at a certain block": for a block that is over it cannot change.
DocPowerAtBlock ==
  [][\A u \in User, b \in StartBlock .. block - 1 :
       implementation = "StakedREXV3" => getPowerAtBlock(u, b)' = getPowerAtBlock(u, b)]_vars
==============================================================================
