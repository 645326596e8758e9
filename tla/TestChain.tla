------------------------------ MODULE TestChain ------------------------------
(***************************************************************************)
(* The chain under the test suites: makeSuite of test/helpers/make-suite.ts*)
(* takes a snapshot before a suite's tests and reverts to it after them,   *)
(* and the helpers of helpers/misc-utils.ts mine blocks and move the time. *)
(*                                                                         *)
(* The node is external.  evm_revert restores a snapshot and deletes it    *)
(* with all later ones; of an id it does not know it answers false, which  *)
(* nobody looks at.  The block number it answers may be an old one: a block*)
(* may be told of later than it is mined, at any time, between any two     *)
(* requests; the number never falls but by evm_revert.  That is what the   *)
(* retry of advanceBlock is for.  The code sets no limit to it, so a node  *)
(* that is late each time would have it mine for ever: MaxLate is an       *)
(* assumption about the node, and what a late block costs is a property.   *)
(***************************************************************************)
EXTENDS Naturals, FiniteSets

CONSTANTS
    Network,        \* DRE.network.name
    Suites,         \* bound: suites of the test run
    MaxBlock,       \* bound: blocks a suite may have mined when it starts another step
    MaxAdvance,     \* bound: blocks advanceBlockTo is asked for
    MaxLate         \* bound: blocks the node is late to tell of, in a suite

ASSUME TestChainAssumption == {Suites, MaxBlock, MaxAdvance, MaxLate} \subseteq Nat

VARIABLES
    chain,          \* number and time of the last block, what suites left in the state
    seen,           \* the block number the node answers
    late,           \* history: the blocks it did not tell of when they were mined
    snapshots,      \* id -> chain
    lastId,         \* the node's counter of snapshots
    snapshotId,     \* buidlerevmSnapshotId
    suite,          \* the suite that runs, or ran last
    pc,             \* where it is
    target, prior   \* parameters and variables of advanceBlockTo and advanceBlock

vars == <<chain, seen, late, snapshots, lastId, snapshotId, suite, pc, target, prior>>
node == <<chain, seen, late, snapshots, lastId>>
local == <<target, prior>>

Setup == [block |-> 1, time |-> 1, marks |-> {}]

Init ==
    /\ chain = Setup /\ seen = Setup.block /\ late = {}
    /\ snapshots = [id \in {} |-> Setup] /\ lastId = 0 /\ snapshotId = 1
    /\ suite = 0 /\ pc = "between" /\ target = 0 /\ prior = 0

-----------------------------------------------------------------------------
\* Variant: the id the module starts with stays.
IdFromTheStart(id) == UNCHANGED snapshotId

\* setBuidlerevmSnapshotId
setBuidlerevmSnapshotId(id) == snapshotId' = IF Network = "hardhat" THEN id ELSE snapshotId

evmSnapshot(id) ==
    /\ lastId' = id
    /\ snapshots' = [i \in DOMAIN snapshots \cup {id} |-> IF i = id THEN chain ELSE snapshots[i]]
    /\ UNCHANGED <<chain, seen, late>>

evmRevert(id) ==
    /\ IF id \in DOMAIN snapshots
         THEN /\ chain' = snapshots[id] /\ seen' = snapshots[id].block /\ late' = {}
              /\ snapshots' = [i \in {j \in DOMAIN snapshots : j < id} |-> snapshots[i]]
         ELSE UNCHANGED <<chain, seen, late, snapshots>>
    /\ UNCHANGED lastId

\* before: the suite's tests follow.
Before ==
    /\ pc = "between" /\ suite < Suites
    /\ evmSnapshot(lastId + 1)
    /\ setBuidlerevmSnapshotId(lastId + 1)
    /\ suite' = suite + 1 /\ pc' = "tests"
    /\ UNCHANGED local

\* after: runs also when tests have failed.
AfterSuite ==
    /\ pc = "tests"
    /\ evmRevert(snapshotId)
    /\ pc' = "between"
    /\ UNCHANGED <<snapshotId, suite, local>>

\* A block with time t; the node tells of it at once, or not yet.
MineBlock(t, marks) ==
    /\ chain' = [block |-> chain.block + 1, time |-> t, marks |-> marks]
    /\ \/ seen' = chain.block + 1 /\ UNCHANGED late
       \/ /\ Cardinality(late) < MaxLate
          /\ late' = late \cup {chain.block + 1}
          /\ UNCHANGED seen
    /\ UNCHANGED <<snapshots, lastId>>

\* The node catches up, with some block or with the last.
Tell ==
    /\ seen' \in (seen + 1)..chain.block
    /\ UNCHANGED <<chain, late, snapshots, lastId, snapshotId, suite, pc, local>>

\* A test's transaction, with a block of its own.
Transact ==
    /\ pc = "tests" /\ chain.block < MaxBlock
    /\ MineBlock(chain.time + 1, chain.marks \cup {suite})
    /\ UNCHANGED <<snapshotId, suite, pc, local>>

increaseTimeAndMine(seconds) ==
    /\ pc = "tests" /\ chain.block < MaxBlock
    /\ MineBlock(chain.time + seconds, chain.marks)
    /\ UNCHANGED <<snapshotId, suite, pc, local>>

-----------------------------------------------------------------------------
(***************************************************************************)
(* advanceBlockTo, called with a number read before, and the calls of      *)
(* advanceBlock(0) it makes: 0 is no timestamp.  Every block number it     *)
(* reads is a request of its own.                                          *)
(***************************************************************************)
AdvanceBlockTo(t) ==
    /\ pc = "tests" /\ chain.block < MaxBlock
    /\ target' = t /\ pc' = "enter"
    /\ UNCHANGED <<node, snapshotId, suite, prior>>

\* currentBlock; of a target that has passed it throws, into the test.
Enter ==
    /\ pc = "enter"
    /\ pc' = IF target < seen THEN "tests" ELSE "while"
    /\ UNCHANGED <<node, snapshotId, suite, local>>

\* Variant: the loop goes on at the target.
WhileAtTarget ==
    /\ pc = "while"
    /\ pc' = IF seen <= target THEN "prior" ELSE "tests"
    /\ UNCHANGED <<node, snapshotId, suite, local>>

\* while ((await latestBlock()) < target)
While ==
    /\ pc = "while"
    /\ pc' = IF seen < target THEN "prior" ELSE "tests"
    /\ UNCHANGED <<node, snapshotId, suite, local>>

\* priorBlock, which advanceBlock reads first
Prior ==
    /\ pc = "prior"
    /\ prior' = seen /\ pc' = "mine"
    /\ UNCHANGED <<node, snapshotId, suite, target>>

\* evm_mine
Mine ==
    /\ pc = "mine"
    /\ MineBlock(chain.time + 1, chain.marks)
    /\ pc' = "compare"
    /\ UNCHANGED <<snapshotId, suite, local>>

\* Variant: the number is asked for again until it moves.
CompareWaits ==
    /\ pc = "compare"
    /\ pc' = IF seen = prior THEN "compare" ELSE "while"
    /\ UNCHANGED <<node, snapshotId, suite, local>>

\* nextBlock: has it not moved, advanceBlock calls itself.
Compare ==
    /\ pc = "compare"
    /\ pc' = IF seen = prior THEN "prior" ELSE "while"
    /\ UNCHANGED <<node, snapshotId, suite, local>>

Advance == Enter \/ While \/ Prior \/ Mine \/ Compare

Next ==
    \/ Before \/ AfterSuite \/ Transact
    \/ \E seconds \in 1..2 : increaseTimeAndMine(seconds)
    \/ \E n \in 0..MaxAdvance : AdvanceBlockTo(seen + n)
    \/ Advance
    \/ Tell

\* A call of a helper goes on: the node answers every request, but never has to
\* catch up.
Spec == Init /\ [][Next]_vars /\ WF_vars(Advance)

-----------------------------------------------------------------------------
(***************************************************************************)
(* Every suite starts on the chain the setup has left: whatever the suites *)
(* before it did, mined and reverted, and although a snapshot can be used  *)
(* only once.                                                              *)
(***************************************************************************)
SuitesStartFresh == pc = "between" => chain = Setup

Advancing == pc \in {"enter", "while", "prior", "mine", "compare"}

(***************************************************************************)
(* Blocks past its target are the price of late answers: advanceBlockTo    *)
(* mines at most as many as there are late blocks from the target on,      *)
(* wherever between its requests the node catches up.  With a node that    *)
(* tells at once it never goes further than the target.                    *)
(***************************************************************************)
AdvanceIsShort ==
    Advancing => chain.block <= target + Cardinality({b \in late : b >= target})

(***************************************************************************)
(* A test that advances the chain gets it back, if no more than MaxLate    *)
(* blocks are late: although advanceBlock mines another block whenever the *)
(* number has not moved and then reads the number anew, and although the   *)
(* node may tell at any moment or not at all.                              *)
(***************************************************************************)
AdvanceEnds == (pc = "enter") ~> (pc = "tests")
=============================================================================
