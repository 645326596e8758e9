--------------------------- MODULE TestChain_proofs ---------------------------
(***************************************************************************)
(* Proofs about TestChain, for every number of suites, of blocks they mine,*)
(* of blocks advanceBlockTo is asked for and of blocks the node is late to *)
(* tell of.  Last, the measure by which advanceBlockTo comes to an end.    *)
(***************************************************************************)
EXTENDS TestChain, FiniteSetTheorems, TLAPS

State == [block : Nat, time : Nat, marks : SUBSET Nat]

TestChainTypeOK ==
    /\ chain \in State /\ seen \in Nat
    /\ lastId \in Nat
    /\ snapshotId \in Nat /\ suite \in Nat
    /\ pc \in {"between", "tests", "enter", "while", "prior", "mine", "compare"}
    /\ target \in Nat /\ prior \in Nat

\* The snapshot of the suite that runs is the one snapshotId names, and shows the setup.
SnapshotAtHand ==
    /\ pc = "between" => chain = Setup
    /\ pc # "between" => snapshotId \in DOMAIN snapshots /\ snapshots[snapshotId] = Setup

\* What the node has not told of was mined, and it was late with it.
NodeInv ==
    /\ seen <= chain.block
    /\ late \in SUBSET (1..chain.block)
    /\ \A b \in Nat : seen < b /\ b <= chain.block => b \in late
    /\ Cardinality(late) <= MaxLate

LateFrom(t) == {b \in late : b >= t}

\* Another block may be mined when it would be within the price.
RoomForOne == chain.block + 1 <= target + Cardinality(LateFrom(target))

\* What the steps of advanceBlockTo know; after the evm_mine, a late block has
\* already raised the price by the block the recursion will mine.
AlmostThere ==
    /\ Advancing => chain.block <= target + Cardinality(LateFrom(target))
    /\ pc \in {"prior", "mine"} => RoomForOne
    /\ pc = "mine" => prior <= chain.block
    /\ pc = "compare" => prior < chain.block /\ (chain.block \in late => RoomForOne)

ChainIInv == TestChainTypeOK /\ SnapshotAtHand /\ NodeInv /\ AlmostThere

-----------------------------------------------------------------------------
\* There are only so many late blocks.
LEMMA LateIsFinite ==
    ASSUME TestChainTypeOK, NodeInv, NEW t \in Nat
    PROVE  /\ IsFiniteSet(late) /\ Cardinality(late) \in Nat
           /\ IsFiniteSet(LateFrom(t)) /\ Cardinality(LateFrom(t)) \in Nat
           /\ Cardinality(LateFrom(t)) <= Cardinality(late)
<1>1. chain.block \in Nat /\ late \subseteq 1..chain.block /\ LateFrom(t) \subseteq late
  BY DEF TestChainTypeOK, State, NodeInv, LateFrom
<1>2. IsFiniteSet(1..chain.block)
  BY <1>1, FS_Interval
<1>3. IsFiniteSet(late)
  BY <1>1, <1>2, FS_Subset
<1> QED BY <1>1, <1>3, FS_Subset, FS_CardinalityType

\* The blocks from t to the last, none of which the node has told of, were late.
LEMMA UntoldFrom ==
    ASSUME TestChainTypeOK, NodeInv, NEW t \in Nat, seen < t, t <= chain.block
    PROVE  chain.block - t + 1 <= Cardinality(LateFrom(t))
<1>1. chain.block \in Nat /\ seen \in Nat
  BY DEF TestChainTypeOK, State
<1>2. t..chain.block \subseteq LateFrom(t)
  BY <1>1 DEF NodeInv, LateFrom
<1>3. Cardinality(t..chain.block) = chain.block - t + 1
  BY <1>1, FS_Interval
<1>4. Cardinality(t..chain.block) <= Cardinality(LateFrom(t))
  BY <1>2, LateIsFinite, FS_Subset
<1> QED BY <1>3, <1>4

LEMMA ChainInit == Init => ChainIInv
<1> SUFFICES ASSUME Init PROVE ChainIInv
  OBVIOUS
<1>1. Cardinality({}) = 0
  BY FS_EmptySet
<1> QED BY <1>1, TestChainAssumption
        DEF Init, Setup, ChainIInv, TestChainTypeOK, State, SnapshotAtHand, NodeInv, AlmostThere, Advancing

(***************************************************************************)
(* A block was mined, in a test or by advanceBlock: a late one is counted, *)
(* from every block on up to itself.                                       *)
(***************************************************************************)
LEMMA MineBlockEffect ==
    ASSUME TestChainTypeOK, NodeInv, NEW t \in Nat, NEW marks \in SUBSET Nat, MineBlock(t, marks)
    PROVE  /\ chain' \in State /\ chain'.block = chain.block + 1
           /\ seen' \in Nat /\ UNCHANGED <<snapshots, lastId>>
           /\ NodeInv'
           /\ \A b \in Nat :
                 /\ Cardinality(LateFrom(b))' \in Nat
                 /\ Cardinality(LateFrom(b)) <= Cardinality(LateFrom(b))'
                 /\ chain'.block \in late' /\ b <= chain'.block =>
                       Cardinality(LateFrom(b))' = Cardinality(LateFrom(b)) + 1
<1>1. /\ chain \in State /\ chain.block \in Nat /\ seen \in Nat /\ seen <= chain.block
      /\ late \in SUBSET (1..chain.block) /\ chain.block + 1 \notin late
      /\ MaxLate \in Nat
  BY TestChainAssumption DEF TestChainTypeOK, NodeInv, State
<1>2. /\ chain' = [block |-> chain.block + 1, time |-> t, marks |-> marks]
      /\ UNCHANGED <<snapshots, lastId>>
  BY DEF MineBlock
<1>3. chain' \in State /\ chain'.block = chain.block + 1
  BY <1>1, <1>2 DEF State
<1>4. IsFiniteSet(late) /\ Cardinality(late) \in Nat
  BY LateIsFinite, <1>1
<1>5. CASE seen' = chain.block + 1 /\ late' = late
  <2>1. NodeInv'
    BY <1>1, <1>3, <1>5 DEF NodeInv
  <2>2. \A b \in Nat : LateFrom(b)' = LateFrom(b) /\ Cardinality(LateFrom(b)) \in Nat
    BY <1>5, LateIsFinite DEF LateFrom
  <2> QED BY <1>1, <1>2, <1>3, <1>5, <2>1, <2>2
<1>6. CASE Cardinality(late) < MaxLate /\ late' = late \cup {chain.block + 1} /\ seen' = seen
  <2>1. Cardinality(late') = Cardinality(late) + 1
    BY <1>1, <1>4, <1>6, FS_AddElement
  <2>2. NodeInv'
    <3>1. \A b \in Nat : seen' < b /\ b <= chain'.block => b \in late'
      <4> SUFFICES ASSUME NEW b \in Nat, seen < b, b <= chain.block + 1 PROVE b \in late'
        BY <1>3, <1>6
      <4>1. b <= chain.block \/ b = chain.block + 1
        BY <1>1
      <4> QED BY <1>6, <4>1 DEF NodeInv
    <3>2. late' \in SUBSET (1..chain'.block)
      <4>1. 1..chain.block \subseteq 1..(chain.block + 1) /\ chain.block + 1 \in 1..(chain.block + 1)
        BY <1>1
      <4>2. late' \subseteq 1..(chain.block + 1)
        BY <1>1, <1>6, <4>1
      <4> QED BY <1>3, <4>2
    <3> QED BY <1>1, <1>3, <1>4, <1>6, <2>1, <3>1, <3>2 DEF NodeInv
  <2>3. ASSUME NEW b \in Nat
        PROVE  /\ Cardinality(LateFrom(b))' \in Nat
               /\ Cardinality(LateFrom(b)) <= Cardinality(LateFrom(b))'
               /\ b <= chain'.block => Cardinality(LateFrom(b))' = Cardinality(LateFrom(b)) + 1
    <3>1. IsFiniteSet(LateFrom(b)) /\ Cardinality(LateFrom(b)) \in Nat
      BY LateIsFinite
    <3>2. CASE b <= chain.block + 1
      <4>1. LateFrom(b)' = LateFrom(b) \cup {chain.block + 1} /\ chain.block + 1 \notin LateFrom(b)
        BY <1>1, <1>6, <3>2 DEF LateFrom
      <4>2. Cardinality(LateFrom(b)') = Cardinality(LateFrom(b)) + 1
        BY <3>1, <4>1, FS_AddElement
      <4> QED BY <3>1, <4>2
    <3>3. CASE ~(b <= chain.block + 1)
      <4>1. LateFrom(b)' = LateFrom(b)
        BY <1>1, <1>6, <3>3 DEF LateFrom
      <4> QED BY <1>3, <3>1, <3>3, <4>1
    <3> QED BY <3>2, <3>3
  <2> QED BY <1>1, <1>2, <1>3, <1>6, <2>2, <2>3
<1> QED BY <1>5, <1>6 DEF MineBlock

LEMMA BeforeKeeps == ASSUME Network = "hardhat", ChainIInv, Before PROVE ChainIInv'
<1>1. chain = Setup /\ chain \in State /\ lastId \in Nat
  BY DEF ChainIInv, SnapshotAtHand, TestChainTypeOK, Before
<1>2. /\ lastId' = lastId + 1 /\ snapshotId' = lastId + 1
      /\ snapshots' = [i \in DOMAIN snapshots \cup {lastId + 1} |->
                          IF i = lastId + 1 THEN chain ELSE snapshots[i]]
      /\ chain' = chain /\ seen' = seen /\ late' = late /\ suite' = suite + 1 /\ pc' = "tests"
      /\ target' = target /\ prior' = prior
  BY DEF Before, evmSnapshot, setBuidlerevmSnapshotId, local
<1>3. snapshotId' \in DOMAIN snapshots' /\ snapshots'[snapshotId'] = Setup
  BY <1>1, <1>2
<1>4. NodeInv' /\ AlmostThere'
  BY <1>2 DEF ChainIInv, NodeInv, AlmostThere, Advancing
<1> QED BY <1>1, <1>2, <1>3, <1>4 DEF ChainIInv, SnapshotAtHand, TestChainTypeOK

LEMMA AfterKeeps == ASSUME ChainIInv, AfterSuite PROVE ChainIInv'
<1>1. snapshotId \in DOMAIN snapshots /\ snapshots[snapshotId] = Setup
  BY DEF ChainIInv, SnapshotAtHand, AfterSuite
<1>2. /\ chain' = Setup /\ seen' = Setup.block /\ late' = {} /\ pc' = "between"
      /\ UNCHANGED <<lastId, snapshotId, suite, target, prior>>
  BY <1>1 DEF AfterSuite, evmRevert, local
<1>3. Cardinality({}) = 0
  BY FS_EmptySet
<1>4. NodeInv' /\ AlmostThere'
  BY <1>2, <1>3, TestChainAssumption DEF NodeInv, AlmostThere, Advancing, Setup
<1> QED BY <1>2, <1>4 DEF ChainIInv, SnapshotAtHand, TestChainTypeOK, Setup, State

LEMMA TestKeeps ==
    ASSUME ChainIInv, Transact \/ \E seconds \in 1..2 : increaseTimeAndMine(seconds)
    PROVE  ChainIInv'
<1>1. chain \in State /\ suite \in Nat
  BY DEF ChainIInv, TestChainTypeOK
<1>2. PICK t \in Nat, marks \in SUBSET Nat : MineBlock(t, marks)
  <2>1. chain.marks \cup {suite} \in SUBSET Nat /\ chain.marks \in SUBSET Nat
        /\ chain.time + 1 \in Nat /\ \A seconds \in 1..2 : chain.time + seconds \in Nat
    BY <1>1 DEF State
  <2> QED BY <2>1 DEF Transact, increaseTimeAndMine
<1>3. chain' \in State /\ seen' \in Nat /\ UNCHANGED <<snapshots, lastId>> /\ NodeInv'
  BY <1>2, MineBlockEffect DEF ChainIInv
<1>4. pc = "tests" /\ UNCHANGED <<snapshotId, suite, pc, target, prior>>
  BY DEF Transact, increaseTimeAndMine, local
<1>5. AlmostThere'
  BY <1>4 DEF AlmostThere, Advancing
<1> QED BY <1>1, <1>3, <1>4, <1>5 DEF ChainIInv, SnapshotAtHand, TestChainTypeOK

\* The node catches up: what it has yet to tell of becomes less.
LEMMA TellKeeps == ASSUME ChainIInv, Tell PROVE ChainIInv'
<1>1. chain \in State /\ chain.block \in Nat /\ seen \in Nat
  BY DEF ChainIInv, TestChainTypeOK, State
<1>2. /\ seen' \in Nat /\ seen < seen' /\ seen' <= chain.block
      /\ UNCHANGED <<chain, late, snapshots, lastId, snapshotId, suite, pc, target, prior>>
  BY <1>1 DEF Tell, local
<1>3. NodeInv'
  <2>1. \A b \in Nat : seen' < b => seen < b
    BY <1>1, <1>2
  <2> QED BY <1>1, <1>2, <2>1 DEF ChainIInv, NodeInv
<1>4. LateFrom(target)' = LateFrom(target)
  BY <1>2 DEF LateFrom
<1>5. AlmostThere'
  BY <1>2, <1>4 DEF ChainIInv, AlmostThere, Advancing, RoomForOne
<1> QED BY <1>1, <1>2, <1>3, <1>5 DEF ChainIInv, SnapshotAtHand, TestChainTypeOK

\* What the node had not told of when the caller read the number is late.
LEMMA AdvanceBlockToKeeps ==
    ASSUME ChainIInv, NEW n \in 0..MaxAdvance, AdvanceBlockTo(seen + n) PROVE ChainIInv'
<1>1. chain.block \in Nat /\ n \in Nat /\ seen \in Nat
  BY TestChainAssumption DEF ChainIInv, TestChainTypeOK, State
<1>2. /\ pc = "tests" /\ pc' = "enter" /\ target' = seen + n /\ target' \in Nat
      /\ UNCHANGED <<chain, seen, late, snapshots, lastId, snapshotId, suite, prior>>
  BY <1>1 DEF AdvanceBlockTo, node
<1>3. TestChainTypeOK' /\ SnapshotAtHand' /\ NodeInv'
  BY <1>2 DEF ChainIInv, TestChainTypeOK, SnapshotAtHand, NodeInv
<1>4. chain.block <= target' + Cardinality(LateFrom(target'))
  <2>1. Cardinality(LateFrom(target')) \in Nat
    BY <1>2, LateIsFinite DEF ChainIInv
  <2>2. CASE chain.block <= target'
    BY <1>1, <1>2, <2>1, <2>2
  <2>3. CASE target' < chain.block
    <3>1. chain.block - (target' + 1) + 1 <= Cardinality(LateFrom(target' + 1))
      <4> DEFINE t == target' + 1
      <4>1. t \in Nat /\ seen < t /\ t <= chain.block
        BY <1>1, <1>2, <2>3
      <4> HIDE DEF t
      <4>2. chain.block - t + 1 <= Cardinality(LateFrom(t))
        BY <4>1, UntoldFrom DEF ChainIInv
      <4> QED BY <4>2 DEF t
    <3>2. LateFrom(target' + 1) \subseteq LateFrom(target')
      <4>1. \A b \in late : b \in Nat
        BY <1>1 DEF ChainIInv, NodeInv
      <4>2. target' \in Nat /\ \A b \in Nat : b >= target' + 1 => b >= target'
        BY <1>2
      <4> QED BY <4>1, <4>2 DEF LateFrom
    <3>3. IsFiniteSet(LateFrom(target'))
      BY <1>2, LateIsFinite DEF ChainIInv
    <3>4. Cardinality(LateFrom(target' + 1)) <= Cardinality(LateFrom(target'))
      BY <3>2, <3>3, FS_Subset
    <3>5. Cardinality(LateFrom(target' + 1)) \in Nat
      BY <3>2, <3>3, FS_Subset, FS_CardinalityType
    <3> QED BY <1>1, <1>2, <2>1, <3>1, <3>4, <3>5
  <2> QED BY <1>1, <1>2, <2>2, <2>3
<1>5. AlmostThere'
  <2>1. LateFrom(target)' = LateFrom(target')
    BY <1>2 DEF LateFrom
  <2> QED BY <1>2, <1>4, <2>1 DEF AlmostThere
<1> QED BY <1>3, <1>5 DEF ChainIInv

\* The steps of advanceBlockTo that only read.
LEMMA ReadKeeps ==
    ASSUME ChainIInv, Enter \/ While \/ Prior \/ Compare
    PROVE  /\ TestChainTypeOK' /\ SnapshotAtHand' /\ NodeInv'
           /\ UNCHANGED <<chain, seen, late, target>>
           /\ Cardinality(LateFrom(target)) \in Nat
           /\ LateFrom(target)' = LateFrom(target)
<1>1. /\ UNCHANGED <<chain, seen, late, snapshots, lastId, snapshotId, suite, target>>
      /\ prior' \in Nat /\ pc \in {"enter", "while", "prior", "compare"}
      /\ pc' \in {"tests", "while", "prior", "mine"}
  BY DEF Enter, While, Prior, Compare, node, local, ChainIInv, TestChainTypeOK
<1>2. Cardinality(LateFrom(target)) \in Nat
  BY LateIsFinite DEF ChainIInv, TestChainTypeOK
<1>3. LateFrom(target)' = LateFrom(target)
  BY <1>1 DEF LateFrom
<1> QED BY <1>1, <1>2, <1>3 DEF ChainIInv, TestChainTypeOK, SnapshotAtHand, NodeInv

LEMMA AdvanceKeeps == ASSUME ChainIInv, Advance PROVE ChainIInv'
<1>1. /\ chain \in State /\ chain.block \in Nat /\ seen \in Nat /\ target \in Nat /\ prior \in Nat
      /\ seen <= chain.block
  BY DEF ChainIInv, TestChainTypeOK, State, NodeInv
<1> DEFINE price == Cardinality(LateFrom(target))
<1>2. price \in Nat
  BY <1>1, LateIsFinite DEF ChainIInv
<1>3. CASE Enter
  <2>1. /\ TestChainTypeOK' /\ SnapshotAtHand' /\ NodeInv' /\ UNCHANGED <<chain, target>>
        /\ LateFrom(target)' = LateFrom(target)
    BY <1>3, ReadKeeps
  <2>2. pc = "enter" /\ pc' \in {"tests", "while"}
    BY <1>3 DEF Enter
  <2> QED BY <2>1, <2>2 DEF ChainIInv, AlmostThere, Advancing
<1>4. CASE While
  <2>1. /\ TestChainTypeOK' /\ SnapshotAtHand' /\ NodeInv' /\ UNCHANGED <<chain, target>>
        /\ LateFrom(target)' = LateFrom(target)
    BY <1>4, ReadKeeps
  <2>2. pc = "while" /\ pc' = IF seen < target THEN "prior" ELSE "tests"
    BY <1>4 DEF While
  <2>3. seen < target => RoomForOne
    <3>1. CASE chain.block < target
      BY <1>1, <1>2, <3>1 DEF RoomForOne
    <3>2. CASE seen < target /\ target <= chain.block
      <4>1. chain.block - target + 1 <= price
        BY <1>1, <3>2, UntoldFrom DEF ChainIInv
      <4> QED BY <1>1, <1>2, <4>1 DEF RoomForOne
    <3> QED BY <1>1, <3>1, <3>2
  <2> QED BY <2>1, <2>2, <2>3 DEF ChainIInv, AlmostThere, Advancing, RoomForOne
<1>5. CASE Prior
  <2>1. /\ TestChainTypeOK' /\ SnapshotAtHand' /\ NodeInv' /\ UNCHANGED <<chain, target>>
        /\ LateFrom(target)' = LateFrom(target)
    BY <1>5, ReadKeeps
  <2>2. pc = "prior" /\ pc' = "mine" /\ prior' = seen
    BY <1>5 DEF Prior
  <2> QED BY <1>1, <2>1, <2>2 DEF ChainIInv, AlmostThere, Advancing, RoomForOne
<1>6. CASE Mine
  <2>1. chain.time + 1 \in Nat /\ chain.marks \in SUBSET Nat
    BY <1>1 DEF State
  <2>2. /\ chain' \in State /\ chain'.block = chain.block + 1
        /\ seen' \in Nat /\ UNCHANGED <<snapshots, lastId>> /\ NodeInv'
        /\ \A b \in Nat :
              /\ Cardinality(LateFrom(b))' \in Nat
              /\ Cardinality(LateFrom(b)) <= Cardinality(LateFrom(b))'
              /\ chain'.block \in late' /\ b <= chain'.block =>
                    Cardinality(LateFrom(b))' = Cardinality(LateFrom(b)) + 1
    BY <1>6, <2>1, MineBlockEffect DEF Mine, ChainIInv
  <2>3. pc = "mine" /\ pc' = "compare" /\ UNCHANGED <<snapshotId, suite, target, prior>>
    BY <1>6 DEF Mine, local
  <2>4. TestChainTypeOK' /\ SnapshotAtHand'
    BY <2>2, <2>3 DEF ChainIInv, TestChainTypeOK, SnapshotAtHand
  <2> DEFINE later == Cardinality({b \in late' : b >= target})
  <2>5. Cardinality(LateFrom(target))' = later
    BY <2>3 DEF LateFrom
  <2>6. /\ later \in Nat /\ price <= later
        /\ chain'.block \in late' /\ target <= chain'.block => later = price + 1
    BY <1>1, <2>2 DEF LateFrom
  <2>7. chain.block + 1 <= target + price /\ prior <= chain.block
    BY <2>3 DEF ChainIInv, AlmostThere, RoomForOne
  <2> HIDE DEF price, later
  <2>8. chain'.block <= target + later /\ prior < chain'.block
    BY <1>1, <1>2, <2>2, <2>6, <2>7
  <2>9. chain'.block \in late' => chain'.block + 1 <= target + later
    BY <1>1, <1>2, <2>2, <2>6, <2>7
  <2>10. AlmostThere'
    BY <2>3, <2>5, <2>8, <2>9 DEF AlmostThere, RoomForOne
  <2> QED BY <2>2, <2>4, <2>10 DEF ChainIInv
<1>7. CASE Compare
  <2>1. /\ TestChainTypeOK' /\ SnapshotAtHand' /\ NodeInv' /\ UNCHANGED <<chain, target>>
        /\ LateFrom(target)' = LateFrom(target)
    BY <1>7, ReadKeeps
  <2>2. pc = "compare" /\ pc' = IF seen = prior THEN "prior" ELSE "while"
    BY <1>7 DEF Compare
  <2>3. seen = prior => RoomForOne
    BY <1>1, <2>2 DEF ChainIInv, NodeInv, AlmostThere
  <2> QED BY <2>1, <2>2, <2>3 DEF ChainIInv, AlmostThere, Advancing, RoomForOne
<1> QED BY <1>3, <1>4, <1>5, <1>6, <1>7 DEF Advance

LEMMA ChainInductive == ASSUME Network = "hardhat" PROVE ChainIInv /\ [Next]_vars => ChainIInv'
<1> SUFFICES ASSUME ChainIInv, [Next]_vars PROVE ChainIInv'
  OBVIOUS
<1>1. CASE UNCHANGED vars
  <2>1. LateFrom(target)' = LateFrom(target)
    BY <1>1 DEF vars, LateFrom
  <2> QED BY <1>1, <2>1 DEF vars, ChainIInv, SnapshotAtHand, NodeInv, AlmostThere, RoomForOne,
                            Advancing, TestChainTypeOK
<1> QED BY <1>1, BeforeKeeps, AfterKeeps, TestKeeps, AdvanceBlockToKeeps, AdvanceKeeps, TellKeeps
        DEF Next

LEMMA AlwaysChainIInv == ASSUME Network = "hardhat" PROVE Spec => []ChainIInv
BY ChainInit, ChainInductive, PTL DEF Spec

-----------------------------------------------------------------------------
(***************************************************************************)
(* test/helpers/make-suite.ts: on the network of the tests every suite     *)
(* starts on the chain the setup has left.                                 *)
(***************************************************************************)
THEOREM EverySuiteStartsFresh == ASSUME Network = "hardhat" PROVE Spec => []SuitesStartFresh
<1>1. ChainIInv => SuitesStartFresh
  BY DEF ChainIInv, SnapshotAtHand, SuitesStartFresh
<1> QED BY <1>1, AlwaysChainIInv, PTL

(***************************************************************************)
(* helpers/misc-utils.ts: advanceBlockTo and the recursion of advanceBlock *)
(* mine at most one block past the target for each block from the target   *)
(* on that the node was late to tell of, however many those are, however   *)
(* far behind its answers fall and between whichever of the requests it    *)
(* catches up.                                                             *)
(***************************************************************************)
THEOREM AdvanceStaysShort == ASSUME Network = "hardhat" PROVE Spec => []AdvanceIsShort
<1>1. ChainIInv => AdvanceIsShort
  BY DEF ChainIInv, AlmostThere, AdvanceIsShort, LateFrom
<1> QED BY <1>1, AlwaysChainIInv, PTL

-----------------------------------------------------------------------------
\* What is left of the present round.
Stage == CASE pc = "compare" -> 4 [] pc = "enter" -> 3 [] pc = "while" -> 2
           [] pc = "prior" -> 1 [] OTHER -> 0

(***************************************************************************)
(* How many steps may still be taken before advanceBlockTo returns: six for*)
(* each block it may still mine, one for each the node has yet to tell of, *)
(* and what is left of the round.                                          *)
(***************************************************************************)
StepsLeft == 6 * (target + MaxLate + 1 - chain.block) + (chain.block - seen) + Stage

(***************************************************************************)
(* While a test waits for advanceBlockTo, every step, its own or the       *)
(* node's, returns or leaves fewer steps.                                  *)
(***************************************************************************)
AdvanceGetsCloser ==
    [][Advancing =>
         /\ StepsLeft \in Nat
         /\ pc' # "tests" => Advancing' /\ StepsLeft' < StepsLeft]_vars

\* No more blocks past the target than may be late: the number is natural.
LEMMA AdvancingIsBounded ==
    ASSUME ChainIInv, Advancing
    PROVE  /\ StepsLeft \in Nat /\ Stage \in Nat
           /\ target \in Nat /\ chain.block \in Nat /\ seen \in Nat /\ MaxLate \in Nat
<1>1. /\ target \in Nat /\ chain.block \in Nat /\ seen \in Nat /\ MaxLate \in Nat
      /\ seen <= chain.block /\ Cardinality(late) <= MaxLate
      /\ chain.block <= target + Cardinality(LateFrom(target))
  BY TestChainAssumption DEF ChainIInv, TestChainTypeOK, NodeInv, AlmostThere, State
<1>2. /\ Cardinality(LateFrom(target)) <= Cardinality(late)
      /\ Cardinality(LateFrom(target)) \in Nat /\ Cardinality(late) \in Nat
  BY <1>1, LateIsFinite DEF ChainIInv
<1>3. target + MaxLate + 1 - chain.block \in Nat /\ chain.block - seen \in Nat
  BY <1>1, <1>2
<1>4. Stage \in Nat
  BY DEF Stage
<1> QED BY <1>1, <1>3, <1>4 DEF StepsLeft

\* The block mined is paid with six; the other steps with one or more.
LEMMA AdvanceStepCloser ==
    ASSUME ChainIInv, ChainIInv', Next, Advancing, pc' # "tests"
    PROVE  Advancing' /\ StepsLeft' < StepsLeft
<1>1. Advance \/ Tell
  BY DEF Next, Before, AfterSuite, Transact, increaseTimeAndMine, AdvanceBlockTo, Advancing
<1>2. /\ target \in Nat /\ chain.block \in Nat /\ seen \in Nat /\ MaxLate \in Nat
      /\ StepsLeft \in Nat
  BY AdvancingIsBounded
<1>3. Advancing' /\ target' = target
  BY <1>1 DEF Advance, Enter, While, Prior, Mine, Compare, Tell, local, Advancing
<1>4. chain'.block \in Nat /\ seen' \in Nat
  BY DEF ChainIInv, TestChainTypeOK, State
<1>5. CASE Enter \/ While \/ Prior \/ Compare
  <2>1. UNCHANGED <<chain, seen>>
    BY <1>5 DEF Enter, While, Prior, Compare, node
  <2>2. Stage' \in Int /\ Stage \in Int /\ Stage' < Stage
    BY <1>5 DEF Enter, While, Prior, Compare, Stage
  <2> QED BY <1>2, <1>3, <2>1, <2>2 DEF StepsLeft
<1>6. CASE Mine
  <2>1. pc = "mine" /\ pc' = "compare" /\ chain'.block = chain.block + 1
    BY <1>6 DEF Mine, MineBlock
  <2>2. seen' = seen \/ seen' = chain.block + 1
    BY <1>6 DEF Mine, MineBlock
  <2>3. Stage = 0 /\ Stage' = 4
    BY <2>1 DEF Stage
  <2>4. seen <= chain.block
    BY DEF ChainIInv, NodeInv
  <2> QED BY <1>2, <1>3, <1>4, <2>1, <2>2, <2>3, <2>4 DEF StepsLeft
<1>7. CASE Tell
  <2>1. seen < seen' /\ UNCHANGED <<chain, pc>>
    BY <1>2, <1>7 DEF Tell
  <2>2. Stage' = Stage /\ Stage \in Int
    BY <2>1 DEF Stage
  <2> QED BY <1>2, <1>3, <1>4, <2>1, <2>2 DEF StepsLeft
<1> QED BY <1>1, <1>5, <1>6, <1>7 DEF Advance

(***************************************************************************)
(* helpers/misc-utils.ts: on a node that is late with at most MaxLate      *)
(* blocks, the recursion of advanceBlock in the loop of advanceBlockTo     *)
(* makes progress with every read, although each is a request of its own   *)
(* and the node may catch up between any two or never: the measure of      *)
(* AdvanceEnds, of which only the last step, that a decreasing number and  *)
(* a fair loop come to an end, is left to the runs.                        *)
(***************************************************************************)
THEOREM AdvanceMakesProgress == ASSUME Network = "hardhat" PROVE Spec => AdvanceGetsCloser
<1>1. ChainIInv /\ ChainIInv' /\ [Next]_vars =>
        [Advancing =>
           /\ StepsLeft \in Nat
           /\ pc' # "tests" => Advancing' /\ StepsLeft' < StepsLeft]_vars
  BY AdvancingIsBounded, AdvanceStepCloser
<1> QED BY <1>1, AlwaysChainIInv, PTL DEF Spec, AdvanceGetsCloser
=============================================================================
