------------------------ MODULE GovernancePower_proofs ------------------------
(***************************************************************************)
(* Proofs about GovernancePower, for any accounts, any number of blocks    *)
(* and any amounts, for voting and for proposition power.                  *)
(*                                                                         *)
(* Every write of a snapshot goes through writeSnapshot, so one lemma about*)
(* a single list (WriteKeepsRecords) carries the first part: what is       *)
(* written keeps the list ordered and leaves the past as it was.  The two  *)
(* hooks and delegateByType only have to be shown to write natural numbers *)
(* (the SafeMath subs), which takes the types: PowerIInv is types and      *)
(* order.                                                                  *)
(*                                                                         *)
(* That power is the delegated stake takes more (StakeIInv): a delegation  *)
(* leaves a list with the delegator and with the delegatee, so whoever has *)
(* no list represents himself and nobody else, and the balance that counts *)
(* in place of a list moves as his power does.  Every step then either     *)
(* passes an amount of power from one account to another (Passed) or opens *)
(* a block, which are the steps of PowerHistory.  So no token votes twice, *)
(* no hook reverts, and the hooks take every step of StakeLedger.          *)
(***************************************************************************)
EXTENDS GovernancePower, SumTheorems

------------------------------------------------------------------------------
(* One list of snapshots: whatever is written to it, it stays ordered by   *)
(* block and keeps what it says of the blocks that are over; and on an     *)
(* ordered list the binary search finds what it records.                   *)

\* A set of positions has a last one.  (By the well-foundedness of strict
\* inclusion: some tail of the set contains no smaller tail.)
LEMMA LastPositionExists ==
  ASSUME NEW n \in Nat, NEW S \in SUBSET (1 .. n), S # {}
  PROVE  \E m \in S : \A j \in S : j <= m
<1> DEFINE above(m) == {j \in S : j > m}
           tails == {above(m) : m \in S}
<1>1. tails # {} /\ tails \subseteq FiniteSubsetsOf(S)
  <2>1. IsFiniteSet(1 .. n)
    BY FS_Interval
  <2>2. \A m \in S : above(m) \subseteq 1 .. n
    OBVIOUS
  <2>3. \A m \in S : IsFiniteSet(above(m))
    BY <2>1, <2>2, FS_Subset
  <2> QED  BY <2>3 DEF FiniteSubsetsOf
<1>2. PICK t \in tails : \A s \in tails : <<s, t>> \notin StrictSubsetOrdering(S)
  <2> HIDE DEF tails
  <2> QED  BY <1>1, FS_StrictSubsetOrderingWellFounded, WFMin
<1>3. PICK m \in S : t = above(m)
  OBVIOUS
<1>4. ASSUME NEW k \in S, k > m
      PROVE  FALSE
  <2>1. m \in Int /\ S \subseteq Int
    OBVIOUS
  <2>2. k > m /\ ~(k > k)
    BY <1>4, <2>1
  <2>3. \A j \in S : j > k => j > m
    BY <2>1, <2>2
  <2>4. above(k) \subseteq above(m)
    BY <2>3
  <2>5. k \in above(m) /\ k \notin above(k)
    BY <2>2
  <2>6. <<above(k), above(m)>> \in StrictSubsetOrdering(S)
    BY <2>4, <2>5 DEF StrictSubsetOrdering
  <2> QED  BY <1>2, <1>3, <2>6
<1>5. \A k \in S : k <= m
  BY <1>4
<1> QED  BY <1>5

\* Two lists that agree on the snapshots taken up to a block record the same
\* value for it.
LEMMA RecordDependsOnTaken ==
  ASSUME NEW list \in Seq(Snapshot), NEW after \in Seq(Snapshot), NEW b \in Nat,
         {i \in DOMAIN after : after[i].blockNumber <= b}
           = {i \in DOMAIN list : list[i].blockNumber <= b},
         \A i \in DOMAIN list : list[i].blockNumber <= b => after[i] = list[i]
  PROVE  RecordedValue(after, b) = RecordedValue(list, b)
<1> DEFINE taken == {i \in DOMAIN list : list[i].blockNumber <= b}
           last == CHOOSE i \in taken : \A j \in taken : j <= i
<1>1. CASE taken = {}
  BY <1>1 DEF RecordedValue
<1>2. CASE taken # {}
  <2>1. Len(list) \in Nat /\ taken \subseteq 1 .. Len(list)
    OBVIOUS
  <2>2. \E m \in taken : \A j \in taken : j <= m
    BY <1>2, <2>1, LastPositionExists
  <2>3. last \in taken
    BY <2>2
  <2>4. after[last] = list[last]
    BY <2>3
  <2>5. RecordedValue(list, b) = list[last].value
    BY <1>2 DEF RecordedValue
  <2>6. RecordedValue(after, b) = after[last].value
    BY <1>2 DEF RecordedValue
  <2> QED  BY <2>4, <2>5, <2>6
<1> QED  BY <1>1, <1>2

\* What _writeSnapshot leaves behind is ordered, and says the same of every
\* block that is over: it appends or overwrites at the present block only.
LEMMA WriteKeepsRecords ==
  ASSUME NEW list \in Seq(Snapshot), NEW blk \in Nat, NEW v \in Nat, Ordered(list, blk)
  PROVE  /\ writeSnapshot(list, blk, v) \in Seq(Snapshot)
         /\ Ordered(writeSnapshot(list, blk, v), blk)
         /\ \A b \in Nat : b < blk =>
              RecordedValue(writeSnapshot(list, blk, v), b) = RecordedValue(list, b)
<1> DEFINE after == writeSnapshot(list, blk, v)
<1> DEFINE n == Len(list)
<1>a. n \in Nat /\ DOMAIN list = 1 .. n /\ n = Len(list)
  OBVIOUS
<1> HIDE DEF n
<1>b. \A i \in 1 .. n : list[i] \in Snapshot
  BY <1>a
<1>c. \A i \in 1 .. n : list[i].blockNumber \in Nat /\ list[i].blockNumber <= blk
  BY <1>a, <1>b DEF Ordered, Snapshot
<1>d. \A i, j \in 1 .. n : i < j => list[i].blockNumber < list[j].blockNumber
  BY <1>a DEF Ordered
<1>1. CASE list # <<>> /\ LastOf(list).blockNumber = blk
  <2>1. n \in 1 .. n /\ list[n].blockNumber = blk
    BY <1>a, <1>1 DEF LastOf
  <2>2. after = [list EXCEPT ![n].value = v]
    BY <1>a, <1>1 DEF writeSnapshot
  <2> HIDE DEF after
  <2>3. /\ DOMAIN after = 1 .. n
        /\ \A i \in 1 .. n : i # n => after[i] = list[i]
        /\ after[n] = [list[n] EXCEPT !.value = v]
    BY <1>a, <2>1, <2>2
  <2>4. \A i \in 1 .. n : after[i] \in Snapshot /\ after[i].blockNumber = list[i].blockNumber
    <3>1. after[n] \in Snapshot /\ after[n].blockNumber = list[n].blockNumber
      BY <1>b, <2>1, <2>3 DEF Snapshot
    <3> QED  BY <1>b, <2>3, <3>1
  <2>5. after \in Seq(Snapshot)
    <3>1. after \in [1 .. n -> Snapshot]
      BY <1>a, <2>2, <2>3, <2>4
    <3> QED  BY <1>a, <3>1
  <2>6. Ordered(after, blk)
    BY <1>c, <1>d, <2>3, <2>4 DEF Ordered
  <2>7. ASSUME NEW b \in Nat, b < blk
        PROVE  RecordedValue(after, b) = RecordedValue(list, b)
    <3>1. \A i \in 1 .. n : list[i].blockNumber <= b => after[i] = list[i]
      BY <1>a, <2>1, <2>3, <2>7
    <3>2. {i \in DOMAIN after : after[i].blockNumber <= b}
            = {i \in DOMAIN list : list[i].blockNumber <= b}
      BY <1>a, <2>3, <2>4
    <3> QED  BY <1>a, <2>5, <3>1, <3>2, RecordDependsOnTaken
  <2> QED  BY <2>5, <2>6, <2>7 DEF after
<1>2. CASE ~(list # <<>> /\ LastOf(list).blockNumber = blk)
  <2> DEFINE new == [blockNumber |-> blk, value |-> v]
  <2>1. after = Append(list, new) /\ new \in Snapshot
    BY <1>2 DEF writeSnapshot, Snapshot
  <2> HIDE DEF after
  <2>2. /\ DOMAIN after = 1 .. n + 1
        /\ \A i \in 1 .. n : after[i] = list[i]
        /\ after[n + 1] = new
        /\ after \in Seq(Snapshot)
    BY <1>a, <2>1
  <2>3. \A i \in 1 .. n : list[i].blockNumber < blk
    <3>1. CASE n = 0
      BY <3>1
    <3>2. CASE n # 0
      <4>1. n \in 1 .. n /\ list # <<>>
        BY <1>a, <1>b, <1>c, <1>d, <3>2
      <4>2. list[n].blockNumber < blk
        BY <1>a, <1>b, <1>c, <1>d, <1>2, <4>1 DEF LastOf
      <4>3. ASSUME NEW i \in 1 .. n, i # n
            PROVE  list[i].blockNumber < blk
        <5>1. i < n
          <6>1. n \in Nat
            BY <1>a
          <6>2. i \in Int /\ i <= n
            BY <6>1
          <6> QED  BY <4>3, <6>1, <6>2
        <5>2. list[i].blockNumber < list[n].blockNumber
          BY <1>d, <4>1, <5>1
        <5>3. list[i].blockNumber \in Nat /\ list[n].blockNumber \in Nat
          BY <1>c, <4>1
        <5> QED  BY <4>2, <5>2, <5>3
      <4> QED  BY <4>2, <4>3
    <3> QED  BY <3>1, <3>2
  <2>4. \A i \in 1 .. n + 1 : i \in 1 .. n \/ i = n + 1
    BY <1>a, <1>b, <1>c, <1>d
  <2>5. Ordered(after, blk)
    <3>1. \A i \in 1 .. n + 1 : after[i].blockNumber <= blk
      BY <1>a, <1>b, <1>c, <1>d, <2>2, <2>4
    <3>2. ASSUME NEW i \in 1 .. n + 1, NEW j \in 1 .. n + 1, i < j
          PROVE  after[i].blockNumber < after[j].blockNumber
      <4>1. i \in 1 .. n
        BY <1>a, <1>b, <1>c, <1>d, <3>2
      <4>2. CASE j \in 1 .. n
        BY <1>a, <1>b, <1>c, <1>d, <2>2, <3>2, <4>1, <4>2
      <4>3. CASE j = n + 1
        BY <2>2, <2>3, <4>1, <4>3
      <4> QED  BY <2>4, <4>2, <4>3
    <3> QED  BY <2>2, <3>1, <3>2 DEF Ordered
  <2>6. ASSUME NEW b \in Nat, b < blk
        PROVE  RecordedValue(after, b) = RecordedValue(list, b)
    <3>1. ~(after[n + 1].blockNumber <= b)
      BY <2>2, <2>6
    <3>2. {i \in DOMAIN after : after[i].blockNumber <= b}
            = {i \in DOMAIN list : list[i].blockNumber <= b}
      BY <1>a, <1>b, <1>c, <1>d, <2>2, <2>4, <3>1
    <3> QED  BY <1>a, <1>b, <1>c, <1>d, <2>2, <3>2, RecordDependsOnTaken
  <2> QED  BY <2>2, <2>5, <2>6 DEF after
<1> QED  BY <1>1, <1>2

------------------------------------------------------------------------------
(* The binary search *)

Center(lower, upper) == upper - (upper - lower) \div 2

\* The equation of the search, and what it says of two bounds
IsSearch(list, b, f) ==
  f = [bounds \in (1 .. Len(list)) \X (1 .. Len(list)) |->
         LET lower == bounds[1]
             upper == bounds[2]
             center == upper - (upper - lower) \div 2
             snapshot == list[center]
         IN  IF upper <= lower THEN list[lower].value
             ELSE IF snapshot.blockNumber = b THEN snapshot.value
             ELSE IF snapshot.blockNumber < b THEN f[<<center, upper>>]
             ELSE f[<<lower, center - 1>>]]

Looked(list, b, f, lower, upper) ==
  IF upper <= lower THEN list[lower].value
  ELSE IF list[Center(lower, upper)].blockNumber = b THEN list[Center(lower, upper)].value
  ELSE IF list[Center(lower, upper)].blockNumber < b THEN f[<<Center(lower, upper), upper>>]
  ELSE f[<<lower, Center(lower, upper) - 1>>]

\* The bounds close in: the search ends.
LEMMA CenterBetween ==
  ASSUME NEW lower \in Int, NEW upper \in Int, lower < upper
  PROVE  Center(lower, upper) \in Int /\ lower < Center(lower, upper) /\ Center(lower, upper) <= upper
BY DEF Center

LEMMA SearchEquation ==
  ASSUME NEW list, NEW b, NEW f, IsSearch(list, b, f),
         NEW lower \in 1 .. Len(list), NEW upper \in 1 .. Len(list)
  PROVE  f[<<lower, upper>>] = Looked(list, b, f, lower, upper)
<1>. DEFINE G(r) ==
       LET l == r[1]
           u == r[2]
           center == u - (u - l) \div 2
           snapshot == list[center]
       IN  IF u <= l THEN list[l].value
           ELSE IF snapshot.blockNumber = b THEN snapshot.value
           ELSE IF snapshot.blockNumber < b THEN f[<<center, u>>]
           ELSE f[<<l, center - 1>>]
<1>1. f = [r \in (1 .. Len(list)) \X (1 .. Len(list)) |-> G(r)]
  BY DEF IsSearch
<1>2. <<lower, upper>> \in (1 .. Len(list)) \X (1 .. Len(list))
  OBVIOUS
<1>3. f[<<lower, upper>>] = G(<<lower, upper>>)
  <2>. HIDE DEF G
  <2>. QED  BY <1>1, <1>2
<1>. QED
  BY <1>3 DEF Looked, Center

\* On an ordered list the snapshots taken in a block or before it are the first
\* ones, up to a last position.
LEMMA TakenUpTo ==
  ASSUME NEW list \in Seq(Snapshot), NEW now \in Nat, Ordered(list, now), NEW b \in Nat
  PROVE  \E last \in 0 .. Len(list) :
           \A i \in 1 .. Len(list) : (list[i].blockNumber <= b) <=> (i <= last)
<1>. DEFINE n == Len(list)
            taken == {i \in 1 .. n : list[i].blockNumber <= b}
<1>1. n \in Nat /\ DOMAIN list = 1 .. n
  OBVIOUS
<1>2. \A i, j \in 1 .. n : i < j => list[i].blockNumber < list[j].blockNumber
  BY <1>1 DEF Ordered
<1>3. \A i \in 1 .. n : list[i].blockNumber \in Nat
  <2>1. \A i \in 1 .. n : list[i] \in Snapshot
    BY <1>1
  <2>. QED  BY <2>1 DEF Snapshot
<1>. HIDE DEF n
<1>4. CASE taken = {}
  <2>1. 0 \in 0 .. n /\ \A i \in 1 .. n : (list[i].blockNumber <= b) <=> (i <= 0)
    BY <1>1, <1>4
  <2>. QED  BY <2>1 DEF n
<1>5. CASE taken # {}
  <2>1. PICK last \in taken : \A j \in taken : j <= last
    BY <1>1, <1>5, LastPositionExists
  <2>2. ASSUME NEW i \in 1 .. n PROVE (list[i].blockNumber <= b) <=> (i <= last)
    <3>1. last \in 1 .. n /\ list[last].blockNumber <= b
      OBVIOUS
    <3>2. i \in Int /\ last \in Int /\ (i < last \/ i = last \/ last < i)
      BY <1>1, <3>1
    <3>3. i < last => list[i].blockNumber < list[last].blockNumber
      BY <1>2, <3>1
    <3>4. list[i].blockNumber \in Nat /\ list[last].blockNumber \in Nat
      BY <1>3, <3>1
    <3>5. i <= last => list[i].blockNumber <= b
      <4>. HIDE DEF taken
      <4>. QED  BY <3>1, <3>2, <3>3, <3>4
    <3>6. list[i].blockNumber <= b => i <= last
      BY <2>1
    <3>. QED  BY <3>5, <3>6
  <2>3. last \in 0 .. n
    BY <1>1
  <2>. QED  BY <2>2, <2>3 DEF n
<1>. QED
  BY <1>4, <1>5

\* A snapshot taken in the block itself is the last one of those.
LEMMA OnlyLastAtBlock ==
  ASSUME NEW list \in Seq(Snapshot), NEW now \in Nat, Ordered(list, now), NEW b \in Nat,
         NEW last \in 0 .. Len(list),
         \A i \in 1 .. Len(list) : (list[i].blockNumber <= b) <=> (i <= last)
  PROVE  \A i \in 1 .. Len(list) : list[i].blockNumber = b => i = last
<1>. DEFINE n == Len(list)
<1>1. n \in Nat /\ DOMAIN list = 1 .. n
  OBVIOUS
<1>2. \A i \in 1 .. n : list[i].blockNumber \in Nat
  <2>1. \A i \in 1 .. n : list[i] \in Snapshot
    BY <1>1
  <2>. QED  BY <2>1 DEF Snapshot
<1>3. ASSUME NEW i \in 1 .. n, list[i].blockNumber = b, i < last PROVE FALSE
  <2>1. last \in 1 .. n
    BY <1>1, <1>3
  <2>2. list[i].blockNumber < list[last].blockNumber
    BY <1>1, <1>3, <2>1 DEF Ordered
  <2>3. list[last].blockNumber <= b
    BY <1>1, <2>1
  <2>. HIDE DEF n
  <2>. QED  BY <1>2, <1>3, <2>1, <2>2, <2>3
<1>4. \A i \in 1 .. n : list[i].blockNumber = b => i <= last
  OBVIOUS
<1>. HIDE DEF n
<1>. QED
  BY <1>1, <1>3, <1>4 DEF n

\* There is a function that satisfies the equation: the value at the last
\* position taken, or at the bound that is nearest to it.
LEMMA SearchExists ==
  ASSUME NEW list \in Seq(Snapshot), NEW now \in Nat, Ordered(list, now), NEW b \in Nat
  PROVE  \E f : IsSearch(list, b, f)
<1>. DEFINE n == Len(list)
            v(i) == list[i].value
            D == (1 .. n) \X (1 .. n)
<1>1. PICK last \in 0 .. n : \A i \in 1 .. n : (list[i].blockNumber <= b) <=> (i <= last)
  BY TakenUpTo
<1>. DEFINE found(l, u) == IF u <= l THEN v(l) ELSE IF last < l THEN v(l)
                           ELSE IF u < last THEN v(u) ELSE v(last)
            f == [r \in D |-> found(r[1], r[2])]
            G(r) ==
       LET l == r[1]
           u == r[2]
           center == u - (u - l) \div 2
           snapshot == list[center]
       IN  IF u <= l THEN list[l].value
           ELSE IF snapshot.blockNumber = b THEN snapshot.value
           ELSE IF snapshot.blockNumber < b THEN f[<<center, u>>]
           ELSE f[<<l, center - 1>>]
<1>2. n \in Nat /\ DOMAIN list = 1 .. n
  OBVIOUS
<1>3. \A i \in 1 .. n : list[i].blockNumber \in Nat
  <2>1. \A i \in 1 .. n : list[i] \in Snapshot
    BY <1>2
  <2>. QED  BY <2>1 DEF Snapshot
<1>4. \A i \in 1 .. n : list[i].blockNumber = b => i = last
  BY <1>1, OnlyLastAtBlock
<1>5. \A l, u \in 1 .. n : f[<<l, u>>] = found(l, u)
  <2>1. \A l, u \in 1 .. n : <<l, u>> \in D
    OBVIOUS
  <2>. DEFINE h(r) == found(r[1], r[2])
  <2>2. \A r \in D : f[r] = h(r)
    <3>. HIDE DEF h
    <3>. QED  BY DEF h
  <2>. QED  BY <2>1, <2>2
<1>. HIDE DEF f
<1>6. ASSUME NEW l \in 1 .. n, NEW u \in 1 .. n PROVE found(l, u) = Looked(list, b, f, l, u)
  <2>. DEFINE c == Center(l, u)
  <2>1. CASE u <= l
    BY <2>1 DEF Looked
  <2>2. CASE ~(u <= l)
    <3>1. l \in Int /\ u \in Int /\ last \in Int /\ l < u /\ c \in Int /\ l < c /\ c <= u
      BY <1>2, <2>2, CenterBetween
    <3>2. c \in 1 .. n /\ c - 1 \in 1 .. n
      BY <1>2, <3>1
    <3>3. /\ list[c].blockNumber \in Nat
          /\ (list[c].blockNumber <= b) <=> (c <= last)
          /\ list[c].blockNumber = b => c = last
      BY <1>1, <1>3, <1>4, <3>2
    <3>4. f[<<c, u>>] = found(c, u) /\ f[<<l, c - 1>>] = found(l, c - 1)
      BY <1>5, <3>2
    <3>5. Looked(list, b, f, l, u)
            = IF list[c].blockNumber = b THEN v(c)
              ELSE IF list[c].blockNumber < b THEN f[<<c, u>>]
              ELSE f[<<l, c - 1>>]
      BY <2>2 DEF Looked
    <3>. HIDE DEF c, n, v
    <3>6. CASE list[c].blockNumber = b
      BY <2>2, <3>1, <3>3, <3>5, <3>6
    <3>7. CASE list[c].blockNumber # b /\ list[c].blockNumber < b
      BY <2>2, <3>1, <3>3, <3>4, <3>5, <3>7
    <3>8. CASE list[c].blockNumber # b /\ ~(list[c].blockNumber < b)
      BY <2>2, <3>1, <3>3, <3>4, <3>5, <3>8
    <3>. QED  BY <3>6, <3>7, <3>8
  <2>. QED  BY <2>1, <2>2
<1>7. ASSUME NEW r \in D PROVE found(r[1], r[2]) = G(r)
  <2>1. r[1] \in 1 .. n /\ r[2] \in 1 .. n
    OBVIOUS
  <2>2. found(r[1], r[2]) = Looked(list, b, f, r[1], r[2])
    BY <1>6, <2>1
  <2>3. Looked(list, b, f, r[1], r[2]) = G(r)
    BY DEF Looked, Center
  <2>. QED  BY <2>2, <2>3
<1>8. f = [r \in D |-> G(r)]
  <2>. HIDE DEF G, found
  <2>. QED  BY <1>7 DEF f
<1>. QED
  BY <1>8 DEF IsSearch

\* A search whose bounds enclose the last position taken returns its value.
LEMMA SearchFinds ==
  ASSUME NEW list \in Seq(Snapshot), NEW b \in Nat, NEW f, IsSearch(list, b, f),
         NEW last \in 1 .. Len(list),
         \A i \in 1 .. Len(list) : list[i].blockNumber <= b <=> i <= last,
         \A i \in 1 .. Len(list) : list[i].blockNumber = b => i = last
  PROVE  f[<<1, Len(list)>>] = list[last].value
<1>. DEFINE n == Len(list)
            wrong == {s \in SUBSET (1 .. n) :
                        \E l, u \in 1 .. n : /\ s = l .. u /\ l <= last /\ last <= u
                                             /\ f[<<l, u>>] # list[last].value}
<1>1. n \in Nat /\ last \in 1 .. n
  OBVIOUS
<1>2. SUFFICES ASSUME wrong # {} PROVE FALSE
  <2>1. 1 \in 1 .. n /\ n \in 1 .. n /\ 1 <= last /\ last <= n /\ 1 .. n \in SUBSET (1 .. n)
    <3>. HIDE DEF n
    <3>. QED  BY <1>1
  <2>2. f[<<1, n>>] # list[last].value => 1 .. n \in wrong
    BY <2>1
  <2>. QED  BY <2>2
<1>3. PICK s \in wrong : \A t \in wrong : t \subseteq s => t = s
  <2>. DEFINE positions == 1 .. n
  <2>1. IsFiniteSet(positions) /\ wrong \in SUBSET SUBSET positions
    BY <1>1, FS_Interval
  <2>. HIDE DEF wrong, positions
  <2>. QED  BY <1>2, <2>1, SmallestSet
<1>4. PICK l \in 1 .. n, u \in 1 .. n :
        s = l .. u /\ l <= last /\ last <= u /\ f[<<l, u>>] # list[last].value
  OBVIOUS
<1>. HIDE DEF wrong
<1>5. f[<<l, u>>] = Looked(list, b, f, l, u)
  BY SearchEquation
<1>6. ~(u <= l)
  <2>1. u <= l => l = last
    BY <1>1, <1>4
  <2>2. u <= l => f[<<l, u>>] = list[l].value
    BY <1>5 DEF Looked
  <2>. QED  BY <1>4, <2>1, <2>2
<1>. DEFINE c == Center(l, u)
<1>7. /\ l \in Int /\ u \in Int /\ last \in Int /\ c \in Int /\ l < c /\ c <= u
      /\ c \in 1 .. n /\ c - 1 \in 1 .. n
  <2>1. l \in Int /\ u \in Int /\ last \in Int /\ l < u
    BY <1>1, <1>6
  <2>2. c \in Int /\ l < c /\ c <= u
    BY <2>1, CenterBetween
  <2>. HIDE DEF c, n
  <2>. QED  BY <1>1, <2>1, <2>2
<1>8. f[<<l, u>>] = IF list[c].blockNumber = b THEN list[c].value
                    ELSE IF list[c].blockNumber < b THEN f[<<c, u>>]
                    ELSE f[<<l, c - 1>>]
  BY <1>5, <1>6 DEF Looked
<1>9. list[c].blockNumber <= b <=> c <= last
  BY <1>7
<1>10. list[c].blockNumber = b => c = last
  BY <1>7
<1>11. list[c].blockNumber \in Nat
  <2>1. list[c] \in Snapshot
    BY <1>7
  <2>. QED  BY <2>1 DEF Snapshot
<1>. HIDE DEF c, n
\* Narrower bounds that enclose the last position are not wrong.
<1>12. ASSUME NEW i \in 1 .. n, NEW j \in 1 .. n, i <= last, last <= j, l <= i, j <= u,
              i # l \/ j # u
       PROVE  f[<<i, j>>] = list[last].value
  <2>1. i .. j \subseteq l .. u /\ i .. j \in SUBSET (1 .. n)
    BY <1>1, <1>7, <1>12
  <2>2. i .. j # l .. u
    BY <1>1, <1>7, <1>12
  <2>3. i .. j \notin wrong
    BY <1>3, <1>4, <2>1, <2>2
  <2>. QED  BY <1>12, <2>1, <2>3 DEF wrong
<1>13. CASE list[c].blockNumber = b
  BY <1>4, <1>8, <1>10, <1>13
<1>14. CASE list[c].blockNumber # b /\ list[c].blockNumber < b
  <2>1. f[<<c, u>>] = list[last].value
    BY <1>4, <1>7, <1>9, <1>11, <1>12, <1>14
  <2>. QED  BY <1>4, <1>8, <1>14, <2>1
<1>15. CASE list[c].blockNumber # b /\ ~(list[c].blockNumber < b)
  <2>1. f[<<l, c - 1>>] = list[last].value
    BY <1>4, <1>7, <1>9, <1>11, <1>12, <1>15
  <2>. QED  BY <1>4, <1>8, <1>15, <2>1
<1>. QED
  BY <1>13, <1>14, <1>15

\* _searchByBlockNumber returns what the list records for the block.
LEMMA SearchReturnsRecord ==
  ASSUME NEW list \in Seq(Snapshot), NEW now \in Nat, Ordered(list, now), NEW b \in Nat,
         list # <<>>, NEW balance
  PROVE  searchByBlockNumber(list, balance, b) = RecordedValue(list, b)
<1>. DEFINE n == Len(list)
            taken == {i \in DOMAIN list : list[i].blockNumber <= b}
<1>1. n \in Nat /\ DOMAIN list = 1 .. n /\ 1 \in 1 .. n /\ n \in 1 .. n
  OBVIOUS
<1>2. PICK last \in 0 .. n : \A i \in 1 .. n : (list[i].blockNumber <= b) <=> (i <= last)
  BY TakenUpTo
<1>3. \A i \in 1 .. n : list[i].blockNumber \in Nat
  <2>1. \A i \in 1 .. n : list[i] \in Snapshot
    BY <1>1
  <2>. QED  BY <2>1 DEF Snapshot
<1>4. last # 0 => RecordedValue(list, b) = list[last].value
  <2>1. SUFFICES ASSUME last # 0 PROVE RecordedValue(list, b) = list[last].value
    OBVIOUS
  <2>. DEFINE m == CHOOSE i \in taken : \A j \in taken : j <= i
  <2>2. last \in taken /\ \A j \in taken : j <= last
    BY <1>1, <1>2, <2>1
  <2>3. m \in taken /\ \A j \in taken : j <= m
    <3>. HIDE DEF taken
    <3>. QED  BY <2>2
  <2>4. m = last
    BY <1>1, <2>2, <2>3
  <2>5. RecordedValue(list, b) = list[m].value
    BY <2>2 DEF RecordedValue
  <2>. QED  BY <2>4, <2>5
<1>5. last = 0 => RecordedValue(list, b) = 0
  <2>1. last = 0 => taken = {}
    BY <1>1, <1>2
  <2>. QED  BY <2>1 DEF RecordedValue
<1>6. CASE LastOf(list).blockNumber <= b
  <2>1. last = n /\ last # 0
    <3>1. list[n].blockNumber <= b
      BY <1>6 DEF LastOf
    <3>2. n <= last
      BY <1>1, <1>2, <3>1
    <3>. HIDE DEF n
    <3>. QED  BY <1>1, <3>2
  <2>. QED  BY <1>4, <1>6, <2>1 DEF searchByBlockNumber, LastOf
<1>7. CASE ~(LastOf(list).blockNumber <= b) /\ list[1].blockNumber > b
  <2>1. ~(list[1].blockNumber <= b)
    BY <1>1, <1>3, <1>7
  <2>2. last = 0
    BY <1>1, <1>2, <2>1
  <2>. QED  BY <1>5, <1>7, <2>2 DEF searchByBlockNumber
<1>8. CASE ~(LastOf(list).blockNumber <= b) /\ ~(list[1].blockNumber > b)
  <2>1. list[1].blockNumber <= b
    BY <1>1, <1>3, <1>8
  <2>2. last \in 1 .. n
    BY <1>1, <1>2, <2>1
  <2>3. \A i \in 1 .. n : list[i].blockNumber = b => i = last
    BY <1>1, <1>2, <1>3, <2>2, OnlyLastAtBlock
  <2>. DEFINE f == CHOOSE g : IsSearch(list, b, g)
  <2>4. IsSearch(list, b, f)
    BY SearchExists
  <2>5. binarySearch(list, b) = f[<<1, n>>]
    BY DEF binarySearch, IsSearch
  <2>. HIDE DEF f
  <2>6. binarySearch(list, b) = list[last].value
    BY <1>2, <2>2, <2>3, <2>4, <2>5, SearchFinds
  <2>. QED  BY <1>4, <1>8, <2>2, <2>6 DEF searchByBlockNumber
<1>. QED
  BY <1>6, <1>7, <1>8

------------------------------------------------------------------------------
(* All lists *)

PowerIInv == TypeOK /\ SnapshotsOrdered

\* What a step in the present block may do to the list of one account
WellWritten(before, after) ==
  /\ after \in Seq(Snapshot)
  /\ Ordered(after, block)
  /\ \A b \in Nat : b < block => RecordedValue(after, b) = RecordedValue(before, b)

\* ... and to all of them
ListsWellWritten ==
  /\ snapshots' \in [User -> Seq(Snapshot)]
  /\ \A u \in User : WellWritten(snapshots[u], snapshots'[u])

------------------------------------------------------------------------------
(* The writes *)

LEMMA BlockIsNat == ASSUME TypeOK PROVE block \in Nat
BY BlocksAssumption DEF TypeOK

\* A list that is left alone, or written once, is well written.
LEMMA ListWellWritten ==
  ASSUME PowerIInv, NEW u \in User
  PROVE  /\ snapshots[u] \in Seq(Snapshot)
         /\ WellWritten(snapshots[u], snapshots[u])
         /\ \A v \in Nat : WellWritten(snapshots[u], writeSnapshot(snapshots[u], block, v))
<1>1. block \in Nat /\ snapshots[u] \in Seq(Snapshot) /\ Ordered(snapshots[u], block)
  BY BlockIsNat DEF PowerIInv, TypeOK, SnapshotsOrdered
<1> QED  BY <1>1, WriteKeepsRecords DEF WellWritten

\* The power a move starts from is a number.
LEMMA PreviousIsNat ==
  ASSUME TypeOK, NEW u \in User
  PROVE  previous(snapshots, balances, u) \in Nat
<1>1. CASE snapshots[u] # <<>>
  <2>1. snapshots[u] \in Seq(Snapshot)
    BY DEF TypeOK
  <2>2. LastOf(snapshots[u]) \in Snapshot
    BY <1>1, <2>1 DEF LastOf
  <2> QED  BY <1>1, <2>2 DEF previous, Snapshot
<1>2. CASE snapshots[u] = <<>>
  BY <1>2 DEF previous, TypeOK
<1> QED  BY <1>1, <1>2

\* _moveDelegatesByType, as both the hook and delegateByType call it
LEMMA MoveWritesWell ==
  ASSUME PowerIInv,
         NEW from \in User \cup {NoOne}, NEW to \in User \cup {NoOne}, NEW amount \in Nat,
         CanMove(snapshots, balances, from, to, amount),
         snapshots' = moveDelegates(snapshots, balances, from, to, amount, block)
  PROVE  ListsWellWritten
<1> DEFINE before(u) == previous(snapshots, balances, u)
<1>1. DOMAIN snapshots = User
  BY DEF PowerIInv, TypeOK
<1>2. CASE from = to
  <2>1. snapshots' = snapshots
    BY <1>2 DEF moveDelegates
  <2> QED  BY <2>1, ListWellWritten DEF ListsWellWritten, PowerIInv, TypeOK
<1>3. CASE from # to
  <2>1. snapshots' = [u \in User |->
                        CASE u = from -> writeSnapshot(snapshots[u], block, before(u) - amount)
                          [] u = to   -> writeSnapshot(snapshots[u], block, before(u) + amount)
                          [] OTHER    -> snapshots[u]]
    BY <1>1, <1>3 DEF moveDelegates
  <2>2. ASSUME NEW u \in User
        PROVE  WellWritten(snapshots[u], snapshots'[u])
    <3>1. before(u) \in Nat
      BY PreviousIsNat DEF PowerIInv
    <3> HIDE DEF before
    <3>2. CASE u = from
      <4>1. amount <= before(u)
        BY <1>3, <3>2, NoOneAssumption DEF CanMove, before
      <4>2. before(u) - amount \in Nat
        BY <3>1, <4>1
      <4>3. snapshots'[u] = writeSnapshot(snapshots[u], block, before(u) - amount)
        BY <1>3, <2>1, <3>2
      <4> QED  BY <4>2, <4>3, ListWellWritten
    <3>3. CASE u # from /\ u = to
      <4>1. before(u) + amount \in Nat
        BY <3>1
      <4>2. snapshots'[u] = writeSnapshot(snapshots[u], block, before(u) + amount)
        BY <2>1, <3>3
      <4> QED  BY <4>1, <4>2, ListWellWritten
    <3>4. CASE u # from /\ u # to
      BY <2>1, <3>4, ListWellWritten
    <3> QED  BY <3>2, <3>3, <3>4
  <2>3. snapshots' \in [User -> Seq(Snapshot)]
    <3>1. \A u \in User : snapshots'[u] \in Seq(Snapshot)
      BY <2>2 DEF WellWritten
    <3>2. snapshots' = [u \in User |-> snapshots'[u]]
      BY <2>1
    <3> QED  BY <3>1, <3>2
  <2> QED  BY <2>2, <2>3 DEF ListsWellWritten
<1> QED  BY <1>2, <1>3

\* The hook of the first implementation
LEMMA BalancesWrittenWell ==
  ASSUME PowerIInv,
         NEW from \in User \cup {NoOne}, NEW to \in User \cup {NoOne}, NEW amount \in Nat,
         SnapshotBalances(from, to, amount)
  PROVE  ListsWellWritten
<1>1. CASE from = to
  <2>1. snapshots' = snapshots
    BY <1>1 DEF SnapshotBalances
  <2> QED  BY <2>1, ListWellWritten DEF ListsWellWritten, PowerIInv, TypeOK
<1>2. CASE from # to
  <2>1. snapshots' = [u \in User |->
                        CASE u = from -> writeSnapshot(snapshots[u], block, balances[u] - amount)
                          [] u = to   -> writeSnapshot(snapshots[u], block, balances[u] + amount)
                          [] OTHER    -> snapshots[u]]
    BY <1>2 DEF SnapshotBalances
  <2>2. ASSUME NEW u \in User
        PROVE  WellWritten(snapshots[u], snapshots'[u])
    <3>1. balances[u] \in Nat
      BY DEF PowerIInv, TypeOK
    <3>2. CASE u = from
      <4>1. balances[u] - amount \in Nat
        BY <1>2, <3>1, <3>2, NoOneAssumption DEF SnapshotBalances
      <4>2. snapshots'[u] = writeSnapshot(snapshots[u], block, balances[u] - amount)
        BY <1>2, <2>1, <3>2
      <4> QED  BY <4>1, <4>2, ListWellWritten
    <3>3. CASE u # from /\ u = to
      <4>1. balances[u] + amount \in Nat
        BY <3>1
      <4>2. snapshots'[u] = writeSnapshot(snapshots[u], block, balances[u] + amount)
        BY <2>1, <3>3
      <4> QED  BY <4>1, <4>2, ListWellWritten
    <3>4. CASE u # from /\ u # to
      BY <2>1, <3>4, ListWellWritten
    <3> QED  BY <3>2, <3>3, <3>4
  <2>3. snapshots' \in [User -> Seq(Snapshot)]
    <3>1. \A u \in User : snapshots'[u] \in Seq(Snapshot)
      BY <2>2 DEF WellWritten
    <3>2. snapshots' = [u \in User |-> snapshots'[u]]
      BY <2>1
    <3> QED  BY <3>1, <3>2
  <2> QED  BY <2>2, <2>3 DEF ListsWellWritten
<1> QED  BY <1>1, <1>2

\* A delegatee is an account.
LEMMA DelegateeType ==
  ASSUME TypeOK, NEW u \in User \cup {NoOne}
  PROVE  getDelegatee(u) \in User \cup {NoOne}
BY DEF TypeOK, getDelegatee

\* Whichever implementation runs, the hook writes well.
LEMMA HookWritesWell ==
  ASSUME PowerIInv,
         NEW from \in User \cup {NoOne}, NEW to \in User \cup {NoOne}, NEW amount \in Nat,
         beforeTokenTransfer(from, to, amount)
  PROVE  ListsWellWritten
<1>1. CASE implementation = "StakedREXV3"
  <2>1. MoveDelegatedPower(from, to, amount)
    BY <1>1 DEF beforeTokenTransfer
  <2>2. getDelegatee(from) \in User \cup {NoOne} /\ getDelegatee(to) \in User \cup {NoOne}
    BY DelegateeType DEF PowerIInv
  <2> QED  BY <2>1, <2>2, MoveWritesWell DEF MoveDelegatedPower
<1>2. CASE implementation = "StakedREX" /\ KeepsLegacySnapshots
  <2>1. SnapshotBalances(from, to, amount)
    BY <1>2 DEF beforeTokenTransfer
  <2> QED  BY <2>1, BalancesWrittenWell
<1>3. CASE implementation = "StakedREX" /\ ~KeepsLegacySnapshots
  <2>1. snapshots' = snapshots
    BY <1>3 DEF beforeTokenTransfer
  <2> QED  BY <2>1, ListWellWritten DEF ListsWellWritten, PowerIInv, TypeOK
<1> QED  BY <1>1, <1>2, <1>3 DEF PowerIInv, TypeOK

------------------------------------------------------------------------------
(* The steps *)

LEMMA InitPowerIInv == Init => PowerIInv
BY BlocksAssumption DEF Init, PowerIInv, TypeOK, SnapshotsOrdered, Ordered

\* A step within a block that writes the lists well and keeps the other types
LEMMA SameBlockStep ==
  ASSUME PowerIInv, ListsWellWritten, block' = block,
         implementation' \in {"StakedREX", "StakedREXV3"},
         balances' \in [User -> Nat],
         delegates' \in [User -> User \cup {NoOne}]
  PROVE  PowerIInv' /\ RecordsAreFinal
<1>1. TypeOK'
  BY DEF PowerIInv, TypeOK, ListsWellWritten
<1>2. SnapshotsOrdered'
  BY DEF SnapshotsOrdered, ListsWellWritten, WellWritten
<1>3. RecordsAreFinal
  <2>1. \A b \in StartBlock .. block - 1 : b \in Nat /\ b < block
    BY BlocksAssumption, BlockIsNat DEF PowerIInv
  <2> QED  BY <2>1 DEF RecordsAreFinal, ListsWellWritten, WellWritten
<1> QED  BY <1>1, <1>2, <1>3 DEF PowerIInv

LEMMA MintStep ==
  ASSUME PowerIInv, NEW u \in User, NEW amount \in Nat, mint(u, amount)
  PROVE  PowerIInv' /\ RecordsAreFinal
<1>1. ListsWellWritten
  BY HookWritesWell DEF mint
<1>2. balances' \in [User -> Nat]
  BY DEF mint, PowerIInv, TypeOK
<1> QED  BY <1>1, <1>2, SameBlockStep DEF mint, PowerIInv, TypeOK

LEMMA BurnStep ==
  ASSUME PowerIInv, NEW u \in User, NEW amount \in Nat, burn(u, amount)
  PROVE  PowerIInv' /\ RecordsAreFinal
<1>1. ListsWellWritten
  BY HookWritesWell DEF burn
<1>2. balances' \in [User -> Nat]
  BY DEF burn, PowerIInv, TypeOK
<1> QED  BY <1>1, <1>2, SameBlockStep DEF burn, PowerIInv, TypeOK

LEMMA TransferStep ==
  ASSUME PowerIInv, NEW u \in User, NEW w \in User, NEW amount \in Nat, transfer(u, w, amount)
  PROVE  PowerIInv' /\ RecordsAreFinal
<1>1. ListsWellWritten
  BY HookWritesWell DEF transfer
<1>2. balances' \in [User -> Nat]
  BY DEF transfer, PowerIInv, TypeOK
<1> QED  BY <1>1, <1>2, SameBlockStep DEF transfer, PowerIInv, TypeOK

LEMMA DelegateStep ==
  ASSUME PowerIInv, NEW u \in User, NEW w \in User, delegateByType(u, w)
  PROVE  PowerIInv' /\ RecordsAreFinal
<1>1. getDelegatee(u) \in User \cup {NoOne} /\ balances[u] \in Nat
  BY DelegateeType DEF PowerIInv, TypeOK
<1>2. ListsWellWritten
  BY <1>1, MoveWritesWell DEF delegateByType
<1> QED  BY <1>2, SameBlockStep DEF delegateByType, PowerIInv, TypeOK

LEMMA UpgradeStep ==
  ASSUME PowerIInv, upgrade
  PROVE  PowerIInv' /\ RecordsAreFinal
<1>1. ListsWellWritten
  BY ListWellWritten DEF upgrade, ListsWellWritten, PowerIInv, TypeOK
<1> QED  BY <1>1, SameBlockStep DEF upgrade, PowerIInv, TypeOK

LEMMA MineStep ==
  ASSUME PowerIInv, mine
  PROVE  PowerIInv' /\ RecordsAreFinal
<1>1. block \in Nat /\ block' = block + 1 /\ snapshots' = snapshots
  BY BlockIsNat DEF mine, PowerIInv
<1>2. TypeOK'
  BY BlocksAssumption DEF mine, PowerIInv, TypeOK
<1>3. SnapshotsOrdered'
  <2>1. ASSUME NEW u \in User
        PROVE  Ordered(snapshots[u], block + 1)
    <3>1. /\ snapshots[u] \in Seq(Snapshot)
          /\ Ordered(snapshots[u], block)
      BY DEF PowerIInv, TypeOK, SnapshotsOrdered
    <3>2. \A i \in DOMAIN snapshots[u] : snapshots[u][i] \in Snapshot
      BY <3>1
    <3>3. \A i \in DOMAIN snapshots[u] : snapshots[u][i].blockNumber \in Nat
      BY <3>2 DEF Snapshot
    <3> QED  BY <1>1, <3>1, <3>3 DEF Ordered
  <2> QED  BY <1>1, <2>1 DEF SnapshotsOrdered
<1>4. RecordsAreFinal
  BY <1>1 DEF RecordsAreFinal
<1> QED  BY <1>2, <1>3, <1>4 DEF PowerIInv

\* One step of the specification
LEMMA NextPowerIInv ==
  PowerIInv /\ [Next]_vars => PowerIInv' /\ [RecordsAreFinal]_vars
<1> SUFFICES ASSUME PowerIInv, [Next]_vars
             PROVE  PowerIInv' /\ [RecordsAreFinal]_vars
  OBVIOUS
<1>1. 1 .. MaxSupply \subseteq Nat /\ 0 .. MaxSupply \subseteq Nat
  BY SupplyAssumption
<1>2. CASE \E u \in User, amount \in 1 .. MaxSupply : mint(u, amount) \/ burn(u, amount)
  BY <1>1, <1>2, MintStep, BurnStep
<1>3. CASE \E u, w \in User, amount \in 0 .. MaxSupply : transfer(u, w, amount)
  BY <1>1, <1>3, TransferStep
<1>4. CASE \E u, w \in User : delegateByType(u, w)
  BY <1>4, DelegateStep
<1>5. CASE upgrade
  BY <1>5, UpgradeStep
<1>6. CASE mine
  BY <1>6, MineStep
<1>7. CASE UNCHANGED vars
  BY <1>7 DEF vars, PowerIInv, TypeOK, SnapshotsOrdered
<1> QED  BY <1>2, <1>3, <1>4, <1>5, <1>6, <1>7 DEF Next

------------------------------------------------------------------------------
(* The theorems *)

\* In every reachable state the variables have their types: no power and no
\* balance is ever negative, whatever the order of operations.
THEOREM PowerTypeCorrect == Spec => []TypeOK
<1>1. PowerIInv => TypeOK
  BY DEF PowerIInv
<1> QED  BY <1>1, InitPowerIInv, NextPowerIInv, PTL DEF Spec

\* In every reachable state each list is ordered by block, with one snapshot per
\* block: _searchByBlockNumber may search it by bisection.
THEOREM SnapshotsStayOrdered == Spec => []SnapshotsOrdered
<1>1. PowerIInv => SnapshotsOrdered
  BY DEF PowerIInv
<1> QED  BY <1>1, InitPowerIInv, NextPowerIInv, PTL DEF Spec

\* No step, in either implementation nor the upgrade between them, changes what
\* a list records for a block that is over.
THEOREM RecordedPowerStaysFixed == Spec => RecordedPowerFixed
BY InitPowerIInv, NextPowerIInv, PTL DEF Spec, RecordedPowerFixed

------------------------------------------------------------------------------
(* Power and stake *)

\* The power of an account in the present block is that of its last snapshot
\* or, without any, its balance.
PowerOf(u) == previous(snapshots, balances, u)

\* Whoever is represented by another has a list, and so has the other.
DelegationsRecorded ==
  \A u \in User : getDelegatee(u) # u => snapshots[u] # <<>> /\ snapshots[getDelegatee(u)] # <<>>

\* Under StakedREX nobody delegates, and the proposition power has no lists.
NothingDelegatedYet ==
  implementation = "StakedREX" =>
    \A u \in User : delegates[u] = NoOne /\ (~KeepsLegacySnapshots => snapshots[u] = <<>>)

\* Voting power: whoever has no list has never had a stake.
NoListNoStake ==
  KeepsLegacySnapshots => \A u \in User : snapshots[u] = <<>> => balances[u] = 0

StakeIInv ==
  PowerIInv /\ DelegationsRecorded /\ NothingDelegatedYet /\ NoListNoStake /\ PowerIsDelegatedStake

\* What u gains when an amount goes from one account to another
Shift(u, from, to, amount) ==
  (IF u = to THEN amount ELSE 0) - (IF u = from THEN amount ELSE 0)

BalancesMoved(from, to, amount) ==
  \A u \in User : balances'[u] = balances[u] + Shift(u, from, to, amount)

PowerMoved(from, to, amount) ==
  \A u \in User : PowerOf(u)' = PowerOf(u) + Shift(u, from, to, amount)

\* What a step within a block does to the power of all: an amount appears at
\* one account, disappears from one, or goes from one to another.
Passed ==
  /\ block' = block
  /\ \E from, to \in User \cup {NoOne}, amount \in Nat :
       /\ from = NoOne => amount <= MaxSupply
       /\ from \notin {to, NoOne} => amount <= PowerOf(from)
       /\ PowerMoved(from, to, amount)

\* Lists that exist stay; where there is none afterwards, the balance stays.
ListsKept ==
  \A u \in User :
    /\ snapshots[u] # <<>> => snapshots'[u] # <<>>
    /\ snapshots'[u] = <<>> /\ (implementation = "StakedREXV3" \/ KeepsLegacySnapshots)
         => balances'[u] = balances[u]

LEMMA CurrentIsLast ==
  ASSUME PowerIInv, NEW u \in User
  PROVE  getPowerCurrent(u) = PowerOf(u)
<1>1. snapshots[u] \in Seq(Snapshot) /\ Ordered(snapshots[u], block)
  BY DEF PowerIInv, TypeOK, SnapshotsOrdered
<1>2. CASE snapshots[u] = <<>>
  BY <1>2 DEF getPowerCurrent, getPowerAtBlock, searchByBlockNumber, PowerOf, previous
<1>3. CASE snapshots[u] # <<>>
  <2>1. Len(snapshots[u]) \in DOMAIN snapshots[u]
    BY <1>1, <1>3
  <2>2. LastOf(snapshots[u]).blockNumber <= block
    BY <1>1, <2>1 DEF Ordered, LastOf
  <2>. QED
    BY <1>3, <2>2 DEF getPowerCurrent, getPowerAtBlock, searchByBlockNumber, PowerOf, previous
<1>. QED
  BY <1>2, <1>3

\* ... and after a step
LEMMA CurrentIsLastAfter ==
  ASSUME PowerIInv', NEW u \in User
  PROVE  getPowerCurrent(u)' = PowerOf(u)'
<1>1. snapshots'[u] \in Seq(Snapshot) /\ Ordered(snapshots'[u], block')
  BY DEF PowerIInv, TypeOK, SnapshotsOrdered
<1>2. CASE snapshots'[u] = <<>>
  BY <1>2 DEF getPowerCurrent, getPowerAtBlock, searchByBlockNumber, PowerOf, previous
<1>3. CASE snapshots'[u] # <<>>
  <2>1. Len(snapshots'[u]) \in DOMAIN snapshots'[u]
    BY <1>1, <1>3
  <2>2. LastOf(snapshots'[u]).blockNumber <= block'
    BY <1>1, <2>1 DEF Ordered, LastOf
  <2>. QED
    BY <1>3, <2>2 DEF getPowerCurrent, getPowerAtBlock, searchByBlockNumber, PowerOf, previous
<1>. QED
  BY <1>2, <1>3

\* After a write the last snapshot has the value written.
LEMMA WriteSetsLast ==
  ASSUME NEW list \in Seq(Snapshot), NEW blk, NEW v
  PROVE  writeSnapshot(list, blk, v) # <<>> /\ LastOf(writeSnapshot(list, blk, v)).value = v
<1>1. CASE list # <<>> /\ LastOf(list).blockNumber = blk
  <2>. DEFINE n == Len(list)
              after == [list EXCEPT ![n].value = v]
  <2>1. n \in Nat /\ n \in 1 .. n /\ DOMAIN list = 1 .. n /\ list[n] \in Snapshot
    BY <1>1
  <2>2. writeSnapshot(list, blk, v) = after
    BY <1>1 DEF writeSnapshot
  <2>3. after[n].value = v /\ DOMAIN after = 1 .. n /\ Len(after) = n /\ after # <<>>
    <3>1. after[n] = [list[n] EXCEPT !.value = v] /\ DOMAIN after = 1 .. n
      BY <2>1
    <3>2. after[n].value = v
      BY <2>1, <3>1 DEF Snapshot
    <3>. HIDE DEF after
    <3>3. Len(after) = n
      BY <2>1, <3>1
    <3>. QED  BY <2>1, <3>1, <3>2, <3>3
  <2>. HIDE DEF after, n
  <2>. QED  BY <2>2, <2>3 DEF LastOf
<1>2. CASE ~(list # <<>> /\ LastOf(list).blockNumber = blk)
  <2>. DEFINE new == [blockNumber |-> blk, value |-> v]
              after == Append(list, new)
  <2>1. writeSnapshot(list, blk, v) = after
    BY <1>2 DEF writeSnapshot
  <2>2. after[Len(after)] = new /\ after # <<>>
    OBVIOUS
  <2>3. new.value = v
    OBVIOUS
  <2>. HIDE DEF after, new
  <2>. QED  BY <2>1, <2>2, <2>3 DEF LastOf
<1>. QED
  BY <1>1, <1>2

\* Two lists are written, one with less and one with more than the power before.
LEMMA MoveMovesPower ==
  ASSUME PowerIInv,
         NEW from \in User \cup {NoOne}, NEW to \in User \cup {NoOne}, NEW amount \in Nat,
         from # to, snapshots' = moveDelegates(snapshots, balances, from, to, amount, block),
         NEW u \in User
  PROVE  /\ u \in {from, to} =>
              snapshots'[u] # <<>> /\ LastOf(snapshots'[u]).value = PowerOf(u) + Shift(u, from, to, amount)
         /\ u \notin {from, to} => snapshots'[u] = snapshots[u]
<1>1. DOMAIN snapshots = User /\ snapshots[u] \in Seq(Snapshot) /\ PowerOf(u) \in Nat
  BY PreviousIsNat DEF PowerIInv, TypeOK, PowerOf
<1>2. snapshots'[u] =
        CASE u = from -> writeSnapshot(snapshots[u], block, PowerOf(u) - amount)
          [] u = to   -> writeSnapshot(snapshots[u], block, PowerOf(u) + amount)
          [] OTHER    -> snapshots[u]
  BY <1>1 DEF moveDelegates, PowerOf
<1>3. CASE u = from
  <2>1. snapshots'[u] = writeSnapshot(snapshots[u], block, PowerOf(u) - amount)
    BY <1>2, <1>3
  <2>2. PowerOf(u) + Shift(u, from, to, amount) = PowerOf(u) - amount
    BY <1>1, <1>3 DEF Shift
  <2>. QED  BY <1>1, <1>3, <2>1, <2>2, WriteSetsLast
<1>4. CASE u # from /\ u = to
  <2>1. snapshots'[u] = writeSnapshot(snapshots[u], block, PowerOf(u) + amount)
    BY <1>2, <1>4
  <2>2. PowerOf(u) + Shift(u, from, to, amount) = PowerOf(u) + amount
    BY <1>1, <1>4 DEF Shift
  <2>. QED  BY <1>1, <1>4, <2>1, <2>2, WriteSetsLast
<1>5. CASE u # from /\ u # to
  BY <1>2, <1>5
<1>. QED
  BY <1>3, <1>4, <1>5

\* What a set gains or loses with an amount at x
Part(R, x, amount) == IF x \in R THEN amount ELSE 0

\* The sum over any accounts follows the balances.
LEMMA SumMoved ==
  ASSUME NEW f, NEW g, NEW from, NEW to, NEW amount \in Nat,
         \A u \in User : f[u] \in Nat /\ g[u] \in Nat,
         \A u \in User : g[u] = f[u] + Shift(u, from, to, amount),
         NEW R \in SUBSET User
  PROVE  SumFunctionOnSet(g, R)
           = SumFunctionOnSet(f, R)
             + (Part(R, to, amount) - Part(R, from, amount))
<1>. DEFINE less == [u \in User |-> f[u] - (IF u = from THEN amount ELSE 0)]
            out == IF from \in R THEN amount ELSE 0
            in == IF to \in R THEN amount ELSE 0
<1>1. IsFiniteSet(R)
  BY FiniteUsersAssumption, FS_Subset
<1>2. \A u \in R : /\ f[u] \in Int /\ less[u] \in Int /\ g[u] \in Int
                   /\ less[u] = f[u] - (IF u = from THEN amount ELSE 0)
                   /\ g[u] = less[u] + (IF u = to THEN amount ELSE 0)
  <2>1. SUFFICES ASSUME NEW u \in User
        PROVE /\ f[u] \in Int /\ less[u] \in Int /\ g[u] \in Int
              /\ less[u] = f[u] - (IF u = from THEN amount ELSE 0)
              /\ g[u] = less[u] + (IF u = to THEN amount ELSE 0)
    OBVIOUS
  <2>2. f[u] \in Nat /\ g[u] \in Nat
        /\ g[u] = f[u] + Shift(u, from, to, amount)
    OBVIOUS
  <2>3. less[u] = f[u] - (IF u = from THEN amount ELSE 0)
    OBVIOUS
  <2>. HIDE DEF less
  <2>. QED  BY <2>2, <2>3 DEF Shift
<1>. HIDE DEF less
<1>3. SumFunctionOnSet(less, R) = SumFunctionOnSet(f, R) - out
  <2>0. SumFunctionOnSet(f, R) \in Int
    BY <1>1, <1>2, SumInt
  <2>1. CASE from \in R
    <3>1. \A u \in R \ {from} : less[u] = f[u]
      BY <1>2
    <3>2. \A u \in R : f[u] \in Int /\ less[u] \in Int
      BY <1>2
    <3>3. SumFunctionOnSet(less, R) = SumFunctionOnSet(f, R) + (less[from] - f[from])
      BY <1>1, <2>1, <3>1, <3>2, SumChange
    <3>. QED  BY <1>2, <2>0, <2>1, <3>3
  <2>2. CASE from \notin R
    <3>1. \A u \in R : less[u] = f[u]
      BY <1>2, <2>2
    <3>2. SumFunctionOnSet(less, R) = SumFunctionOnSet(f, R)
      BY <1>1, <1>2, <3>1, SumSame
    <3>. QED  BY <2>0, <2>2, <3>2
  <2>. QED  BY <2>1, <2>2
<1>4. SumFunctionOnSet(g, R) = SumFunctionOnSet(less, R) + in
  <2>0. SumFunctionOnSet(less, R) \in Int
    BY <1>1, <1>2, SumInt
  <2>1. CASE to \in R
    <3>1. \A u \in R \ {to} : g[u] = less[u]
      BY <1>2
    <3>2. \A u \in R : less[u] \in Int /\ g[u] \in Int
      BY <1>2
    <3>3. SumFunctionOnSet(g, R) = SumFunctionOnSet(less, R) + (g[to] - less[to])
      BY <1>1, <2>1, <3>1, <3>2, SumChange
    <3>. QED  BY <1>2, <2>0, <2>1, <3>3
  <2>2. CASE to \notin R
    <3>1. \A u \in R : g[u] = less[u]
      BY <1>2, <2>2
    <3>2. SumFunctionOnSet(g, R) = SumFunctionOnSet(less, R)
      BY <1>1, <1>2, <3>1, SumSame
    <3>. QED  BY <2>0, <2>2, <3>2
  <2>. QED  BY <2>1, <2>2
<1>5. SumFunctionOnSet(f, R) \in Int
  BY <1>1, <1>2, SumInt
<1>6. out \in Int /\ in \in Int
  OBVIOUS
<1>7. SumFunctionOnSet(g, R) = SumFunctionOnSet(f, R) + (in - out)
  <2>. HIDE DEF in, out
  <2>. QED  BY <1>3, <1>4, <1>5, <1>6
<1>. QED
  BY <1>7 DEF Part

\* Whoever has no list is represented by himself, and represents nobody else.
LEMMA NoListAlone ==
  ASSUME TypeOK, DelegationsRecorded, NEW u \in User, snapshots[u] = <<>>
  PROVE  /\ getDelegatee(u) = u
         /\ \A w \in User \cup {NoOne} : getDelegatee(w) = u => w = u
<1>1. getDelegatee(u) = u
  BY DEF DelegationsRecorded
<1>2. ASSUME NEW w \in User \cup {NoOne}, getDelegatee(w) = u, w # u PROVE FALSE
  <2>1. w # NoOne
    BY <1>2, NoOneAssumption DEF getDelegatee
  <2>. QED  BY <1>2, <2>1 DEF DelegationsRecorded
<1>. QED
  BY <1>1, <1>2

\* What the power becomes where the last snapshot is known
LEMMA PowerAfter ==
  ASSUME NEW u \in User
  PROVE  /\ snapshots'[u] # <<>> => PowerOf(u)' = LastOf(snapshots'[u]).value
         /\ snapshots'[u] = <<>> => PowerOf(u)' = balances'[u]
         /\ snapshots[u] # <<>> => PowerOf(u) = LastOf(snapshots[u]).value
         /\ snapshots[u] = <<>> => PowerOf(u) = balances[u]
BY DEF PowerOf, previous

\* Under StakedREX everybody's power is his own stake.
LEMMA OwnPower ==
  ASSUME StakeIInv, implementation = "StakedREX", NEW u \in User
  PROVE  /\ getDelegatee(u) = u /\ PowerOf(u) = balances[u]
<1>1. \A w \in User : getDelegatee(w) = w
  BY NoOneAssumption DEF StakeIInv, NothingDelegatedYet, getDelegatee
<1>2. {w \in User : getDelegatee(w) = u} = {u}
  BY <1>1
<1>3. getPowerCurrent(u) = SumFunctionOnSet(balances, {u})
  BY <1>2 DEF StakeIInv, PowerIsDelegatedStake
<1>4. SumFunctionOnSet(balances, {u}) = balances[u]
  <2>1. IsFiniteSet({u}) /\ {u} \ {u} = {}
    BY FS_Singleton
  <2>2. balances[u] \in Nat /\ \A y \in {u} : balances[y] \in Int
    BY DEF StakeIInv, PowerIInv, TypeOK
  <2>3. SumFunctionOnSet(balances, {u}) = balances[u] + SumFunctionOnSet(balances, {u} \ {u})
    BY <2>1, <2>2, SumRemove
  <2>. QED  BY <2>1, <2>2, <2>3, SumEmpty
<1>. QED
  BY <1>1, <1>3, <1>4, CurrentIsLast DEF StakeIInv

\* A move of power through _moveDelegatesByType, while balances change only as
\* the represented move them.
LEMMA DelegatedMove ==
  ASSUME PowerIInv, DelegationsRecorded,
         NEW from \in User \cup {NoOne}, NEW to \in User \cup {NoOne}, NEW amount \in Nat,
         snapshots' = moveDelegates(snapshots, balances, from, to, amount, block),
         \A u \in User : snapshots'[u] = <<>> => balances'[u] = balances[u]
  PROVE  PowerMoved(from, to, amount) /\ ListsKept
<1>1. SUFFICES ASSUME NEW u \in User
      PROVE  /\ PowerOf(u)' = PowerOf(u) + Shift(u, from, to, amount)
             /\ snapshots[u] # <<>> => snapshots'[u] # <<>>
  BY DEF PowerMoved, ListsKept
<1>2. PowerOf(u) \in Nat
  BY PreviousIsNat DEF PowerIInv, PowerOf
<1>3. CASE from = to
  <2>1. snapshots'[u] = snapshots[u]
    BY <1>3 DEF moveDelegates
  <2>2. PowerOf(u)' = PowerOf(u)
    BY <2>1, PowerAfter
  <2>3. PowerOf(u) + Shift(u, from, to, amount) = PowerOf(u)
    BY <1>2, <1>3 DEF Shift
  <2>. QED  BY <2>1, <2>2, <2>3
<1>4. CASE from # to /\ u \in {from, to}
  <2>1. snapshots'[u] # <<>> /\ LastOf(snapshots'[u]).value = PowerOf(u) + Shift(u, from, to, amount)
    BY <1>4, MoveMovesPower
  <2>. QED  BY <2>1, PowerAfter
<1>5. CASE from # to /\ u \notin {from, to}
  <2>1. snapshots'[u] = snapshots[u]
    BY <1>5, MoveMovesPower
  <2>2. PowerOf(u)' = PowerOf(u)
    BY <2>1, PowerAfter
  <2>3. PowerOf(u) + Shift(u, from, to, amount) = PowerOf(u)
    BY <1>2, <1>5 DEF Shift
  <2>. QED  BY <2>1, <2>2, <2>3
<1>. QED
  BY <1>3, <1>4, <1>5

\* The hook of StakedREXV3: power follows from delegatee to delegatee.
LEMMA HookMovesDelegated ==
  ASSUME StakeIInv,
         NEW from \in User \cup {NoOne}, NEW to \in User \cup {NoOne}, NEW amount \in Nat,
         MoveDelegatedPower(from, to, amount), BalancesMoved(from, to, amount)
  PROVE  PowerMoved(getDelegatee(from), getDelegatee(to), amount) /\ ListsKept
<1>. DEFINE df == getDelegatee(from)
            dt == getDelegatee(to)
<1>1. /\ PowerIInv /\ TypeOK /\ DelegationsRecorded
      /\ df \in User \cup {NoOne} /\ dt \in User \cup {NoOne}
      /\ snapshots' = moveDelegates(snapshots, balances, df, dt, amount, block)
  BY DelegateeType DEF StakeIInv, PowerIInv, MoveDelegatedPower
<1>2. ASSUME NEW u \in User, snapshots'[u] = <<>> PROVE balances'[u] = balances[u]
  <2>1. df = dt \/ u \notin {df, dt}
    <3>1. ASSUME df # dt, u \in {df, dt} PROVE FALSE
      <4>. HIDE DEF df, dt
      <4>1. snapshots'[u] # <<>>
        BY <1>1, <3>1, MoveMovesPower
      <4>. QED  BY <1>2, <4>1
    <3>. QED  BY <3>1
  <2>2. snapshots[u] = <<>>
    <3>1. CASE df = dt
      BY <1>1, <1>2, <3>1 DEF moveDelegates
    <3>2. CASE df # dt
      <4>. HIDE DEF df, dt
      <4>. QED  BY <1>1, <1>2, <2>1, <3>2, MoveMovesPower
    <3>. QED  BY <3>1, <3>2
  <2>3. /\ getDelegatee(u) = u
        /\ df = u => from = u
        /\ dt = u => to = u
    BY <1>1, <2>2, NoListAlone
  <2>4. from = u <=> to = u
    BY <2>1, <2>3
  <2>5. balances[u] \in Nat /\ balances'[u] = balances[u] + Shift(u, from, to, amount)
    BY <1>1 DEF BalancesMoved, TypeOK
  <2>. QED  BY <2>4, <2>5 DEF Shift
<1>. HIDE DEF df, dt
<1>3. PowerMoved(df, dt, amount) /\ ListsKept
  BY <1>1, <1>2, DelegatedMove
<1>. QED
  BY <1>3 DEF df, dt

\* The hook of StakedREX: power is the balance, with lists or without.
LEMMA HookMovesOwn ==
  ASSUME StakeIInv, implementation = "StakedREX",
         NEW from \in User \cup {NoOne}, NEW to \in User \cup {NoOne}, NEW amount \in Nat,
         beforeTokenTransfer(from, to, amount), BalancesMoved(from, to, amount)
  PROVE  PowerMoved(getDelegatee(from), getDelegatee(to), amount) /\ ListsKept
<1>1. getDelegatee(from) = from /\ getDelegatee(to) = to
  <2>1. getDelegatee(NoOne) = NoOne
    BY DEF getDelegatee
  <2>. QED  BY <2>1, OwnPower
<1>2. SUFFICES ASSUME NEW u \in User
      PROVE  /\ PowerOf(u)' = balances'[u]
             /\ snapshots[u] # <<>> => snapshots'[u] # <<>>
             /\ snapshots'[u] = <<>> /\ KeepsLegacySnapshots => balances'[u] = balances[u]
  <2>1. \A u \in User : PowerOf(u) = balances[u]
    BY OwnPower
  <2>. QED  BY <1>1, <2>1 DEF PowerMoved, ListsKept, BalancesMoved
<1>3. /\ PowerOf(u) = balances[u] /\ balances[u] \in Nat
      /\ balances'[u] = balances[u] + Shift(u, from, to, amount)
      /\ snapshots[u] \in Seq(Snapshot)
  BY OwnPower DEF StakeIInv, PowerIInv, TypeOK, BalancesMoved
<1>4. CASE ~KeepsLegacySnapshots
  <2>1. snapshots'[u] = snapshots[u] /\ snapshots[u] = <<>>
    BY <1>4 DEF beforeTokenTransfer, StakeIInv, NothingDelegatedYet
  <2>. QED  BY <1>4, <2>1, PowerAfter
<1>5. CASE KeepsLegacySnapshots /\ (from = to \/ u \notin {from, to})
  <2>1. snapshots'[u] = snapshots[u]
    BY <1>5 DEF beforeTokenTransfer, SnapshotBalances
  <2>2. balances'[u] = balances[u]
    BY <1>3, <1>5 DEF Shift
  <2>3. PowerOf(u)' = PowerOf(u)
    BY <2>1, <2>2, PowerAfter
  <2>. QED  BY <1>3, <2>1, <2>2, <2>3
<1>6. CASE KeepsLegacySnapshots /\ from # to /\ u = from
  <2>1. snapshots'[u] = writeSnapshot(snapshots[u], block, balances[u] - amount)
    BY <1>6 DEF beforeTokenTransfer, SnapshotBalances
  <2>2. balances'[u] = balances[u] - amount
    BY <1>3, <1>6 DEF Shift
  <2>. QED  BY <1>3, <2>1, <2>2, WriteSetsLast, PowerAfter
<1>7. CASE KeepsLegacySnapshots /\ from # to /\ u = to
  <2>1. snapshots'[u] = writeSnapshot(snapshots[u], block, balances[u] + amount)
    BY <1>7 DEF beforeTokenTransfer, SnapshotBalances
  <2>2. balances'[u] = balances[u] + amount
    BY <1>3, <1>7 DEF Shift
  <2>. QED  BY <1>3, <2>1, <2>2, WriteSetsLast, PowerAfter
<1>. QED
  BY <1>4, <1>5, <1>6, <1>7

\* What a mint, a burn and a transfer have in common
LEMMA TokenStep ==
  ASSUME StakeIInv, PowerIInv',
         NEW from \in User \cup {NoOne}, NEW to \in User \cup {NoOne}, NEW amount \in Nat,
         from = NoOne => amount <= MaxSupply, from \in User => amount <= balances[from],
         beforeTokenTransfer(from, to, amount), BalancesMoved(from, to, amount),
         UNCHANGED <<block, implementation, delegates>>
  PROVE  StakeIInv' /\ Passed
<1>1. PowerMoved(getDelegatee(from), getDelegatee(to), amount) /\ ListsKept
  <2>1. CASE implementation = "StakedREXV3"
    BY <2>1, HookMovesDelegated DEF beforeTokenTransfer
  <2>2. CASE implementation = "StakedREX"
    BY <2>2, HookMovesOwn
  <2>. QED  BY <2>1, <2>2 DEF StakeIInv, PowerIInv, TypeOK
<1>2. \A u \in User : getDelegatee(u)' = getDelegatee(u)
  BY DEF getDelegatee
<1>3. \A u \in User : getDelegatee(u) \in User
  BY NoOneAssumption DEF StakeIInv, PowerIInv, TypeOK, getDelegatee
<1>4. DelegationsRecorded'
  BY <1>1, <1>2, <1>3 DEF StakeIInv, DelegationsRecorded, ListsKept
<1>5. NothingDelegatedYet'
  BY DEF StakeIInv, NothingDelegatedYet, beforeTokenTransfer
<1>6. NoListNoStake'
  BY <1>1 DEF StakeIInv, NoListNoStake, ListsKept
<1>7. ASSUME NEW u \in User
      PROVE  getPowerCurrent(u)' = SumFunctionOnSet(balances', {w \in User : getDelegatee(w)' = u})
  <2>. DEFINE R == {w \in User : getDelegatee(w) = u}
              df == getDelegatee(from)
              dt == getDelegatee(to)
  <2>1. getPowerCurrent(u)' = PowerOf(u)'
    BY CurrentIsLastAfter
  <2>2. PowerOf(u)' = PowerOf(u) + Shift(u, df, dt, amount)
    BY <1>1 DEF PowerMoved
  <2>3. PowerOf(u) = SumFunctionOnSet(balances, R)
    BY CurrentIsLast DEF StakeIInv, PowerIsDelegatedStake
  <2>4. (to \in R <=> u = dt) /\ (from \in R <=> u = df)
    BY NoOneAssumption DEF getDelegatee
  <2>5. R \in SUBSET User /\ R = {w \in User : getDelegatee(w)' = u}
    BY <1>2
  <2>6. /\ \A w \in User : balances[w] \in Nat /\ balances'[w] \in Nat
        /\ \A w \in User : balances'[w] = balances[w] + Shift(w, from, to, amount)
    BY DEF StakeIInv, PowerIInv, TypeOK, BalancesMoved
  <2>. HIDE DEF R, df, dt
  <2>7. SumFunctionOnSet(balances', R) = SumFunctionOnSet(balances, R)
          + (Part(R, to, amount) - Part(R, from, amount))
    <3>. DEFINE f == balances
                g == balances'
    <3>1. /\ \A w \in User : f[w] \in Nat /\ g[w] \in Nat
          /\ \A w \in User : g[w] = f[w] + Shift(w, from, to, amount)
      BY <2>6
    <3>2. R \in SUBSET User
      BY <2>5
    <3>. HIDE DEF f, g
    <3>3. SumFunctionOnSet(g, R) = SumFunctionOnSet(f, R)
            + (Part(R, to, amount) - Part(R, from, amount))
      BY <3>1, <3>2, SumMoved
    <3>. QED  BY <3>3 DEF f, g
  <2>8. SumFunctionOnSet(balances', R) = SumFunctionOnSet(balances, R) + Shift(u, df, dt, amount)
    BY <2>4, <2>7 DEF Shift, Part
  <2>. QED  BY <2>1, <2>2, <2>3, <2>5, <2>8
<1>8. PowerIsDelegatedStake'
  BY <1>7 DEF PowerIsDelegatedStake
<1>9. Passed
  <2>. DEFINE df == getDelegatee(from)
              dt == getDelegatee(to)
  <2>1. df \in User \cup {NoOne} /\ dt \in User \cup {NoOne}
    BY DelegateeType DEF StakeIInv, PowerIInv
  <2>2. df = NoOne => amount <= MaxSupply
    BY <1>3, NoOneAssumption
  <2>3. df \notin {dt, NoOne} => amount <= PowerOf(df)
    <3>1. CASE implementation = "StakedREXV3"
      BY <3>1 DEF beforeTokenTransfer, MoveDelegatedPower, CanMove, PowerOf
    <3>2. CASE implementation = "StakedREX"
      <4>1. from = NoOne => df = NoOne
        BY DEF getDelegatee
      <4>. QED  BY <3>2, <4>1, OwnPower
    <3>. QED  BY <3>1, <3>2 DEF StakeIInv, PowerIInv, TypeOK
  <2>4. PowerMoved(df, dt, amount)
    BY <1>1
  <2>. HIDE DEF df, dt
  <2>. QED  BY <2>1, <2>2, <2>3, <2>4 DEF Passed
<1>. QED
  BY <1>4, <1>5, <1>6, <1>8, <1>9 DEF StakeIInv

\* _delegateByType: the delegator's stake goes to another delegatee.
LEMMA DelegationStep ==
  ASSUME StakeIInv, PowerIInv', NEW d \in User, NEW w \in User, delegateByType(d, w)
  PROVE  StakeIInv' /\ Passed
<1>. DEFINE df == getDelegatee(d)
            amount == balances[d]
<1>1. /\ PowerIInv /\ TypeOK /\ DelegationsRecorded
      /\ balances \in [User -> Nat] /\ delegates \in [User -> User \cup {NoOne}]
      /\ df \in User \cup {NoOne} /\ amount \in Nat
      /\ implementation = "StakedREXV3" /\ implementation' = implementation
      /\ snapshots' = moveDelegates(snapshots, balances, df, w, amount, block)
      /\ delegates' = [delegates EXCEPT ![d] = w] /\ balances' = balances
  BY DelegateeType DEF StakeIInv, PowerIInv, TypeOK, delegateByType
<1>2. PowerMoved(df, w, amount) /\ ListsKept
  <2>. HIDE DEF df, amount
  <2>. QED  BY <1>1, DelegatedMove
<1>3. \A u \in User : getDelegatee(u)' = IF u = d THEN w ELSE getDelegatee(u)
  BY <1>1, NoOneAssumption DEF getDelegatee
<1>4. \A u \in User : getDelegatee(u) \in User
  BY <1>1, NoOneAssumption DEF getDelegatee
<1>5. df # w => snapshots'[df] # <<>> /\ snapshots'[w] # <<>>
  <2>1. SUFFICES ASSUME df # w PROVE snapshots'[df] # <<>> /\ snapshots'[w] # <<>>
    OBVIOUS
  <2>2. df \in User
    BY <1>4
  <2>. HIDE DEF df, amount
  <2>. QED  BY <1>1, <2>1, <2>2, MoveMovesPower
<1>6. DelegationsRecorded'
  <2>1. SUFFICES ASSUME NEW u \in User, getDelegatee(u)' # u
        PROVE  snapshots'[u] # <<>> /\ snapshots'[getDelegatee(u)'] # <<>>
    BY DEF DelegationsRecorded
  <2>2. CASE u # d
    BY <1>1, <1>2, <1>3, <1>4, <2>1, <2>2 DEF DelegationsRecorded, ListsKept
  <2>3. CASE u = d /\ df = w
    BY <1>1, <1>2, <1>3, <2>1, <2>3 DEF DelegationsRecorded, ListsKept
  <2>4. CASE u = d /\ df # w
    <3>1. snapshots'[d] # <<>>
      <4>1. CASE df = d
        BY <1>5, <2>4, <4>1
      <4>2. CASE df # d
        BY <1>1, <1>2, <4>2 DEF DelegationsRecorded, ListsKept
      <4>. QED  BY <4>1, <4>2
    <3>. QED  BY <1>3, <1>5, <2>4, <3>1
  <2>. QED  BY <2>2, <2>3, <2>4
<1>7. NothingDelegatedYet' /\ NoListNoStake'
  BY <1>1, <1>2 DEF StakeIInv, NothingDelegatedYet, NoListNoStake, ListsKept
<1>8. ASSUME NEW u \in User
      PROVE  getPowerCurrent(u)' = SumFunctionOnSet(balances', {x \in User : getDelegatee(x)' = u})
  <2>. DEFINE R == {x \in User : getDelegatee(x) = u}
              after == {x \in User : getDelegatee(x)' = u}
  <2>1. getPowerCurrent(u)' = PowerOf(u)'
    BY CurrentIsLastAfter
  <2>2. PowerOf(u)' = PowerOf(u) + Shift(u, df, w, amount)
    BY <1>2 DEF PowerMoved
  <2>3. PowerOf(u) = SumFunctionOnSet(balances, R)
    BY <1>1, CurrentIsLast DEF StakeIInv, PowerIsDelegatedStake
  <2>4. /\ IsFiniteSet(R) /\ IsFiniteSet(after)
        /\ \A x \in R \cup after : balances[x] \in Nat
    BY <1>1, FiniteUsersAssumption, FS_Subset
  <2>5. SumFunctionOnSet(balances, R) \in Int
    <3>1. \A x \in R : balances[x] \in Int
      BY <2>4
    <3>. HIDE DEF R
    <3>. QED  BY <2>4, <3>1, SumInt
  <2>6. CASE df = w \/ u \notin {df, w}
    <3>1. after = R
      BY <1>3, <2>6
    <3>2. Shift(u, df, w, amount) = 0
      <4>. HIDE DEF df, amount
      <4>. QED  BY <1>1, <2>6 DEF Shift
    <3>. HIDE DEF R, after, df, amount
    <3>. QED  BY <1>1, <2>1, <2>2, <2>3, <2>5, <3>1, <3>2 DEF after
  <2>7. CASE df # w /\ u = df
    <3>1. after = R \ {d} /\ d \in R
      BY <1>3, <2>7
    <3>2. \A x \in R : balances[x] \in Int
      BY <2>4
    <3>3. SumFunctionOnSet(balances, R) = balances[d] + SumFunctionOnSet(balances, R \ {d})
      <4>. HIDE DEF R
      <4>. QED  BY <2>4, <3>1, <3>2, SumRemove
    <3>4. SumFunctionOnSet(balances, after) \in Int
      <4>1. \A x \in after : balances[x] \in Int
        BY <2>4
      <4>. HIDE DEF after
      <4>. QED  BY <2>4, <4>1, SumInt
    <3>5. Shift(u, df, w, amount) = 0 - amount
      <4>. HIDE DEF df, amount
      <4>. QED  BY <1>1, <2>7 DEF Shift
    <3>6. getPowerCurrent(u)' = SumFunctionOnSet(balances, after)
      <4>. HIDE DEF R, after, df
      <4>. QED  BY <1>1, <2>1, <2>2, <2>3, <3>1, <3>3, <3>4, <3>5
    <3>. QED  BY <1>1, <3>6
  <2>8. CASE df # w /\ u = w
    <3>1. R = after \ {d} /\ d \in after
      BY <1>3, <2>8
    <3>2. \A x \in after : balances[x] \in Int
      BY <2>4
    <3>3. SumFunctionOnSet(balances, after) = balances[d] + SumFunctionOnSet(balances, after \ {d})
      <4>. HIDE DEF after
      <4>. QED  BY <2>4, <3>1, <3>2, SumRemove
    <3>4. Shift(u, df, w, amount) = amount
      <4>. HIDE DEF df, amount
      <4>. QED  BY <1>1, <2>8 DEF Shift
    <3>5. getPowerCurrent(u)' = SumFunctionOnSet(balances, after)
      <4>. HIDE DEF R, after, df
      <4>. QED  BY <1>1, <2>1, <2>2, <2>3, <2>5, <3>1, <3>3, <3>4
    <3>. QED  BY <1>1, <3>5
  <2>. QED  BY <2>6, <2>7, <2>8
<1>9. PowerIsDelegatedStake'
  BY <1>8 DEF PowerIsDelegatedStake
<1>10. Passed
  <2>1. df # NoOne /\ block' = block
    BY <1>4, NoOneAssumption DEF delegateByType
  <2>2. df \notin {w, NoOne} => amount <= PowerOf(df)
    BY DEF delegateByType, CanMove, PowerOf
  <2>. HIDE DEF df, amount
  <2>. QED  BY <1>1, <1>2, <2>1, <2>2 DEF Passed
<1>. QED
  BY <1>6, <1>7, <1>9, <1>10 DEF StakeIInv

\* Steps that write nothing
LEMMA QuietStep ==
  ASSUME StakeIInv, PowerIInv', UNCHANGED <<balances, delegates, snapshots>>,
         implementation' \in {implementation, "StakedREXV3"}
  PROVE  StakeIInv' /\ \A u \in User : PowerOf(u)' = PowerOf(u)
<1>1. \A u \in User : PowerOf(u)' = PowerOf(u) /\ getDelegatee(u)' = getDelegatee(u)
  BY DEF PowerOf, getDelegatee
<1>2. DelegationsRecorded' /\ NothingDelegatedYet' /\ NoListNoStake'
  BY <1>1 DEF StakeIInv, DelegationsRecorded, NothingDelegatedYet, NoListNoStake
<1>3. ASSUME NEW u \in User
      PROVE  getPowerCurrent(u)' = SumFunctionOnSet(balances', {w \in User : getDelegatee(w)' = u})
  <2>1. getPowerCurrent(u)' = getPowerCurrent(u)
    BY <1>1, CurrentIsLast, CurrentIsLastAfter DEF StakeIInv
  <2>2. {w \in User : getDelegatee(w)' = u} = {w \in User : getDelegatee(w) = u}
    BY <1>1
  <2>3. getPowerCurrent(u) = SumFunctionOnSet(balances, {w \in User : getDelegatee(w) = u})
    BY DEF StakeIInv, PowerIsDelegatedStake
  <2>. QED  BY <2>1, <2>2, <2>3
<1>4. PowerIsDelegatedStake'
  BY <1>3 DEF PowerIsDelegatedStake
<1>. QED
  BY <1>1, <1>2, <1>4 DEF StakeIInv

\* The steps, one by one
LEMMA InitStake == Init => StakeIInv
<1>. SUFFICES ASSUME Init PROVE StakeIInv
  OBVIOUS
<1>1. PowerIInv
  BY InitPowerIInv
<1>2. \A u \in User : getDelegatee(u) = u /\ snapshots[u] = <<>> /\ balances[u] = 0
  BY NoOneAssumption DEF Init, getDelegatee
<1>3. DelegationsRecorded /\ NothingDelegatedYet /\ NoListNoStake
  BY <1>2 DEF Init, DelegationsRecorded, NothingDelegatedYet, NoListNoStake
<1>4. ASSUME NEW u \in User
      PROVE  getPowerCurrent(u) = SumFunctionOnSet(balances, {w \in User : getDelegatee(w) = u})
  <2>. DEFINE R == {w \in User : getDelegatee(w) = u}
  <2>1. IsFiniteSet(R) /\ \A w \in R : balances[w] = 0
    BY <1>2, FiniteUsersAssumption, FS_Subset
  <2>2. SumFunctionOnSet(balances, R) = 0
    <3>. HIDE DEF R
    <3>. QED  BY <2>1, SumZero
  <2>3. getPowerCurrent(u) = 0
    BY <1>2 DEF getPowerCurrent, getPowerAtBlock, searchByBlockNumber
  <2>. QED  BY <2>2, <2>3
<1>. QED
  BY <1>1, <1>3, <1>4 DEF StakeIInv, PowerIsDelegatedStake

LEMMA MintPasses ==
  ASSUME StakeIInv, NEW u \in User, NEW amount \in 1 .. MaxSupply, mint(u, amount)
  PROVE  StakeIInv' /\ Passed
<1>1. amount \in Nat /\ amount <= MaxSupply
  BY SupplyAssumption
<1>2. PowerIInv'
  BY <1>1, MintStep DEF StakeIInv
<1>3. BalancesMoved(NoOne, u, amount)
  BY <1>1, NoOneAssumption DEF mint, BalancesMoved, Shift, StakeIInv, PowerIInv, TypeOK
<1>. QED
  BY <1>1, <1>2, <1>3, NoOneAssumption, TokenStep DEF mint

LEMMA BurnPasses ==
  ASSUME StakeIInv, NEW u \in User, NEW amount \in 1 .. MaxSupply, burn(u, amount)
  PROVE  StakeIInv' /\ Passed
<1>1. amount \in Nat
  BY SupplyAssumption
<1>2. PowerIInv'
  BY <1>1, BurnStep DEF StakeIInv
<1>3. BalancesMoved(u, NoOne, amount)
  BY <1>1, NoOneAssumption DEF burn, BalancesMoved, Shift, StakeIInv, PowerIInv, TypeOK
<1>. QED
  BY <1>1, <1>2, <1>3, NoOneAssumption, TokenStep DEF burn

LEMMA TransferPasses ==
  ASSUME StakeIInv, NEW u \in User, NEW w \in User, NEW amount \in 0 .. MaxSupply,
         transfer(u, w, amount)
  PROVE  StakeIInv' /\ Passed
<1>1. amount \in Nat
  BY SupplyAssumption
<1>2. PowerIInv'
  BY <1>1, TransferStep DEF StakeIInv
<1>3. BalancesMoved(u, w, amount)
  <2>1. \A x \in User : balances[x] \in Nat
    BY DEF StakeIInv, PowerIInv, TypeOK
  <2>2. balances' = [[balances EXCEPT ![u] = @ - amount] EXCEPT ![w] = @ + amount]
        /\ DOMAIN balances = User
    BY DEF transfer, StakeIInv, PowerIInv, TypeOK
  <2>. QED  BY <1>1, <2>1, <2>2 DEF BalancesMoved, Shift
<1>. QED
  BY <1>1, <1>2, <1>3, NoOneAssumption, TokenStep DEF transfer

\* Within a block power passes, and the next block changes nobody's power.
NextBlockSame == mine /\ \A u \in User : PowerOf(u)' = PowerOf(u)

LEMMA NextStake ==
  ASSUME StakeIInv, [Next]_vars
  PROVE  StakeIInv' /\ (Passed \/ NextBlockSame)
<1>0. PowerIInv'
  BY NextPowerIInv DEF StakeIInv
<1>1. CASE \E u \in User, amount \in 1 .. MaxSupply : mint(u, amount) \/ burn(u, amount)
  BY <1>1, MintPasses, BurnPasses
<1>2. CASE \E u, w \in User, amount \in 0 .. MaxSupply : transfer(u, w, amount)
  BY <1>2, TransferPasses
<1>3. CASE \E u, w \in User : delegateByType(u, w)
  BY <1>0, <1>3, DelegationStep
<1>4. CASE upgrade \/ UNCHANGED vars
  <2>1. StakeIInv' /\ \A u \in User : PowerOf(u)' = PowerOf(u)
    BY <1>0, <1>4, QuietStep DEF upgrade, vars
  <2>2. \A u \in User : PowerOf(u) \in Nat
    BY PreviousIsNat DEF StakeIInv, PowerIInv, PowerOf
  <2>3. PowerMoved(NoOne, NoOne, 0)
    BY <2>1, <2>2 DEF PowerMoved, Shift
  <2>4. block' = block /\ 0 \in Nat /\ 0 <= MaxSupply
    BY <1>4, SupplyAssumption DEF upgrade, vars
  <2>. QED  BY <2>1, <2>3, <2>4 DEF Passed
<1>5. CASE mine
  BY <1>0, <1>5, QuietStep DEF mine, NextBlockSame
<1>. QED
  BY <1>1, <1>2, <1>3, <1>4, <1>5 DEF Next

\* In every order of stakes, redeems, transfers and delegations, before and after
\* the upgrade, the power of an account is the stake of those it represents.
THEOREM PowerStaysDelegatedStake == Spec => []PowerIsDelegatedStake
<1>1. StakeIInv /\ [Next]_vars => StakeIInv'
  BY NextStake
<1>2. StakeIInv => PowerIsDelegatedStake
  BY DEF StakeIInv
<1>. QED
  BY <1>1, <1>2, InitStake, PTL DEF Spec

\* The search by bisection always finds the last snapshot of a block or before.
THEOREM SearchIsRight == Spec => []SearchFindsLast
<1>1. PowerIInv => SearchFindsLast
  <2>1. SUFFICES ASSUME PowerIInv, NEW u \in User, NEW b \in StartBlock .. block, snapshots[u] # <<>>
        PROVE  getPowerAtBlock(u, b) = RecordedValue(snapshots[u], b)
    BY DEF SearchFindsLast
  <2>2. block \in Nat /\ b \in Nat
    BY <2>1, BlocksAssumption, BlockIsNat DEF PowerIInv
  <2>3. snapshots[u] \in Seq(Snapshot) /\ Ordered(snapshots[u], block)
    BY <2>1 DEF PowerIInv, TypeOK, SnapshotsOrdered
  <2>. QED  BY <2>1, <2>2, <2>3, SearchReturnsRecord DEF getPowerAtBlock
<1>. QED
  BY <1>1, InitPowerIInv, NextPowerIInv, PTL DEF Spec

------------------------------------------------------------------------------
(* The refinement *)

\* The table of PowerHistory, read from the lists
Table == [b \in StartBlock .. block |-> [u \in User |-> getPowerAtBlock(u, b)]]

\* For the voting power, what the search answers is what the list records, also
\* where the list is empty.
LEMMA AnswerIsRecord ==
  ASSUME NEW list \in Seq(Snapshot), NEW blk \in Nat, Ordered(list, blk), NEW b \in Nat,
         NEW balance, list = <<>> => balance = 0
  PROVE  searchByBlockNumber(list, balance, b) = RecordedValue(list, b)
<1>1. CASE list = <<>>
  <2>1. {i \in DOMAIN list : list[i].blockNumber <= b} = {}
    BY <1>1
  <2>. QED  BY <1>1, <2>1 DEF searchByBlockNumber, RecordedValue
<1>2. CASE list # <<>>
  BY <1>2, SearchReturnsRecord
<1>. QED
  BY <1>1, <1>2

\* The answers for the blocks that are over stay.
LEMMA PastAnswersStay ==
  ASSUME KeepsLegacySnapshots, StakeIInv, StakeIInv', [Next]_vars,
         NEW u \in User, NEW b \in StartBlock .. block, b # block
  PROVE  getPowerAtBlock(u, b)' = getPowerAtBlock(u, b)
<1>1. block \in Nat /\ block' \in Nat /\ b \in Nat /\ b \in StartBlock .. block - 1
  BY BlocksAssumption DEF StakeIInv, PowerIInv, TypeOK
<1>2. /\ snapshots[u] \in Seq(Snapshot) /\ Ordered(snapshots[u], block)
      /\ snapshots[u] = <<>> => balances[u] = 0
  BY DEF StakeIInv, PowerIInv, TypeOK, SnapshotsOrdered, NoListNoStake
<1>3. /\ snapshots'[u] \in Seq(Snapshot) /\ Ordered(snapshots'[u], block')
      /\ snapshots'[u] = <<>> => balances'[u] = 0
  BY DEF StakeIInv, PowerIInv, TypeOK, SnapshotsOrdered, NoListNoStake
<1>4. getPowerAtBlock(u, b) = RecordedValue(snapshots[u], b)
  BY <1>1, <1>2, AnswerIsRecord DEF getPowerAtBlock
<1>5. getPowerAtBlock(u, b)' = RecordedValue(snapshots'[u], b)
  BY <1>1, <1>3, AnswerIsRecord DEF getPowerAtBlock
<1>6. RecordedValue(snapshots'[u], b) = RecordedValue(snapshots[u], b)
  <2>1. [RecordsAreFinal]_vars
    BY NextPowerIInv DEF StakeIInv
  <2>2. CASE RecordsAreFinal
    BY <1>1, <2>2 DEF RecordsAreFinal
  <2>3. CASE UNCHANGED vars
    BY <2>3 DEF vars
  <2>. QED  BY <2>1, <2>2, <2>3
<1>. QED
  BY <1>4, <1>5, <1>6

LEMMA TableInit == Init => History!Init
<1>. SUFFICES ASSUME Init PROVE History!Init
  OBVIOUS
<1>1. StartBlock .. block = {StartBlock}
  BY BlocksAssumption DEF Init
<1>2. \A u \in User, b \in {StartBlock} : getPowerAtBlock(u, b) = 0
  BY DEF Init, getPowerAtBlock, searchByBlockNumber
<1>. QED
  BY <1>1, <1>2 DEF Init, History!Init

\* A step within a block changes the last column of the table only.
LEMMA PassedColumn ==
  ASSUME KeepsLegacySnapshots, StakeIInv, StakeIInv', [Next]_vars, block' = block
  PROVE  /\ Table' = [Table EXCEPT ![block] = [u \in User |-> PowerOf(u)']]
         /\ Table[block] = [u \in User |-> PowerOf(u)]
         /\ DOMAIN Table = StartBlock .. block /\ block \in DOMAIN Table
<1>1. block \in Nat /\ block \in StartBlock .. block
  BY BlocksAssumption DEF StakeIInv, PowerIInv, TypeOK
<1>2. \A u \in User : getPowerAtBlock(u, block) = PowerOf(u)
  BY CurrentIsLast DEF StakeIInv, getPowerCurrent
<1>3. \A u \in User : getPowerAtBlock(u, block)' = PowerOf(u)'
  BY CurrentIsLastAfter DEF StakeIInv, getPowerCurrent
<1>4. Table' = [b \in StartBlock .. block |-> [u \in User |-> getPowerAtBlock(u, b)']]
  BY DEF Table, getPowerAtBlock
<1>5. \A b \in StartBlock .. block :
        [u \in User |-> getPowerAtBlock(u, b)'] =
          IF b = block THEN [u \in User |-> PowerOf(u)'] ELSE [u \in User |-> getPowerAtBlock(u, b)]
  <2>1. SUFFICES ASSUME NEW b \in StartBlock .. block
        PROVE [u \in User |-> getPowerAtBlock(u, b)'] =
                IF b = block THEN [u \in User |-> PowerOf(u)'] ELSE [u \in User |-> getPowerAtBlock(u, b)]
    OBVIOUS
  <2>2. CASE b = block
    BY <1>3, <2>2 DEF getPowerAtBlock
  <2>3. CASE b # block
    <3>1. \A u \in User : getPowerAtBlock(u, b)' = getPowerAtBlock(u, b)
      BY <2>3, PastAnswersStay
    <3>. QED  BY <2>3, <3>1
  <2>. QED  BY <2>2, <2>3
<1>6. Table[block] = [u \in User |-> PowerOf(u)]
  BY <1>1, <1>2 DEF Table
<1>7. Table' = [Table EXCEPT ![block] = [u \in User |-> PowerOf(u)']]
  BY <1>1, <1>4, <1>5 DEF Table
<1>. QED
  BY <1>1, <1>6, <1>7 DEF Table

LEMMA PassedRefines ==
  ASSUME KeepsLegacySnapshots, StakeIInv, StakeIInv', [Next]_vars, Passed
  PROVE  [History!Next]_<<block, Table>>
<1>. DEFINE column == [u \in User |-> PowerOf(u)]
            after == [u \in User |-> PowerOf(u)']
<1>1. block' = block
  BY DEF Passed
<1>2. PICK from \in User \cup {NoOne}, to \in User \cup {NoOne}, amount \in Nat :
        /\ from = NoOne => amount <= MaxSupply
        /\ from \notin {to, NoOne} => amount <= PowerOf(from)
        /\ PowerMoved(from, to, amount)
  BY DEF Passed
<1>3. /\ Table' = [Table EXCEPT ![block] = after] /\ Table[block] = column
      /\ block \in DOMAIN Table
  BY <1>1, PassedColumn
<1>4. \A u \in User : PowerOf(u) \in Nat /\ PowerOf(u)' = PowerOf(u) + Shift(u, from, to, amount)
  BY <1>2, PreviousIsNat DEF StakeIInv, PowerIInv, PowerOf, PowerMoved
<1>5. CASE from = to \/ amount = 0
  <2>1. \A u \in User : PowerOf(u)' = PowerOf(u)
    BY <1>4, <1>5 DEF Shift
  <2>2. after = column
    BY <2>1
  <2>. HIDE DEF after, column
  <2>3. Table' = Table
    BY <1>3, <2>2 DEF Table
  <2>. QED  BY <1>1, <2>3
<1>6. CASE from # to /\ amount # 0 /\ from = NoOne
  <2>1. to \in User /\ amount \in 1 .. MaxSupply
    BY <1>2, <1>6, SupplyAssumption
  <2>2. after = [column EXCEPT ![to] = @ + amount]
    BY <1>4, <1>6, NoOneAssumption DEF Shift
  <2>. HIDE DEF after, column
  <2>3. Table' = [Table EXCEPT ![block][to] = @ + amount]
    BY <1>3, <2>2
  <2>4. History!Gain(to)
    BY <1>1, <2>1, <2>3 DEF History!Gain, Table
  <2>. QED  BY <2>1, <2>4 DEF History!Next
<1>7. CASE from # to /\ amount # 0 /\ from # NoOne
  <2>0. column[from] = PowerOf(from) /\ PowerOf(from) \in Nat
    BY <1>4, <1>7
  <2>1. from \in User /\ amount \in 1 .. column[from]
    BY <1>2, <1>7, <2>0
  <2>2. CASE to = NoOne
    <3>1. after = [column EXCEPT ![from] = @ - amount]
      BY <1>4, <1>7, <2>2, NoOneAssumption DEF Shift
    <3>. HIDE DEF after, column
    <3>2. Table' = [Table EXCEPT ![block][from] = @ - amount]
      BY <1>3, <3>1
    <3>3. amount \in 1 .. Table[block][from]
      BY <1>3, <2>1
    <3>4. History!Lose(from)
      BY <1>1, <3>2, <3>3 DEF History!Lose, Table
    <3>. QED  BY <2>1, <3>4 DEF History!Next
  <2>3. CASE to # NoOne
    <3>. DEFINE less == [column EXCEPT ![from] = @ - amount]
                lessTable == [Table EXCEPT ![block][from] = @ - amount]
    <3>1. after = [less EXCEPT ![to] = @ + amount]
      BY <1>4, <1>7 DEF Shift
    <3>. HIDE DEF after, column
    <3>2. lessTable = [Table EXCEPT ![block] = less]
      BY <1>3
    <3>3. lessTable[block] = less
      BY <1>3, <3>2
    <3>4. [lessTable EXCEPT ![block][to] = @ + amount] = [lessTable EXCEPT ![block] = after]
      BY <3>1, <3>3
    <3>5. [lessTable EXCEPT ![block] = after] = [Table EXCEPT ![block] = after]
      BY <3>2
    <3>6. amount \in 1 .. Table[block][from]
      BY <1>3, <2>1
    <3>7. Table' = [lessTable EXCEPT ![block][to] = @ + amount]
      BY <1>3, <3>4, <3>5
    <3>8. History!Pass(from, to)
      BY <1>1, <3>6, <3>7 DEF History!Pass, Table
    <3>9. to \in User
      BY <2>3
    <3>. QED  BY <2>1, <3>8, <3>9 DEF History!Next
  <2>. QED  BY <2>2, <2>3
<1>. QED
  BY <1>5, <1>6, <1>7

\* The next block copies the last column.
LEMMA NextBlockRefines ==
  ASSUME KeepsLegacySnapshots, StakeIInv, StakeIInv', NextBlockSame
  PROVE  History!NextBlock
<1>1. /\ block \in Nat /\ block \in StartBlock .. block /\ block' = block + 1
      /\ \A u \in User, b \in StartBlock .. block : getPowerAtBlock(u, b)' = getPowerAtBlock(u, b)
  BY BlocksAssumption DEF StakeIInv, PowerIInv, TypeOK, NextBlockSame, mine, getPowerAtBlock
<1>2. \A u \in User : getPowerCurrent(u)' = getPowerCurrent(u)
  BY CurrentIsLast, CurrentIsLastAfter DEF StakeIInv, NextBlockSame
<1>3. \A u \in User : searchByBlockNumber(snapshots'[u], balances'[u], block + 1) = getPowerAtBlock(u, block)
  BY <1>1, <1>2 DEF getPowerCurrent, getPowerAtBlock
<1>4. Table' = [b \in StartBlock .. block + 1 |->
                  [u \in User |-> searchByBlockNumber(snapshots'[u], balances'[u], b)]]
  BY <1>1 DEF Table, getPowerAtBlock
<1>5. \A b \in StartBlock .. block + 1 :
        [u \in User |-> searchByBlockNumber(snapshots'[u], balances'[u], b)] =
          IF b <= block THEN Table[b] ELSE Table[block]
  <2>1. SUFFICES ASSUME NEW b \in StartBlock .. block + 1
        PROVE [u \in User |-> searchByBlockNumber(snapshots'[u], balances'[u], b)] =
                IF b <= block THEN Table[b] ELSE Table[block]
    OBVIOUS
  <2>2. CASE b <= block
    <3>1. b \in StartBlock .. block
      BY <1>1, <2>2, BlocksAssumption
    <3>2. \A u \in User : searchByBlockNumber(snapshots'[u], balances'[u], b) = getPowerAtBlock(u, b)
      BY <1>1, <3>1 DEF getPowerAtBlock
    <3>. QED  BY <2>2, <3>1, <3>2 DEF Table
  <2>3. CASE ~(b <= block)
    <3>1. b = block + 1
      BY <1>1, <2>3, BlocksAssumption
    <3>. QED  BY <1>1, <1>3, <2>3, <3>1 DEF Table
  <2>. QED  BY <2>2, <2>3
<1>6. Table' = [b \in StartBlock .. block + 1 |-> IF b <= block THEN Table[b] ELSE Table[block]]
  BY <1>4, <1>5
<1>. QED
  BY <1>1, <1>6 DEF History!NextBlock, Table

\* The lists of the voting power implement the table: the upgrade included, the
\* power of everybody at a block that is over is what it was at its end.
THEOREM ListsImplementHistory == KeepsLegacySnapshots => (Spec => ImplementsPowerHistory)
<1>. SUFFICES ASSUME KeepsLegacySnapshots PROVE Spec => ImplementsPowerHistory
  OBVIOUS
<1>1. StakeIInv /\ [Next]_vars => StakeIInv'
  BY NextStake
<1>2. StakeIInv /\ StakeIInv' /\ [Next]_vars => [History!Next]_<<block, Table>>
  BY NextStake, PassedRefines, NextBlockRefines DEF History!Next
<1>3. Init => History!Init
  BY TableInit
<1>. QED
  BY <1>1, <1>2, <1>3, InitStake, PTL DEF Spec, ImplementsPowerHistory, History!Spec, Table

------------------------------------------------------------------------------
(* Every token votes once *)

\* The power of all accounts together, in the present block
TotalPower == SumFunction([u \in User |-> getPowerCurrent(u)])

\* The groups that are represented by the same account share out the holders,
\* as everybody has one delegatee: the powers add up to the stakes.
LEMMA PowersAddUp == StakeIInv => TotalPower = totalSupply
<1>. SUFFICES ASSUME StakeIInv PROVE TotalPower = totalSupply
  OBVIOUS
<1>. DEFINE d == [w \in User |-> getDelegatee(w)]
            powers == [u \in User |-> getPowerCurrent(u)]
            groups == GroupSums(balances, d, User, User)
<1>1. \A w \in User : d[w] \in User
  BY NoOneAssumption DEF StakeIInv, PowerIInv, TypeOK, getDelegatee
<1>2. /\ \A w \in User : balances[w] \in Int
      /\ DOMAIN balances = User
  BY DEF StakeIInv, PowerIInv, TypeOK
<1>3. \A u \in User : powers[u] = SumFunctionOnSet(balances, {w \in User : d[w] = u})
  <2>1. \A u \in User : {w \in User : getDelegatee(w) = u} = {w \in User : d[w] = u}
    OBVIOUS
  <2>2. \A u \in User : getPowerCurrent(u) =
          SumFunctionOnSet(balances, {w \in User : getDelegatee(w) = u})
    BY DEF StakeIInv, PowerIsDelegatedStake
  <2>. HIDE DEF d
  <2>. QED  BY <2>1, <2>2
<1>4. powers = groups
  <2>. HIDE DEF d
  <2>. QED  BY <1>3 DEF GroupSums
<1>5. SumFunctionOnSet(groups, User) = SumFunctionOnSet(balances, User)
  <2>. HIDE DEF d
  <2>. QED  BY <1>1, <1>2, FiniteUsersAssumption, SumOfGroups
<1>6. DOMAIN powers = User
  OBVIOUS
<1>7. SumFunction(powers) = SumFunctionOnSet(powers, User)
  <2>. HIDE DEF powers
  <2>. QED  BY <1>6 DEF SumFunction
<1>8. SumFunction(balances) = SumFunctionOnSet(balances, User)
  BY <1>2 DEF SumFunction
<1>. QED
  <2>. HIDE DEF powers, groups, d
  <2>1. SumFunction(powers) = SumFunction(balances)
    BY <1>4, <1>5, <1>7, <1>8
  <2>. QED  BY <2>1 DEF powers, TotalPower, totalSupply

\* However stake is delegated, before and after the upgrade, no token is
\* counted twice and none is lost: the powers of all accounts add up to the
\* total supply.
THEOREM EveryTokenVotesOnce == Spec => [](TotalPower = totalSupply)
<1>1. StakeIInv /\ [Next]_vars => StakeIInv'
  BY NextStake
<1>. QED
  BY <1>1, InitStake, PowersAddUp, PTL DEF Spec

------------------------------------------------------------------------------
(* The hooks do not stand in the way *)

\* What the hook requires before an amount of stkREX leaves u
HookRequires(u, to, amount) ==
  CASE implementation = "StakedREXV3" ->
         CanMove(snapshots, balances, getDelegatee(u), getDelegatee(to), amount)
    [] implementation = "StakedREX" /\ KeepsLegacySnapshots ->
         u # to => amount <= balances[u]
    [] OTHER -> TRUE

\* In every state the previous.sub(amount) of _moveDelegatesByType has enough to
\* take from: for what a holder burns or sends, and for what he delegates anew.
HookNeverReverts ==
  \A u \in User :
    /\ \A to \in User \cup {NoOne}, amount \in 0 .. balances[u] : HookRequires(u, to, amount)
    /\ \A w \in User : CanMove(snapshots, balances, getDelegatee(u), w, balances[u])

\* A delegatee has at least what any one of those he represents has staked.
LEMMA DelegateeHasStake ==
  ASSUME StakeIInv, NEW u \in User
  PROVE  /\ balances[u] \in Nat /\ PowerOf(getDelegatee(u)) \in Nat
         /\ balances[u] <= PowerOf(getDelegatee(u))
<1>. DEFINE e == getDelegatee(u)
            R == {w \in User : getDelegatee(w) = e}
<1>1. e \in User
  BY NoOneAssumption DEF StakeIInv, PowerIInv, TypeOK, getDelegatee
<1>2. PowerOf(e) = SumFunctionOnSet(balances, R)
  <2>. HIDE DEF e
  <2>1. getPowerCurrent(e) = PowerOf(e)
    BY <1>1, CurrentIsLast DEF StakeIInv
  <2>. QED  BY <1>1, <2>1 DEF StakeIInv, PowerIsDelegatedStake
<1>3. IsFiniteSet(R) /\ u \in R /\ \A w \in R : balances[w] \in Nat
  BY FiniteUsersAssumption, FS_Subset DEF StakeIInv, PowerIInv, TypeOK
<1>4. PowerOf(e) \in Nat
  <2>. HIDE DEF e
  <2>. QED  BY <1>1, PreviousIsNat DEF StakeIInv, PowerIInv, PowerOf
<1>. HIDE DEF R, e
<1>5. balances[u] <= SumFunctionOnSet(balances, R)
  BY <1>3, SumBounds
<1>. QED
  BY <1>2, <1>3, <1>4, <1>5 DEF e

\* What a holder moves is at most his stake, and that is part of the power.
LEMMA HookAccepts == StakeIInv => HookNeverReverts
<1>. SUFFICES ASSUME StakeIInv, NEW u \in User PROVE
       /\ \A to \in User \cup {NoOne}, amount \in 0 .. balances[u] : HookRequires(u, to, amount)
       /\ \A w \in User : CanMove(snapshots, balances, getDelegatee(u), w, balances[u])
  BY DEF HookNeverReverts
<1>1. /\ balances[u] \in Nat /\ PowerOf(getDelegatee(u)) \in Nat
      /\ balances[u] <= PowerOf(getDelegatee(u))
  BY DelegateeHasStake
<1>2. ASSUME NEW amount \in 0 .. balances[u], NEW dt
      PROVE  CanMove(snapshots, balances, getDelegatee(u), dt, amount)
  BY <1>1 DEF CanMove, PowerOf
<1>3. balances[u] \in 0 .. balances[u]
  BY <1>1
<1>4. ASSUME NEW to \in User \cup {NoOne}, NEW amount \in 0 .. balances[u]
      PROVE  HookRequires(u, to, amount)
  <2>1. amount <= balances[u]
    OBVIOUS
  <2>. QED  BY <1>2, <2>1 DEF HookRequires, StakeIInv, PowerIInv, TypeOK
<1>. QED
  BY <1>2, <1>3, <1>4

\* What the hook leaves in the lists
HookWrites(u, to, amount) ==
  snapshots' =
    CASE implementation = "StakedREXV3" ->
           moveDelegates(snapshots, balances, getDelegatee(u), getDelegatee(to), amount, block)
      [] implementation = "StakedREX" /\ KeepsLegacySnapshots ->
           IF u = to THEN snapshots
           ELSE [w \in User |->
                   CASE w = u  -> writeSnapshot(snapshots[w], block, balances[w] - amount)
                     [] w = to -> writeSnapshot(snapshots[w], block, balances[w] + amount)
                     [] OTHER  -> snapshots[w]]
      [] OTHER -> snapshots

\* The hook is what it requires and a value for the lists that depends on the
\* state alone: nothing else can stop it.
LEMMA HookSplits ==
  ASSUME TypeOK, NEW u \in User, NEW to \in User \cup {NoOne}, NEW amount \in Nat
  PROVE  beforeTokenTransfer(u, to, amount)
           <=> HookRequires(u, to, amount) /\ HookWrites(u, to, amount)
<1>1. CASE implementation = "StakedREXV3"
  BY <1>1 DEF beforeTokenTransfer, HookRequires, HookWrites, MoveDelegatedPower
<1>2. CASE implementation = "StakedREX" /\ KeepsLegacySnapshots
  <2>1. u # NoOne
    BY NoOneAssumption
  <2>. QED
    BY <1>2, <2>1 DEF beforeTokenTransfer, HookRequires, HookWrites, SnapshotBalances
<1>3. CASE implementation = "StakedREX" /\ ~KeepsLegacySnapshots
  BY <1>3 DEF beforeTokenTransfer, HookRequires, HookWrites
<1>. QED
  BY <1>1, <1>2, <1>3, LegacyAssumption DEF TypeOK

\* No hook ever makes a stake immovable: whatever was delegated, undelegated,
\* sent and burned before, in lists of either implementation, the power taken
\* from a delegatee is there (the sub of StakedTokenV2Rev3.sol:1231).
THEOREM StakeIsNeverStuck == Spec => []HookNeverReverts
<1>1. StakeIInv /\ [Next]_vars => StakeIInv'
  BY NextStake
<1>. QED
  BY <1>1, InitStake, HookAccepts, PTL DEF Spec

------------------------------------------------------------------------------
(* The token whose power this is *)

Ledger == INSTANCE StakeLedger

\* The bound on the supply apart, the actions are those of the ledger.
LEMMA PowerLedgerStep == PowerIInv /\ [Next]_vars => [Ledger!Next]_balances
<1>. SUFFICES ASSUME PowerIInv, [Next]_vars, balances' # balances PROVE Ledger!Next
  OBVIOUS
<1>1. balances \in [User -> Nat]
  BY DEF PowerIInv, TypeOK
<1>2. CASE \E u \in User, amount \in 1 .. MaxSupply : mint(u, amount) \/ burn(u, amount)
  <2>1. PICK u \in User, amount \in 1 .. MaxSupply : mint(u, amount) \/ burn(u, amount)
    BY <1>2
  <2>2. amount \in Nat \ {0}
    BY SupplyAssumption
  <2>3. Ledger!Appear(u, amount) \/ Ledger!Disappear(u, amount)
    BY <2>1 DEF mint, burn, Ledger!Appear, Ledger!Disappear
  <2>. QED  BY <2>2, <2>3 DEF Ledger!Next
<1>3. CASE \E u, w \in User, amount \in 0 .. MaxSupply : transfer(u, w, amount)
  <2>1. PICK u \in User, w \in User, amount \in 0 .. MaxSupply : transfer(u, w, amount)
    BY <1>3
  <2>2. /\ amount \in Nat /\ amount <= balances[u]
        /\ balances' = [[balances EXCEPT ![u] = @ - amount] EXCEPT ![w] = @ + amount]
    BY <2>1, SupplyAssumption DEF transfer
  <2>3. amount # 0
    <3>1. ASSUME amount = 0 PROVE FALSE
      <4>1. balances' = [[balances EXCEPT ![u] = balances[u] - 0] EXCEPT ![w] = @ + 0]
        BY <2>2, <3>1
      <4>2. balances[u] - 0 = balances[u] /\ balances[w] + 0 = balances[w]
        BY <1>1
      <4>. QED  BY <1>1, <4>1, <4>2
    <3>. QED  BY <3>1
  <2>4. Ledger!Pass(u, w, amount)
    BY <2>2 DEF Ledger!Pass
  <2>. QED  BY <2>2, <2>3, <2>4 DEF Ledger!Next
<1>4. CASE (\E u, w \in User : delegateByType(u, w)) \/ upgrade \/ mine \/ UNCHANGED vars
  BY <1>4 DEF delegateByType, upgrade, mine, vars
<1>. QED
  BY <1>2, <1>3, <1>4 DEF Next

\* The stake under the power is the token of StakeLedger, as the stake of
\* StakedREX is (StakeImplementsLedger).
THEOREM PowerImplementsLedger == Spec => Ledger!Spec
<1>1. Init => Ledger!Init
  BY DEF Init, Ledger!Init
<1>. QED
  BY <1>1, PowerLedgerStep, InitPowerIInv, NextPowerIInv, PTL DEF Spec, Ledger!Spec

\* What the ledger can do to the balances the hooks accept, and nothing else
\* is asked: the step exists with a value for the lists.
LEMMA LedgerStepAccepted ==
  ASSUME StakeIInv, NEW u \in User, NEW w \in User, NEW amount \in Nat, amount <= balances[u]
  PROVE  /\ transfer(u, w, amount)
              <=> Ledger!Pass(u, w, amount) /\ HookWrites(u, w, amount)
                  /\ UNCHANGED <<block, implementation, delegates>>
         /\ burn(u, amount)
              <=> Ledger!Disappear(u, amount) /\ HookWrites(u, NoOne, amount)
                  /\ UNCHANGED <<block, implementation, delegates>>
<1>1. amount \in 0 .. balances[u]
  BY DEF StakeIInv, PowerIInv, TypeOK
<1>2. HookRequires(u, w, amount) /\ HookRequires(u, NoOne, amount)
  BY <1>1, HookAccepts DEF HookNeverReverts
<1>3. TypeOK
  BY DEF StakeIInv, PowerIInv
<1>4. /\ beforeTokenTransfer(u, w, amount) <=> HookWrites(u, w, amount)
      /\ beforeTokenTransfer(u, NoOne, amount) <=> HookWrites(u, NoOne, amount)
  BY <1>2, <1>3, HookSplits
<1>. QED
  BY <1>4 DEF transfer, burn, Ledger!Pass, Ledger!Disappear

==============================================================================
