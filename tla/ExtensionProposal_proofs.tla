---------------------- MODULE ExtensionProposal_proofs ----------------------
(***************************************************************************)
(* Proofs about ExtensionProposal, for every end of the old distribution,  *)
(* duration of the new one, number of implementations and proposals, and   *)
(* for every kind of proposal.                                             *)
(***************************************************************************)
EXTENDS ExtensionProposal, TLAPS

Impl == [token : Tokens, revision : Nat, end : Nat, code : BOOLEAN]
Proxy == [implementation : Nat, admin : {"executor", "other"},
          lastInitializedRevision : Nat, lastUpdateTimestamp : Nat]
Proposal == [payload : {"upgradeToAndCall", "upgradeTo", "changeAdmin"},
             impls : [Tokens -> Nat], state : {"created", "queued", "over", "executed"}]

Shape ==
    /\ now \in 0..MaxTime
    /\ impls \in Seq(Impl)
    /\ proxies \in [Tokens -> Proxy]
    /\ proposals \in Seq(Proposal)
    /\ paid \in [Tokens -> [Seconds -> Nat]]
    /\ inits \in [Tokens -> Seq(Nat)]
    /\ settled \in BOOLEAN

RevisionOf(i) == IF i <= 2 THEN OldRevision[impls[i].token] ELSE REVISION[impls[i].token]

\* The old implementations come first, and nothing points beside the implementations of its token.
Linked ==
    /\ Len(impls) >= 2
    /\ \A i \in 1..Len(impls) : /\ impls[i].revision = RevisionOf(i)
                                /\ i <= 2 => impls[i].end = OldEnd
    /\ \A t \in Tokens : /\ proxies[t].implementation \in 1..Len(impls)
                         /\ impls[proxies[t].implementation].token = t
                         /\ impls[proxies[t].implementation].code
    /\ \A p \in 1..Len(proposals) : \A t \in Tokens :
           /\ proposals[p].impls[t] \in 3..Len(impls)
           /\ impls[proposals[p].impls[t]].token = t

Initialized_ ==
    \A t \in Tokens :
        /\ Len(inits[t]) >= 1
        /\ inits[t][Len(inits[t])] = proxies[t].lastInitializedRevision
        /\ \A i, j \in 1..Len(inits[t]) : i < j => inits[t][i] < inits[t][j]

OnTime ==
    \A t \in Tokens : \/ proxies[t].lastUpdateTimestamp <= now
                      \/ t = "stkREX" /\ proxies[t].lastUpdateTimestamp = OldEnd

Base == Shape /\ Linked /\ Initialized_ /\ OnTime

-----------------------------------------------------------------------------
LEMMA MinOfTwo ==
    ASSUME NEW a \in Nat, NEW b \in Nat
    PROVE  Min({a, b}) = IF a <= b THEN a ELSE b
<1> DEFINE m == IF a <= b THEN a ELSE b
<1>1. m \in {a, b} /\ \A y \in {a, b} : m <= y
  OBVIOUS
<1>2. ASSUME NEW x \in {a, b}, \A y \in {a, b} : x <= y PROVE x = m
  BY <1>2
<1> QED BY <1>1, <1>2 DEF Min

\* What the functions of a proxy do to its record.
LEMMA ProxyFunctions ==
    ASSUME Shape, NEW proxy \in Proxy, NEW i \in 1..Len(impls)
    PROVE  /\ LET q == Initialized(proxy, i) IN
                /\ q \in Proxy
                /\ q.implementation = proxy.implementation /\ q.admin = proxy.admin
                /\ q.lastInitializedRevision = impls[i].revision
                /\ q.lastUpdateTimestamp = IF impls[i].token = "stkREX" THEN OldEnd
                                           ELSE proxy.lastUpdateTimestamp
           /\ LET q == upgradeTo(proxy, i) IN
                /\ q \in Proxy
                /\ q.implementation = i /\ q.admin = proxy.admin
                /\ q.lastInitializedRevision = proxy.lastInitializedRevision
                /\ q.lastUpdateTimestamp = proxy.lastUpdateTimestamp
           /\ LET q == changeAdmin(proxy, i) IN
                /\ q \in Proxy
                /\ q.implementation = proxy.implementation /\ q.admin = "other"
                /\ q.lastInitializedRevision = proxy.lastInitializedRevision
                /\ q.lastUpdateTimestamp = proxy.lastUpdateTimestamp
<1>1. impls[i] \in Impl
  BY DEF Shape
<1>2. OldEnd \in Nat
  BY ExtensionAssumption
<1> DEFINE q == Initialized(proxy, i)
           last == IF impls[i].token = "stkREX" THEN OldEnd ELSE proxy.lastUpdateTimestamp
<1>3. last \in Nat /\ impls[i].revision \in Nat
  BY <1>1, <1>2 DEF Proxy, Impl
<1>4. q = [proxy EXCEPT !.lastInitializedRevision = impls[i].revision, !.lastUpdateTimestamp = last]
  BY DEF Initialized, Proxy
<1> HIDE DEF last
<1>5. q \in Proxy /\ q.implementation = proxy.implementation /\ q.admin = proxy.admin
      /\ q.lastInitializedRevision = impls[i].revision /\ q.lastUpdateTimestamp = last
  BY <1>3, <1>4 DEF Proxy
<1>6. i \in Nat
  OBVIOUS
<1>7. upgradeTo(proxy, i) \in Proxy /\ changeAdmin(proxy, i) \in Proxy
  BY <1>6 DEF upgradeTo, changeAdmin, Proxy
<1> QED BY <1>5, <1>6, <1>7 DEF last, upgradeTo, changeAdmin, Proxy

LEMMA UpgradedAndInitialized ==
    ASSUME Shape, NEW proxy \in Proxy, NEW i \in 1..Len(impls), MayInitialize(proxy, i)
    PROVE  LET q == upgradeToAndCall(proxy, i) IN
             /\ q \in Proxy
             /\ q.implementation = i /\ q.admin = proxy.admin
             /\ q.lastInitializedRevision = impls[i].revision
             /\ q.lastUpdateTimestamp = IF impls[i].token = "stkREX" THEN OldEnd
                                        ELSE proxy.lastUpdateTimestamp
<1>1. upgradeTo(proxy, i) \in Proxy /\ upgradeTo(proxy, i).admin = proxy.admin
      /\ upgradeTo(proxy, i).implementation = i
      /\ upgradeTo(proxy, i).lastUpdateTimestamp = proxy.lastUpdateTimestamp
  BY ProxyFunctions
<1>2. upgradeToAndCall(proxy, i) = Initialized(upgradeTo(proxy, i), i)
  BY DEF upgradeToAndCall
<1> QED BY <1>1, <1>2, ProxyFunctions, SMTT(20)

-----------------------------------------------------------------------------
LEMMA InitBase == Init => Base
<1> SUFFICES ASSUME Init PROVE Base
  OBVIOUS
<1> USE DEF Init
<1>1. Shape
  <2>1. impls \in Seq(Impl)
    BY ExtensionAssumption DEF Impl, OldRevision, Tokens
  <2>2. proxies \in [Tokens -> Proxy]
    BY DEF Proxy, OldRevision, Tokens
  <2>3. inits \in [Tokens -> Seq(Nat)]
    BY DEF OldRevision, Tokens
  <2>4. now \in 0..MaxTime
    BY ExtensionAssumption
  <2>6. proposals \in Seq(Proposal)
    OBVIOUS
  <2>7. settled \in BOOLEAN
    OBVIOUS
  <2>5. paid \in [Tokens -> [Seconds -> Nat]]
    OBVIOUS
  <2> HIDE DEF Init
  <2> QED BY <2>1, <2>2, <2>3, <2>4, <2>5, <2>6, <2>7 DEF Shape
<1>2. Linked
  <2>1. Len(impls) = 2 /\ Len(proposals) = 0
    OBVIOUS
  <2> QED BY <2>1 DEF Linked, RevisionOf, OldRevision, Tokens
<1>3. Initialized_
  BY DEF Initialized_, OldRevision, Tokens
<1>4. OnTime
  BY DEF OnTime
<1> QED BY <1>1, <1>2, <1>3, <1>4 DEF Base

-----------------------------------------------------------------------------
\* The time up to which an accrual of token t pays now.
UpTo(t) ==
    LET last == proxies[t].lastUpdateTimestamp
        end == DISTRIBUTION_END(t)
    IN  IF last >= end THEN last ELSE IF now <= end THEN now ELSE end

LEMMA EndIsNat ==
    ASSUME Shape, Linked, NEW t \in Tokens
    PROVE  DISTRIBUTION_END(t) \in Nat
<1>1. proxies[t].implementation \in 1..Len(impls) /\ impls \in Seq(Impl)
  BY DEF Shape, Linked
<1>2. impls[proxies[t].implementation] \in Impl
  BY <1>1
<1> QED BY <1>2 DEF DISTRIBUTION_END, Impl

LEMMA AccrueEffect ==
    ASSUME Shape, Linked, NEW t \in Tokens, Accrue(t)
    PROVE  /\ UpTo(t) \in Nat
           /\ proxies' \in [Tokens -> Proxy]
           /\ \A u \in Tokens :
                /\ proxies'[u].implementation = proxies[u].implementation
                /\ proxies'[u].admin = proxies[u].admin
                /\ proxies'[u].lastInitializedRevision = proxies[u].lastInitializedRevision
                /\ proxies'[u].lastUpdateTimestamp = IF u = t THEN now ELSE proxies[u].lastUpdateTimestamp
           /\ paid' \in [Tokens -> [Seconds -> Nat]]
           /\ \A u \in Tokens : \A s \in Seconds :
                paid'[u][s] = IF u = t /\ proxies[t].lastUpdateTimestamp <= s /\ s < UpTo(t)
                              THEN paid[u][s] + 1 ELSE paid[u][s]
           /\ UNCHANGED <<now, impls, proposals, inits, settled>>
<1> DEFINE last == proxies[t].lastUpdateTimestamp
           end == DISTRIBUTION_END(t)
<1>1. now \in Nat /\ last \in Nat /\ end \in Nat
  BY EndIsNat DEF Shape, Proxy
<1>2. UpTo(t) = (IF last >= end THEN last ELSE Min({now, end})) /\ UpTo(t) \in Nat
  BY <1>1, MinOfTwo DEF UpTo
<1>3. /\ proxies' = [proxies EXCEPT ![t].lastUpdateTimestamp = now]
      /\ UNCHANGED <<now, impls, proposals, inits, settled>>
  BY DEF Accrue
<1>4. paid' = [paid EXCEPT ![t] = [s \in Seconds |->
                   IF last <= s /\ s < UpTo(t) THEN paid[t][s] + 1 ELSE paid[t][s]]]
  BY <1>2 DEF Accrue
<1> HIDE DEF last, end
<1>5. proxies \in [Tokens -> Proxy] /\ paid \in [Tokens -> [Seconds -> Nat]]
  BY DEF Shape
<1>6. [proxies[t] EXCEPT !.lastUpdateTimestamp = now] \in Proxy
  BY <1>1, <1>5 DEF Proxy
<1>7. /\ proxies' \in [Tokens -> Proxy]
      /\ \A u \in Tokens : proxies'[u] = IF u = t THEN [proxies[t] EXCEPT !.lastUpdateTimestamp = now]
                                          ELSE proxies[u]
  BY <1>3, <1>5, <1>6
<1>8. \A u \in Tokens :
          /\ proxies'[u].implementation = proxies[u].implementation
          /\ proxies'[u].admin = proxies[u].admin
          /\ proxies'[u].lastInitializedRevision = proxies[u].lastInitializedRevision
          /\ proxies'[u].lastUpdateTimestamp = IF u = t THEN now ELSE proxies[u].lastUpdateTimestamp
  BY <1>5, <1>7 DEF Proxy
<1>9. /\ paid' \in [Tokens -> [Seconds -> Nat]]
      /\ \A u \in Tokens : \A s \in Seconds :
           paid'[u][s] = IF u = t /\ last <= s /\ s < UpTo(t) THEN paid[u][s] + 1 ELSE paid[u][s]
  <2> DEFINE row == [s \in Seconds |-> IF last <= s /\ s < UpTo(t) THEN paid[t][s] + 1 ELSE paid[t][s]]
  <2>1. row \in [Seconds -> Nat]
    BY <1>5
  <2>2. paid' = [paid EXCEPT ![t] = row]
    BY <1>4
  <2>3. \A s \in Seconds : row[s] = IF last <= s /\ s < UpTo(t) THEN paid[t][s] + 1 ELSE paid[t][s]
    OBVIOUS
  <2> HIDE DEF row
  <2>4. paid' \in [Tokens -> [Seconds -> Nat]] /\ paid'[t] = row
        /\ \A u \in Tokens \ {t} : paid'[u] = paid[u]
    BY <1>5, <2>1, <2>2
  <2> QED BY <2>3, <2>4
<1> QED BY <1>2, <1>3, <1>7, <1>8, <1>9 DEF last

-----------------------------------------------------------------------------
(***************************************************************************)
(* What an execution changes: with upgradeToAndCall both proxies are       *)
(* initialized at a greater revision, with upgradeTo and changeAdmin only  *)
(* the implementation or the admin is another.                             *)
(***************************************************************************)
LEMMA ExecuteEffect ==
    ASSUME Shape, Linked, NEW p \in 1..Len(proposals), Execute(p)
    PROVE  LET payload == proposals[p].payload
               i(t) == proposals[p].impls[t]
           IN  /\ \A t \in Tokens : i(t) \in 3..Len(impls) /\ proxies[t].admin = "executor"
               /\ proxies' \in [Tokens -> Proxy]
               /\ proposals' \in Seq(Proposal) /\ Len(proposals') = Len(proposals)
               /\ proposals[p].state = "queued"
               /\ \A q \in 1..Len(proposals) :
                    /\ proposals'[q].payload = proposals[q].payload
                    /\ proposals'[q].impls = proposals[q].impls
                    /\ proposals'[q].state = IF q = p THEN "executed" ELSE proposals[q].state
               /\ payload = "upgradeToAndCall" => \A t \in Tokens :
                    /\ impls[i(t)].code /\ MayInitialize(proxies[t], i(t))
                    /\ proxies'[t].implementation = i(t)
                    /\ proxies'[t].lastInitializedRevision = impls[i(t)].revision
                    /\ proxies'[t].lastUpdateTimestamp =
                          IF t = "stkREX" THEN OldEnd ELSE proxies[t].lastUpdateTimestamp
               /\ payload # "upgradeToAndCall" => \A t \in Tokens :
                    /\ \/ proxies'[t].implementation = i(t) /\ payload = "upgradeTo" /\ impls[i(t)].code
                       \/ proxies'[t].implementation = proxies[t].implementation /\ payload = "changeAdmin"
                    /\ proxies'[t].lastInitializedRevision = proxies[t].lastInitializedRevision
                    /\ proxies'[t].lastUpdateTimestamp = proxies[t].lastUpdateTimestamp
               /\ Remember(IF payload = "upgradeToAndCall" THEN Tokens ELSE {}, proxies')
               /\ UNCHANGED <<now, impls, paid>>
<1> DEFINE payload == proposals[p].payload
           i(t) == proposals[p].impls[t]
           new == [t \in Tokens |-> After(payload, proxies[t], i(t))]
<1>1. /\ proposals[p].state = "queued"
      /\ \A t \in Tokens : Succeeds(payload, proxies[t], i(t))
      /\ proxies' = new
      /\ proposals' = [proposals EXCEPT ![p].state = "executed"]
      /\ Remember(IF payload = "upgradeToAndCall" THEN Tokens ELSE {}, new)
      /\ UNCHANGED <<now, impls, paid>>
  BY DEF Execute
<1>2. /\ proposals \in Seq(Proposal) /\ proxies \in [Tokens -> Proxy]
      /\ proposals[p] \in Proposal
  BY DEF Shape
<1>3. payload \in {"upgradeToAndCall", "upgradeTo", "changeAdmin"}
  BY <1>2 DEF Proposal
<1>4. \A t \in Tokens : /\ i(t) \in 3..Len(impls) /\ i(t) \in 1..Len(impls)
                        /\ impls[i(t)].token = t /\ proxies[t] \in Proxy
  BY <1>2 DEF Linked
<1>5. \A t \in Tokens : new[t] = After(payload, proxies[t], i(t))
  OBVIOUS
<1>6. ASSUME NEW t \in Tokens
      PROVE  /\ proxies[t].admin = "executor"
             /\ new[t] \in Proxy
             /\ payload = "upgradeToAndCall" =>
                  /\ impls[i(t)].code /\ MayInitialize(proxies[t], i(t))
                  /\ new[t].implementation = i(t)
                  /\ new[t].lastInitializedRevision = impls[i(t)].revision
                  /\ new[t].lastUpdateTimestamp =
                        IF t = "stkREX" THEN OldEnd ELSE proxies[t].lastUpdateTimestamp
             /\ payload # "upgradeToAndCall" =>
                  /\ \/ new[t].implementation = i(t) /\ payload = "upgradeTo" /\ impls[i(t)].code
                     \/ new[t].implementation = proxies[t].implementation /\ payload = "changeAdmin"
                  /\ new[t].lastInitializedRevision = proxies[t].lastInitializedRevision
                  /\ new[t].lastUpdateTimestamp = proxies[t].lastUpdateTimestamp
  <2> HIDE DEF i, new, payload
  <2>0. /\ Succeeds(payload, proxies[t], i(t)) /\ new[t] = After(payload, proxies[t], i(t))
        /\ i(t) \in 1..Len(impls) /\ impls[i(t)].token = t /\ proxies[t] \in Proxy
    BY <1>1, <1>4, <1>5
  <2>1. CASE payload = "upgradeToAndCall"
    <3>1. UpgradeSucceeds(proxies[t], i(t)) /\ proxies[t].admin = "executor"
      BY <2>0, <2>1 DEF Succeeds
    <3>2. new[t] = upgradeToAndCall(proxies[t], i(t))
      BY <2>0, <2>1 DEF After
    <3> QED BY <2>0, <2>1, <3>1, <3>2, UpgradedAndInitialized DEF UpgradeSucceeds
  <2>2. CASE payload = "upgradeTo"
    <3>1. impls[i(t)].code /\ proxies[t].admin = "executor"
      BY <2>0, <2>2 DEF Succeeds
    <3>2. new[t] = upgradeTo(proxies[t], i(t))
      BY <2>0, <2>2 DEF After
    <3> QED BY <2>0, <2>2, <3>1, <3>2, ProxyFunctions, SMTT(20)
  <2>3. CASE payload = "changeAdmin"
    <3>1. proxies[t].admin = "executor"
      BY <2>0 DEF Succeeds
    <3>2. new[t] = changeAdmin(proxies[t], i(t))
      BY <2>0, <2>3 DEF After
    <3>3. /\ new[t] \in Proxy
          /\ new[t].implementation = proxies[t].implementation
          /\ new[t].lastInitializedRevision = proxies[t].lastInitializedRevision
          /\ new[t].lastUpdateTimestamp = proxies[t].lastUpdateTimestamp
      BY <2>0, <3>2, ProxyFunctions, SMTT(20)
    <3>4. payload # "upgradeToAndCall"
      BY <2>3
    <3> QED BY <2>3, <3>1, <3>3, <3>4
  <2> QED BY <1>3, <2>1, <2>2, <2>3
<1>7. new \in [Tokens -> Proxy]
  BY <1>6
<1>8. /\ proposals' \in Seq(Proposal) /\ Len(proposals') = Len(proposals)
      /\ \A q \in 1..Len(proposals) :
           proposals'[q] = IF q = p THEN [proposals[p] EXCEPT !.state = "executed"] ELSE proposals[q]
  <2>1. [proposals[p] EXCEPT !.state = "executed"] \in Proposal
    BY <1>2 DEF Proposal
  <2> QED BY <1>1, <1>2, <2>1
<1>9. \A q \in 1..Len(proposals) :
          /\ proposals'[q].payload = proposals[q].payload
          /\ proposals'[q].impls = proposals[q].impls
          /\ proposals'[q].state = IF q = p THEN "executed" ELSE proposals[q].state
  BY <1>2, <1>8 DEF Proposal
<1> HIDE DEF new
<1> QED BY <1>1, <1>4, <1>6, <1>7, <1>8, <1>9

-----------------------------------------------------------------------------
LEMMA AppendedInOrder ==
    ASSUME NEW l \in Seq(Nat), Len(l) >= 1, NEW r \in Nat, l[Len(l)] < r,
           \A i, j \in 1..Len(l) : i < j => l[i] < l[j]
    PROVE  LET m == Append(l, r) IN
             /\ m \in Seq(Nat) /\ Len(m) >= 1 /\ m[Len(m)] = r
             /\ \A i, j \in 1..Len(m) : i < j => m[i] < m[j]
<1> DEFINE m == Append(l, r)
<1>1. /\ m \in Seq(Nat) /\ Len(m) = Len(l) + 1 /\ m[Len(m)] = r /\ Len(l) \in Nat
      /\ \A i \in 1..Len(l) : m[i] = l[i] /\ l[i] \in Nat
  OBVIOUS
<1> HIDE DEF m
<1>2. \A i \in 1..Len(l) : l[i] <= l[Len(l)]
  BY <1>1, SMTT(20)
<1>3. ASSUME NEW i \in 1..Len(m), NEW j \in 1..Len(m), i < j PROVE m[i] < m[j]
  <2>1. i \in 1..Len(l)
    BY <1>1, <1>3
  <2>2. CASE j \in 1..Len(l)
    BY <1>1, <1>3, <2>1, <2>2
  <2>3. CASE j = Len(l) + 1
    <3>1. m[i] = l[i] /\ m[j] = r /\ l[i] <= l[Len(l)] /\ l[i] \in Nat /\ l[Len(l)] \in Nat
      BY <1>1, <1>2, <2>1, <2>3
    <3> QED BY <3>1
  <2> QED BY <1>1, <2>2, <2>3
<1> QED BY <1>1, <1>3 DEF m

\* Initializers that ran on the tokens in which, at greater revisions, keep the order.
LEMMA RememberKeepsOrder ==
    ASSUME Shape, Initialized_, NEW which \in SUBSET Tokens, NEW new \in [Tokens -> Proxy],
           proxies' = new, Remember(which, new),
           \A t \in which : proxies[t].lastInitializedRevision < new[t].lastInitializedRevision,
           \A t \in Tokens \ which :
               new[t].lastInitializedRevision = proxies[t].lastInitializedRevision
    PROVE  /\ inits' \in [Tokens -> Seq(Nat)]
           /\ settled' \in BOOLEAN
           /\ Initialized_'
<1>1. inits' = [t \in Tokens |-> IF t \in which THEN Append(inits[t], new[t].lastInitializedRevision)
                                                ELSE inits[t]]
  BY DEF Remember
<1>2. settled' \in BOOLEAN
  <2> DEFINE accrued == proxies["stkREX"].lastUpdateTimestamp >= OldEnd
  <2>1. settled' = IF "stkREX" \in which THEN accrued ELSE settled
    BY DEF Remember
  <2>2. accrued \in BOOLEAN
    OBVIOUS
  <2>3. settled \in BOOLEAN
    BY DEF Shape
  <2> HIDE DEF accrued
  <2> QED BY <2>1, <2>2, <2>3
<1>3. ASSUME NEW t \in Tokens
      PROVE  /\ inits'[t] \in Seq(Nat) /\ Len(inits'[t]) >= 1
             /\ inits'[t][Len(inits'[t])] = new[t].lastInitializedRevision
             /\ \A i, j \in 1..Len(inits'[t]) : i < j => inits'[t][i] < inits'[t][j]
  <2>1. inits[t] \in Seq(Nat) /\ new[t].lastInitializedRevision \in Nat
    BY DEF Shape, Proxy
  <2>2. /\ Len(inits[t]) >= 1
        /\ inits[t][Len(inits[t])] = proxies[t].lastInitializedRevision
        /\ \A i, j \in 1..Len(inits[t]) : i < j => inits[t][i] < inits[t][j]
    BY DEF Initialized_
  <2>3. CASE t \in which
    <3>1. inits'[t] = Append(inits[t], new[t].lastInitializedRevision)
      BY <1>1, <2>3
    <3>2. inits[t][Len(inits[t])] < new[t].lastInitializedRevision
      BY <2>2, <2>3
    <3> DEFINE l == inits[t]
               r == new[t].lastInitializedRevision
               m == inits'[t]
    <3>3. /\ l \in Seq(Nat) /\ Len(l) >= 1 /\ r \in Nat /\ l[Len(l)] < r /\ m = Append(l, r)
          /\ \A i, j \in 1..Len(l) : i < j => l[i] < l[j]
      BY <2>1, <2>2, <3>1, <3>2
    <3> HIDE DEF l, r, m
    <3>4. /\ m \in Seq(Nat) /\ Len(m) >= 1 /\ m[Len(m)] = r
          /\ \A i, j \in 1..Len(m) : i < j => m[i] < m[j]
      BY <3>3, AppendedInOrder
    <3> QED BY <3>4 DEF m, r
  <2>4. CASE t \notin which
    BY <1>1, <2>1, <2>2, <2>4
  <2> QED BY <2>3, <2>4
<1>4. inits' \in [Tokens -> Seq(Nat)]
  BY <1>1, <1>3
<1>5. Initialized_'
  BY <1>3 DEF Initialized_
<1> QED BY <1>2, <1>4, <1>5

-----------------------------------------------------------------------------
LEMMA TickBase == Base /\ Tick => Base'
<1> SUFFICES ASSUME Base, Tick PROVE Base'
  OBVIOUS
<1>1. now' = now + 1 /\ now' \in 0..MaxTime
  BY ExtensionAssumption DEF Base, Shape, Tick
<1>2. UNCHANGED <<impls, proxies, proposals, paid, inits, settled>>
  BY DEF Tick
<1>3. Shape' /\ Linked' /\ Initialized_'
  BY <1>1, <1>2 DEF Base, Shape, Linked, RevisionOf, Initialized_
<1>4. \A t \in Tokens : proxies[t].lastUpdateTimestamp \in Nat
  BY DEF Base, Shape, Proxy
<1>5. OnTime'
  <2>1. now \in Nat
    BY DEF Base, Shape
  <2>2. OnTime
    BY DEF Base
  <2> QED BY <1>1, <1>2, <1>4, <2>1, <2>2 DEF OnTime
<1> QED BY <1>3, <1>5 DEF Base

LEMMA AccrueBase == ASSUME NEW t \in Tokens, Base, Accrue(t) PROVE Base'
<1>1. Shape /\ Linked /\ Initialized_ /\ OnTime
  BY DEF Base
<1>2. /\ proxies' \in [Tokens -> Proxy]
      /\ \A u \in Tokens :
           /\ proxies'[u].implementation = proxies[u].implementation
           /\ proxies'[u].lastInitializedRevision = proxies[u].lastInitializedRevision
           /\ proxies'[u].lastUpdateTimestamp = IF u = t THEN now ELSE proxies[u].lastUpdateTimestamp
      /\ paid' \in [Tokens -> [Seconds -> Nat]]
      /\ UNCHANGED <<now, impls, proposals, inits, settled>>
  BY <1>1, AccrueEffect
<1>3. Shape'
  BY <1>1, <1>2 DEF Shape
<1>4. Linked'
  BY <1>1, <1>2 DEF Linked, RevisionOf
<1>5. Initialized_'
  BY <1>1, <1>2 DEF Initialized_
<1>6. OnTime'
  <2>1. now \in Nat /\ now' = now
    BY <1>1, <1>2 DEF Shape
  <2>2. ASSUME NEW u \in Tokens
        PROVE  \/ proxies'[u].lastUpdateTimestamp <= now'
               \/ u = "stkREX" /\ proxies'[u].lastUpdateTimestamp = OldEnd
    <3>1. CASE u = t
      BY <1>2, <2>1, <3>1
    <3>2. CASE u # t
      BY <1>1, <1>2, <2>1, <3>2 DEF OnTime
    <3> QED BY <3>1, <3>2
  <2> QED BY <2>2 DEF OnTime
<1> QED BY <1>3, <1>4, <1>5, <1>6 DEF Base

LEMMA DeployEffect ==
    ASSUME NEW t \in Tokens, Base, DeployImpl(t)
    PROVE  /\ impls' \in Seq(Impl) /\ Len(impls') = Len(impls) + 1
           /\ \A i \in 1..Len(impls) : impls'[i] = impls[i]
           /\ impls'[Len(impls) + 1].revision = REVISION[t] /\ impls'[Len(impls) + 1].token = t
           /\ UNCHANGED <<now, proxies, proposals, paid, inits, settled>>
<1>1. PICK code \in BOOLEAN :
        impls' = Append(impls, [token |-> t, revision |-> REVISION[t], end |-> now + Duration,
                                code |-> code])
  BY DEF DeployImpl
<1>2. [token |-> t, revision |-> REVISION[t], end |-> now + Duration, code |-> code] \in Impl
  BY ExtensionAssumption DEF Base, Shape, Impl, REVISION
<1>3. UNCHANGED <<now, proxies, proposals, paid, inits, settled>>
  BY DEF DeployImpl
<1> QED BY <1>1, <1>2, <1>3 DEF Base, Shape

LEMMA DeployBase == ASSUME NEW t \in Tokens, Base, DeployImpl(t) PROVE Base'
<1>1. Shape /\ Linked /\ Initialized_ /\ OnTime
  BY DEF Base
<1>2. /\ impls' \in Seq(Impl) /\ Len(impls') = Len(impls) + 1 /\ Len(impls) \in Nat
      /\ \A i \in 1..Len(impls) : impls'[i] = impls[i]
      /\ impls'[Len(impls) + 1].revision = REVISION[t] /\ impls'[Len(impls) + 1].token = t
      /\ UNCHANGED <<now, proxies, proposals, paid, inits, settled>>
  BY <1>1, DeployEffect DEF Shape
<1>3. Shape'
  BY <1>1, <1>2 DEF Shape
<1>4. Linked'
  <2>1. ASSUME NEW i \in 1..Len(impls')
        PROVE  impls'[i].revision = RevisionOf(i)' /\ (i <= 2 => impls'[i].end = OldEnd)
    <3>1. CASE i \in 1..Len(impls)
      BY <1>1, <1>2, <3>1 DEF Linked, RevisionOf
    <3>2. CASE i = Len(impls) + 1
      BY <1>1, <1>2, <3>2 DEF Linked, RevisionOf
    <3> QED BY <1>2, <3>1, <3>2
  <2>2. Len(impls') >= 2
    BY <1>1, <1>2 DEF Linked
  <2>3. \A u \in Tokens : /\ proxies'[u].implementation \in 1..Len(impls')
                          /\ impls'[proxies'[u].implementation].token = u
                          /\ impls'[proxies'[u].implementation].code
    BY <1>1, <1>2 DEF Linked
  <2>4. \A p \in 1..Len(proposals') : \A u \in Tokens :
           /\ proposals'[p].impls[u] \in 3..Len(impls')
           /\ impls'[proposals'[p].impls[u]].token = u
    BY <1>1, <1>2 DEF Linked
  <2> QED BY <2>1, <2>2, <2>3, <2>4 DEF Linked
<1>5. Initialized_' /\ OnTime'
  BY <1>1, <1>2 DEF Initialized_, OnTime
<1> QED BY <1>3, <1>4, <1>5 DEF Base

LEMMA CreateEffect ==
    ASSUME NEW payload \in Payloads, Base, Create(payload)
    PROVE  \E chosen \in [Tokens -> Nat] :
             /\ \A t \in Tokens : chosen[t] \in 3..Len(impls) /\ impls[chosen[t]].token = t
             /\ proposals' = Append(proposals, [payload |-> payload, impls |-> chosen, state |-> "created"])
             /\ UNCHANGED <<now, impls, proxies, paid, inits, settled>>
<1>1. PICK i \in ImplsOf("stkREX"), j \in ImplsOf("stkBPT") :
        proposals' = Append(proposals,
            [payload |-> payload, impls |-> [t \in Tokens |-> IF t = "stkREX" THEN i ELSE j],
             state |-> "created"])
  BY DEF Create, proposeExtension
<1> DEFINE chosen == [t \in Tokens |-> IF t = "stkREX" THEN i ELSE j]
<1>2. \A t \in Tokens : chosen[t] \in 3..Len(impls) /\ impls[chosen[t]].token = t
  BY DEF ImplsOf, Tokens
<1>3. chosen \in [Tokens -> Nat]
  BY <1>2
<1>4. UNCHANGED <<now, impls, proxies, paid, inits, settled>>
  BY DEF Create
<1> QED BY <1>1, <1>2, <1>3, <1>4

LEMMA CreateBase == ASSUME NEW payload \in Payloads, Base, Create(payload) PROVE Base'
<1>1. Shape /\ Linked /\ Initialized_ /\ OnTime
  BY DEF Base
<1>2. PICK chosen \in [Tokens -> Nat] :
        /\ \A t \in Tokens : chosen[t] \in 3..Len(impls) /\ impls[chosen[t]].token = t
        /\ proposals' = Append(proposals, [payload |-> payload, impls |-> chosen, state |-> "created"])
        /\ UNCHANGED <<now, impls, proxies, paid, inits, settled>>
  BY CreateEffect
<1> DEFINE made == [payload |-> payload, impls |-> chosen, state |-> "created"]
<1>3. made \in Proposal /\ made.impls = chosen
  BY ExtensionAssumption DEF Proposal
<1>4. proposals' = Append(proposals, made)
  BY <1>2
<1> HIDE DEF made
<1>5. /\ proposals' \in Seq(Proposal) /\ Len(proposals') = Len(proposals) + 1
      /\ Len(proposals) \in Nat
      /\ \A p \in 1..Len(proposals) : proposals'[p] = proposals[p]
      /\ proposals'[Len(proposals) + 1] = made
  BY <1>1, <1>3, <1>4 DEF Shape
<1>6. Shape'
  BY <1>1, <1>2, <1>5 DEF Shape
<1>7. Linked'
  <2>1. ASSUME NEW p \in 1..Len(proposals'), NEW t \in Tokens
        PROVE  proposals'[p].impls[t] \in 3..Len(impls') /\ impls'[proposals'[p].impls[t]].token = t
    <3>1. CASE p \in 1..Len(proposals)
      BY <1>1, <1>2, <1>5, <3>1 DEF Linked
    <3>2. CASE p = Len(proposals) + 1
      BY <1>2, <1>3, <1>5, <3>2
    <3> QED BY <1>5, <3>1, <3>2
  <2> QED BY <1>1, <1>2, <2>1 DEF Linked, RevisionOf
<1>8. Initialized_' /\ OnTime'
  BY <1>1, <1>2 DEF Initialized_, OnTime
<1> QED BY <1>6, <1>7, <1>8 DEF Base

LEMMA QueueEffect ==
    ASSUME NEW p \in 1..Len(proposals), Base, Queue(p)
    PROVE  /\ proposals' \in Seq(Proposal) /\ Len(proposals') = Len(proposals)
           /\ proposals[p].state = "created"
           /\ \A q \in 1..Len(proposals) :
                /\ proposals'[q].payload = proposals[q].payload
                /\ proposals'[q].impls = proposals[q].impls
                /\ q # p => proposals'[q].state = proposals[q].state
           /\ UNCHANGED <<now, impls, proxies, paid, inits, settled>>
<1>1. PICK state \in {"queued", "over"} : proposals' = [proposals EXCEPT ![p].state = state]
  BY DEF Queue
<1>2. proposals \in Seq(Proposal) /\ proposals[p] \in Proposal
  BY DEF Base, Shape
<1>3. [proposals[p] EXCEPT !.state = state] \in Proposal
  BY <1>2 DEF Proposal
<1>4. /\ proposals' \in Seq(Proposal) /\ Len(proposals') = Len(proposals)
      /\ \A q \in 1..Len(proposals) :
           proposals'[q] = IF q = p THEN [proposals[p] EXCEPT !.state = state] ELSE proposals[q]
  BY <1>1, <1>2, <1>3
<1>5. \A q \in 1..Len(proposals) :
          /\ proposals'[q].payload = proposals[q].payload
          /\ proposals'[q].impls = proposals[q].impls
          /\ q # p => proposals'[q].state = proposals[q].state
  BY <1>2, <1>4 DEF Proposal
<1>6. proposals[p].state = "created" /\ UNCHANGED <<now, impls, proxies, paid, inits, settled>>
  BY DEF Queue
<1> QED BY <1>4, <1>5, <1>6

LEMMA QueueBase == ASSUME NEW p \in 1..Len(proposals), Base, Queue(p) PROVE Base'
<1>1. Shape /\ Linked /\ Initialized_ /\ OnTime
  BY DEF Base
<1>2. /\ proposals' \in Seq(Proposal) /\ Len(proposals') = Len(proposals)
      /\ \A q \in 1..Len(proposals) : proposals'[q].impls = proposals[q].impls
      /\ UNCHANGED <<now, impls, proxies, paid, inits, settled>>
  BY QueueEffect
<1>3. Shape'
  BY <1>1, <1>2 DEF Shape
<1>4. Linked'
  BY <1>1, <1>2 DEF Linked, RevisionOf
<1>5. Initialized_' /\ OnTime'
  BY <1>1, <1>2 DEF Initialized_, OnTime
<1> QED BY <1>3, <1>4, <1>5 DEF Base

LEMMA ExecuteBase == ASSUME NEW p \in 1..Len(proposals), Base, Execute(p) PROVE Base'
<1> DEFINE payload == proposals[p].payload
           i(t) == proposals[p].impls[t]
           which == IF payload = "upgradeToAndCall" THEN Tokens ELSE {}
<1>1. Shape /\ Linked /\ Initialized_ /\ OnTime
  BY DEF Base
<1>2. /\ proxies' \in [Tokens -> Proxy]
      /\ proposals' \in Seq(Proposal) /\ Len(proposals') = Len(proposals)
      /\ \A q \in 1..Len(proposals) : proposals'[q].impls = proposals[q].impls
      /\ Remember(which, proxies')
      /\ UNCHANGED <<now, impls, paid>>
  BY <1>1, ExecuteEffect
<1>3. payload = "upgradeToAndCall" => \A t \in Tokens :
          /\ impls[i(t)].code /\ MayInitialize(proxies[t], i(t))
          /\ proxies'[t].implementation = i(t)
          /\ proxies'[t].lastInitializedRevision = impls[i(t)].revision
          /\ proxies'[t].lastUpdateTimestamp =
                IF t = "stkREX" THEN OldEnd ELSE proxies[t].lastUpdateTimestamp
  BY <1>1, ExecuteEffect
<1>4. payload # "upgradeToAndCall" => \A t \in Tokens :
          /\ \/ proxies'[t].implementation = i(t) /\ impls[i(t)].code
             \/ proxies'[t].implementation = proxies[t].implementation
          /\ proxies'[t].lastInitializedRevision = proxies[t].lastInitializedRevision
          /\ proxies'[t].lastUpdateTimestamp = proxies[t].lastUpdateTimestamp
  BY <1>1, ExecuteEffect
<1>5. \A t \in Tokens : i(t) \in 3..Len(impls) /\ impls[i(t)].token = t /\ i(t) \in 1..Len(impls)
  BY <1>1 DEF Linked
<1> HIDE DEF payload, i
<1>6. /\ inits' \in [Tokens -> Seq(Nat)]
      /\ settled' \in BOOLEAN
      /\ Initialized_'
  <2>1. which \in SUBSET Tokens
    OBVIOUS
  <2>2. \A t \in which : proxies[t].lastInitializedRevision < proxies'[t].lastInitializedRevision
    BY <1>3 DEF MayInitialize
  <2>3. \A t \in Tokens \ which :
             proxies'[t].lastInitializedRevision = proxies[t].lastInitializedRevision
    BY <1>4
  <2> HIDE DEF which
  <2> QED BY <1>1, <1>2, <2>1, <2>2, <2>3, RememberKeepsOrder
<1>7. Shape'
  BY <1>1, <1>2, <1>6 DEF Shape
<1>8. Linked'
  <2>1. \A t \in Tokens : /\ proxies'[t].implementation \in 1..Len(impls)
                          /\ impls[proxies'[t].implementation].token = t
                          /\ impls[proxies'[t].implementation].code
    BY <1>1, <1>3, <1>4, <1>5 DEF Linked
  <2>2. \A q \in 1..Len(proposals') : \A t \in Tokens :
            proposals'[q].impls[t] \in 3..Len(impls) /\ impls[proposals'[q].impls[t]].token = t
    BY <1>1, <1>2 DEF Linked
  <2>3. /\ Len(impls) >= 2
        /\ \A j \in 1..Len(impls) : impls[j].revision = RevisionOf(j)'
                                     /\ (j <= 2 => impls[j].end = OldEnd)
    BY <1>1, <1>2 DEF Linked, RevisionOf
  <2>4. impls' = impls
    BY <1>2
  <2> QED BY <2>1, <2>2, <2>3, <2>4 DEF Linked
<1>9. OnTime'
  BY <1>1, <1>2, <1>3, <1>4 DEF OnTime
<1> QED BY <1>6, <1>7, <1>8, <1>9 DEF Base

LEMMA InitializeBase == ASSUME NEW t \in Tokens, Base, Initialize(t) PROVE Base'
<1> DEFINE i == proxies[t].implementation
           new == [proxies EXCEPT ![t] = Initialized(proxies[t], i)]
<1>1. Shape /\ Linked /\ Initialized_ /\ OnTime
  BY DEF Base
<1>2. /\ MayInitialize(proxies[t], i) /\ proxies' = new
      /\ Remember({t}, new) /\ UNCHANGED <<now, impls, proposals, paid>>
  BY DEF Initialize
<1>3. i \in 1..Len(impls) /\ proxies \in [Tokens -> Proxy] /\ proxies[t] \in Proxy
      /\ impls[i].token = t
  BY <1>1 DEF Linked, Shape
<1>4. LET q == Initialized(proxies[t], i) IN
        /\ q \in Proxy /\ q.implementation = i
        /\ q.lastInitializedRevision = impls[i].revision
        /\ q.lastUpdateTimestamp = IF t = "stkREX" THEN OldEnd ELSE proxies[t].lastUpdateTimestamp
  BY <1>1, <1>3, ProxyFunctions, SMTT(20)
<1>5. /\ new \in [Tokens -> Proxy]
      /\ new[t] = Initialized(proxies[t], i)
      /\ \A u \in Tokens \ {t} : new[u] = proxies[u]
  BY <1>3, <1>4
<1> HIDE DEF new
<1>6. /\ \A u \in {t} : proxies[u].lastInitializedRevision < new[u].lastInitializedRevision
      /\ \A u \in Tokens \ {t} :
             new[u].lastInitializedRevision = proxies[u].lastInitializedRevision
  BY <1>2, <1>4, <1>5 DEF MayInitialize
<1>7. {t} \in SUBSET Tokens
  OBVIOUS
<1>8. inits' \in [Tokens -> Seq(Nat)] /\ settled' \in BOOLEAN /\ Initialized_'
  BY <1>1, <1>2, <1>5, <1>6, <1>7, RememberKeepsOrder
<1>9. Shape'
  BY <1>1, <1>2, <1>5, <1>8 DEF Shape
<1>10. \A u \in Tokens : /\ proxies'[u].implementation = proxies[u].implementation
                         /\ \/ proxies'[u].lastUpdateTimestamp = proxies[u].lastUpdateTimestamp
                            \/ u = "stkREX" /\ proxies'[u].lastUpdateTimestamp = OldEnd
  BY <1>2, <1>4, <1>5
<1>11. Linked'
  BY <1>1, <1>2, <1>10 DEF Linked, RevisionOf
<1>12. OnTime'
  BY <1>1, <1>2, <1>10 DEF OnTime
<1> QED BY <1>8, <1>9, <1>11, <1>12 DEF Base

LEMMA BaseIsInductive == Base /\ [Next]_vars => Base'
<1> SUFFICES ASSUME Base, [Next]_vars PROVE Base'
  OBVIOUS
<1>1. CASE Tick
  BY <1>1, TickBase
<1>2. ASSUME NEW t \in Tokens, Accrue(t) PROVE Base'
  BY <1>2, AccrueBase
<1>3. ASSUME NEW t \in Tokens, DeployImpl(t) PROVE Base'
  BY <1>3, DeployBase
<1>4. ASSUME NEW t \in Tokens, Initialize(t) PROVE Base'
  BY <1>4, InitializeBase
<1>5. ASSUME NEW payload \in Payloads, Create(payload) PROVE Base'
  BY <1>5, CreateBase
<1>6. ASSUME NEW p \in 1..Len(proposals), Queue(p) PROVE Base'
  BY <1>6, QueueBase
<1>7. ASSUME NEW p \in 1..Len(proposals), Execute(p) PROVE Base'
  BY <1>7, ExecuteBase
<1>8. CASE UNCHANGED vars
  BY <1>8 DEF Base, Shape, Linked, RevisionOf, Initialized_, OnTime, vars
<1> QED BY <1>1, <1>2, <1>3, <1>4, <1>5, <1>6, <1>7, <1>8 DEF Next

-----------------------------------------------------------------------------
(***************************************************************************)
(* Provided that no upgrade left an initializer uncalled: both tokens have *)
(* their new revision, initialized, or none has; what was paid lies before *)
(* the last update and now - the rewound one may lie ahead -, and before   *)
(* the old end as long as the old revision is in force; and nothing that   *)
(* GapIsPaid speaks of is missing.                                         *)
(***************************************************************************)
Once ==
    \A t \in Tokens : \A s \in Seconds :
        \/ paid[t][s] = 0
        \/ /\ paid[t][s] = 1
           /\ s < proxies[t].lastUpdateTimestamp /\ s < now
           /\ AtRevisions(OldRevision) => s < OldEnd

NoneMissing ==
    \A s \in Seconds :
        /\ s < proxies["stkREX"].lastUpdateTimestamp
        /\ s < DISTRIBUTION_END("stkREX")
        /\ AtRevisions(OldRevision) \/ s >= OldEnd \/ settled
        => paid["stkREX"][s] = 1

Accounted ==
    /\ AtRevisions(REVISION) \/ AtRevisions(OldRevision)
    /\ Once
    /\ NoneMissing

ExtensionIInv == Base /\ (NeverBareUpgrade => Accounted)

LEMMA InitAccounted == Init => Accounted
<1> SUFFICES ASSUME Init PROVE Accounted
  OBVIOUS
<1>1. AtRevisions(OldRevision)
  BY DEF Init, AtRevisions, Tokens
<1>2. \A t \in Tokens : /\ \A s \in Seconds : paid[t][s] = 0
                        /\ proxies[t].lastUpdateTimestamp = 0
  BY DEF Init
<1>3. Once
  BY <1>2 DEF Once
<1>4. NoneMissing
  BY <1>2 DEF NoneMissing, Seconds, Tokens
<1> QED BY <1>1, <1>3, <1>4 DEF Accounted

\* No step takes an executed proposal back.
LEMMA BareUpgradeStays ==
    ASSUME Base, Next, NeverBareUpgrade' PROVE NeverBareUpgrade
<1> SUFFICES ASSUME NEW p \in 1..Len(proposals), proposals[p].payload = "upgradeTo",
                    proposals[p].state = "executed"
             PROVE  FALSE
  BY DEF NeverBareUpgrade
<1>1. SUFFICES /\ p \in 1..Len(proposals') /\ proposals'[p].payload = "upgradeTo"
               /\ proposals'[p].state = "executed"
  BY DEF NeverBareUpgrade
<1>2. proposals \in Seq(Proposal) /\ Shape /\ Linked
  BY DEF Base, Shape
<1>3. CASE UNCHANGED proposals
  BY <1>3
<1>4. ASSUME NEW payload \in Payloads, Create(payload)
      PROVE  p \in 1..Len(proposals') /\ proposals'[p] = proposals[p]
  <2>1. PICK chosen \in [Tokens -> Nat] :
          proposals' = Append(proposals, [payload |-> payload, impls |-> chosen, state |-> "created"])
    BY <1>4, CreateEffect
  <2> DEFINE made == [payload |-> payload, impls |-> chosen, state |-> "created"]
  <2>2. proposals' = Append(proposals, made)
    BY <2>1
  <2>3. made \in Proposal
    BY ExtensionAssumption DEF Proposal
  <2> HIDE DEF made
  <2> QED BY <1>2, <2>2, <2>3
<1>5. ASSUME NEW q \in 1..Len(proposals), Queue(q)
      PROVE  /\ Len(proposals') = Len(proposals) /\ proposals'[p].payload = proposals[p].payload
             /\ proposals'[p].state = proposals[p].state
  <2>1. p # q
    BY <1>5, QueueEffect
  <2> QED BY <1>5, <2>1, QueueEffect
<1>6. ASSUME NEW q \in 1..Len(proposals), Execute(q)
      PROVE  /\ Len(proposals') = Len(proposals) /\ proposals'[p].payload = proposals[p].payload
             /\ proposals'[p].state = "executed"
  BY <1>2, <1>6, ExecuteEffect
<1>7. (Tick \/ \E t \in Tokens : Accrue(t) \/ DeployImpl(t) \/ Initialize(t)) => UNCHANGED proposals
  BY DEF Tick, Accrue, DeployImpl, Initialize
<1> QED BY <1>3, <1>4, <1>5, <1>6, <1>7 DEF Next

-----------------------------------------------------------------------------
\* Steps that leave proxies and payments alone, and at most add implementations.
LEMMA AccountedStays ==
    ASSUME Base, Accounted, UNCHANGED <<proxies, paid, settled>>, now' \in Nat, now <= now',
           \A i \in 1..Len(impls) : impls'[i] = impls[i]
    PROVE  Accounted'
<1>1. \A t \in Tokens : proxies[t].implementation \in 1..Len(impls)
  BY DEF Base, Linked
<1>2. \A t \in Tokens : impls'[proxies'[t].implementation] = impls[proxies[t].implementation]
  BY <1>1
<1>3. AtRevisions(REVISION)' = AtRevisions(REVISION) /\ AtRevisions(OldRevision)' = AtRevisions(OldRevision)
  BY <1>2 DEF AtRevisions
<1>4. DISTRIBUTION_END("stkREX")' = DISTRIBUTION_END("stkREX")
  BY <1>2 DEF DISTRIBUTION_END, Tokens
<1>5. Once'
  <2>1. now \in Nat /\ Seconds \subseteq Nat
    BY ExtensionAssumption DEF Base, Shape, Seconds
  <2>2. ASSUME NEW s \in Seconds, s < now PROVE s < now'
    <3>1. s \in Nat
      BY <2>1
    <3> HIDE DEF Seconds
    <3> QED BY <2>1, <2>2, <3>1
  <2> QED BY <1>3, <2>2 DEF Accounted, Once
<1>6. NoneMissing'
  BY <1>3, <1>4 DEF Accounted, NoneMissing
<1> QED BY <1>3, <1>5, <1>6 DEF Accounted

\* Under the old revisions the end is the old one.
LEMMA OldEnds ==
    ASSUME Base, AtRevisions(OldRevision), NEW t \in Tokens
    PROVE  DISTRIBUTION_END(t) = OldEnd
<1> DEFINE i == proxies[t].implementation
<1>1. i \in 1..Len(impls) /\ impls[i].token = t /\ impls[i].revision = OldRevision[t]
  BY DEF Base, Linked, AtRevisions
<1>2. impls[i].revision = RevisionOf(i) /\ (i <= 2 => impls[i].end = OldEnd)
  BY <1>1 DEF Base, Linked
<1>3. REVISION[t] # OldRevision[t]
  BY DEF REVISION, OldRevision, Tokens
<1>4. i <= 2
  BY <1>1, <1>2, <1>3 DEF RevisionOf
<1> QED BY <1>2, <1>4 DEF DISTRIBUTION_END

LEMMA AccrueAccounted ==
    ASSUME NEW t \in Tokens, Base, Accounted, Accrue(t) PROVE Accounted'
<1> DEFINE last == proxies[t].lastUpdateTimestamp
<1>1. Shape /\ Linked
  BY DEF Base
<1>2. /\ \A u \in Tokens :
           /\ proxies'[u].implementation = proxies[u].implementation
           /\ proxies'[u].lastInitializedRevision = proxies[u].lastInitializedRevision
           /\ proxies'[u].lastUpdateTimestamp = IF u = t THEN now ELSE proxies[u].lastUpdateTimestamp
      /\ \A u \in Tokens : \A s \in Seconds :
           paid'[u][s] = IF u = t /\ last <= s /\ s < UpTo(t) THEN paid[u][s] + 1 ELSE paid[u][s]
      /\ UNCHANGED <<now, impls, settled>>
  BY <1>1, AccrueEffect
<1>3. /\ AtRevisions(REVISION)' = AtRevisions(REVISION)
      /\ AtRevisions(OldRevision)' = AtRevisions(OldRevision)
      /\ DISTRIBUTION_END("stkREX")' = DISTRIBUTION_END("stkREX")
  BY <1>2 DEF AtRevisions, DISTRIBUTION_END, Tokens
<1>4. now \in Nat /\ last \in Nat /\ DISTRIBUTION_END(t) \in Nat
  BY <1>1, EndIsNat DEF Shape, Proxy
<1>5. last <= UpTo(t) /\ (last < UpTo(t) => UpTo(t) <= now /\ UpTo(t) <= DISTRIBUTION_END(t))
      /\ (last < DISTRIBUTION_END(t) => UpTo(t) <= now)
      /\ \A s \in Seconds : s < now /\ s < DISTRIBUTION_END(t) => s < last \/ s < UpTo(t)
  <2>1. last <= UpTo(t)
    <3>1. UpTo(t) = IF last >= DISTRIBUTION_END(t) THEN last ELSE Min({now, DISTRIBUTION_END(t)})
      BY <1>4, MinOfTwo DEF UpTo
    <3> QED BY <3>1 DEF Accrue
  <2>2. UpTo(t) = IF last >= DISTRIBUTION_END(t) THEN last
                  ELSE IF now <= DISTRIBUTION_END(t) THEN now ELSE DISTRIBUTION_END(t)
    BY DEF UpTo
  <2> HIDE DEF last
  <2> QED BY <1>4, <2>1, <2>2 DEF Seconds
<1> HIDE DEF last
<1>6. ASSUME NEW s \in Seconds
      PROVE  \/ paid[t][s] = 0
             \/ /\ paid[t][s] = 1
                /\ s < last /\ s < now
                /\ AtRevisions(OldRevision) => s < OldEnd
  BY DEF Accounted, Once, last
<1>7. AtRevisions(OldRevision) => DISTRIBUTION_END(t) = OldEnd
  BY OldEnds
<1>8. Seconds \subseteq Nat /\ UpTo(t) \in Nat
  BY <1>1, AccrueEffect, ExtensionAssumption DEF Seconds
<1>9. last # now
  BY DEF Accrue, last
<1>10. ASSUME NEW s \in Seconds, last <= s, s < UpTo(t)
       PROVE  paid'[t][s] = 1 /\ s < now /\ s < DISTRIBUTION_END(t)
  <2>1. s \in Nat
    BY <1>8
  <2>2. paid[t][s] = 0
    BY <1>4, <1>6, <1>10, <2>1
  <2>3. paid'[t][s] = 1
    BY <1>2, <1>10, <2>2
  <2> QED BY <1>4, <1>5, <1>8, <1>10, <2>1, <2>3
<1>11. ASSUME NEW s \in Seconds, ~(last <= s /\ s < UpTo(t)) PROVE paid'[t][s] = paid[t][s]
  BY <1>2, <1>11
<1>12. Once'
  <2>1. ASSUME NEW s \in Seconds
        PROVE  \/ paid'[t][s] = 0
               \/ /\ paid'[t][s] = 1
                  /\ s < now
                  /\ AtRevisions(OldRevision) => s < OldEnd
    <3>1. CASE last <= s /\ s < UpTo(t)
      BY <1>7, <1>10, <3>1
    <3>2. CASE ~(last <= s /\ s < UpTo(t))
      BY <1>6, <1>11, <3>2
    <3> QED BY <3>1, <3>2
  <2>2. \A u \in Tokens \ {t} : \A s \in Seconds : paid'[u][s] = paid[u][s]
    BY <1>2
  <2> QED BY <1>2, <1>3, <2>1, <2>2 DEF Accounted, Once
<1>13. NoneMissing'
  <2>1. CASE t = "stkREX"
    <3>1. ASSUME NEW s \in Seconds, s < now, s < DISTRIBUTION_END(t),
                 AtRevisions(OldRevision) \/ s >= OldEnd \/ settled
          PROVE  paid'[t][s] = 1
      <4>1. CASE s < last
        <5>1. paid[t][s] = 1
          BY <2>1, <3>1, <4>1 DEF Accounted, NoneMissing, last
        <5>2. ~(last <= s /\ s < UpTo(t))
          BY <1>4, <1>8, <4>1
        <5> QED BY <1>11, <5>1, <5>2
      <4>2. CASE last <= s
        BY <1>4, <1>5, <1>8, <1>10, <3>1, <4>2
      <4> QED BY <1>4, <1>8, <4>1, <4>2
    <3>2. proxies'["stkREX"].lastUpdateTimestamp = now /\ settled' = settled
      BY <1>2, <2>1
    <3> QED BY <1>3, <2>1, <3>1, <3>2 DEF NoneMissing
  <2>2. CASE t # "stkREX"
    <3>1. /\ \A s \in Seconds : paid'["stkREX"][s] = paid["stkREX"][s]
          /\ proxies'["stkREX"].lastUpdateTimestamp = proxies["stkREX"].lastUpdateTimestamp
          /\ settled' = settled
      BY <1>2, <2>2 DEF Tokens
    <3> QED BY <1>3, <3>1 DEF Accounted, NoneMissing
  <2> QED BY <2>1, <2>2
<1> QED BY <1>3, <1>12, <1>13 DEF Accounted

LEMMA ExecuteAccounted ==
    ASSUME NEW p \in 1..Len(proposals), Base, Accounted, NeverBareUpgrade', Execute(p)
    PROVE  Accounted'
<1> DEFINE payload == proposals[p].payload
           i(t) == proposals[p].impls[t]
<1>1. Shape /\ Linked /\ OnTime
  BY DEF Base
<1>2. /\ proposals'[p].payload = payload /\ proposals'[p].state = "executed"
      /\ Len(proposals') = Len(proposals)
      /\ Remember(IF payload = "upgradeToAndCall" THEN Tokens ELSE {}, proxies')
      /\ UNCHANGED <<now, impls, paid>>
  BY <1>1, ExecuteEffect
<1>3. payload # "upgradeTo"
  BY <1>2 DEF NeverBareUpgrade
<1>4. CASE payload # "upgradeToAndCall"
  <2>1. \A t \in Tokens :
          /\ proxies'[t].implementation = proxies[t].implementation
          /\ proxies'[t].lastInitializedRevision = proxies[t].lastInitializedRevision
          /\ proxies'[t].lastUpdateTimestamp = proxies[t].lastUpdateTimestamp
    BY <1>1, <1>3, <1>4, ExecuteEffect
  <2>2. settled' = settled
    BY <1>2, <1>4 DEF Remember
  <2>3. /\ AtRevisions(REVISION)' = AtRevisions(REVISION)
        /\ AtRevisions(OldRevision)' = AtRevisions(OldRevision)
        /\ DISTRIBUTION_END("stkREX")' = DISTRIBUTION_END("stkREX")
    BY <1>2, <2>1 DEF AtRevisions, DISTRIBUTION_END, Tokens
  <2>4. Once'
    BY <1>2, <2>1, <2>3 DEF Accounted, Once
  <2>5. NoneMissing'
    BY <1>2, <2>1, <2>2, <2>3 DEF Accounted, NoneMissing, Tokens
  <2> QED BY <2>3, <2>4, <2>5 DEF Accounted
<1>5. CASE payload = "upgradeToAndCall"
  <2>1. \A t \in Tokens :
          /\ MayInitialize(proxies[t], i(t))
          /\ proxies'[t].implementation = i(t)
          /\ proxies'[t].lastInitializedRevision = impls[i(t)].revision
          /\ proxies'[t].lastUpdateTimestamp =
                IF t = "stkREX" THEN OldEnd ELSE proxies[t].lastUpdateTimestamp
    BY <1>1, <1>5, ExecuteEffect
  <2>2. \A t \in Tokens : impls[i(t)].revision = REVISION[t]
    <3>1. \A t \in Tokens : i(t) \in 3..Len(impls) /\ impls[i(t)].token = t
      BY <1>1 DEF Linked
    <3>2. \A j \in 1..Len(impls) : impls[j].revision = RevisionOf(j)
      BY <1>1 DEF Linked
    <3> HIDE DEF i
    <3>3. ASSUME NEW t \in Tokens PROVE impls[i(t)].revision = REVISION[t]
      <4>1. i(t) \in 1..Len(impls) /\ ~(i(t) <= 2) /\ impls[i(t)].token = t
        BY <3>1
      <4>2. impls[i(t)].revision = RevisionOf(i(t))
        BY <3>2, <4>1
      <4> QED BY <4>1, <4>2 DEF RevisionOf
    <3> QED BY <3>3
  <2>3. AtRevisions(REVISION)'
    BY <1>2, <2>1, <2>2 DEF AtRevisions
  <2>4. ~AtRevisions(REVISION)
    BY <2>1, <2>2 DEF AtRevisions, MayInitialize, REVISION, Tokens
  <2>5. AtRevisions(OldRevision)
    BY <2>4 DEF Accounted
  <2>6. ~AtRevisions(OldRevision)'
    BY <2>3 DEF AtRevisions, REVISION, OldRevision, Tokens
  <2>7. Once'
    <3>1. ASSUME NEW t \in Tokens, NEW s \in Seconds
          PROVE  \/ paid'[t][s] = 0
                 \/ paid'[t][s] = 1 /\ s < proxies'[t].lastUpdateTimestamp /\ s < now'
      <4>1. \/ paid[t][s] = 0
            \/ paid[t][s] = 1 /\ s < proxies[t].lastUpdateTimestamp /\ s < now /\ s < OldEnd
        BY <2>5 DEF Accounted, Once
      <4> QED BY <1>2, <2>1, <4>1
    <3> QED BY <2>6, <3>1 DEF Once
  <2>8. NoneMissing'
    <3>1. settled' = (proxies["stkREX"].lastUpdateTimestamp >= OldEnd)
      BY <1>2, <1>5 DEF Remember, Tokens
    <3>2. proxies["stkREX"].lastUpdateTimestamp \in Nat /\ OldEnd \in Nat /\ Seconds \subseteq Nat
      BY <1>1, ExtensionAssumption DEF Shape, Proxy, Tokens, Seconds
    <3>3. DISTRIBUTION_END("stkREX") = OldEnd
      BY <2>5, OldEnds DEF Tokens
    <3>4. proxies'["stkREX"].lastUpdateTimestamp = OldEnd
      BY <2>1 DEF Tokens
    <3>5. ASSUME NEW s \in Seconds, s < OldEnd, settled'
          PROVE  paid["stkREX"][s] = 1
      <4>1. s < proxies["stkREX"].lastUpdateTimestamp
        <5>1. proxies["stkREX"].lastUpdateTimestamp >= OldEnd
          BY <3>1, <3>5
        <5> QED BY <3>2, <3>5, <5>1
      <4> QED BY <2>5, <3>3, <3>5, <4>1 DEF Accounted, NoneMissing
    <3>6. \A s \in Seconds : s < OldEnd => ~(s >= OldEnd)
      BY <3>2
    <3> QED BY <1>2, <2>6, <3>4, <3>5, <3>6 DEF NoneMissing
  <2> QED BY <2>3, <2>7, <2>8 DEF Accounted
<1> QED BY <1>4, <1>5

\* With the revisions in step nobody can call initialize again.
LEMMA NothingToInitialize ==
    ASSUME NEW t \in Tokens, Base, Accounted PROVE ~Initialize(t)
<1>1. \/ proxies[t].lastInitializedRevision = REVISION[t]
         /\ impls[proxies[t].implementation].revision = REVISION[t]
      \/ proxies[t].lastInitializedRevision = OldRevision[t]
         /\ impls[proxies[t].implementation].revision = OldRevision[t]
  BY DEF Accounted, AtRevisions
<1>2. REVISION[t] \in Nat /\ OldRevision[t] \in Nat
  BY DEF REVISION, OldRevision
<1> QED BY <1>1, <1>2 DEF Initialize, MayInitialize

LEMMA ExtensionInit == Init => ExtensionIInv
BY InitBase, InitAccounted DEF ExtensionIInv

LEMMA ExtensionInductive == ExtensionIInv /\ [Next]_vars => ExtensionIInv'
<1> SUFFICES ASSUME ExtensionIInv, [Next]_vars PROVE ExtensionIInv'
  OBVIOUS
<1>1. Base /\ Base'
  BY BaseIsInductive DEF ExtensionIInv
<1>2. ASSUME NeverBareUpgrade', Next PROVE Accounted'
  <2>1. Accounted
    BY <1>1, <1>2, BareUpgradeStays DEF ExtensionIInv
  <2>2. now \in Nat /\ impls \in Seq(Impl)
    BY <1>1 DEF Base, Shape
  <2>3. CASE Tick
    BY <1>1, <2>1, <2>2, <2>3, AccountedStays DEF Tick
  <2>4. ASSUME NEW t \in Tokens, Accrue(t) PROVE Accounted'
    BY <1>1, <2>1, <2>4, AccrueAccounted
  <2>5. ASSUME NEW t \in Tokens, DeployImpl(t) PROVE Accounted'
    BY <1>1, <2>1, <2>2, <2>5, DeployEffect, AccountedStays
  <2>6. ASSUME NEW t \in Tokens, Initialize(t) PROVE Accounted'
    BY <1>1, <2>1, <2>6, NothingToInitialize
  <2>7. ASSUME NEW payload \in Payloads, Create(payload) PROVE Accounted'
    BY <1>1, <2>1, <2>2, <2>7, AccountedStays DEF Create
  <2>8. ASSUME NEW p \in 1..Len(proposals), Queue(p) PROVE Accounted'
    BY <1>1, <2>1, <2>2, <2>8, AccountedStays DEF Queue
  <2>9. ASSUME NEW p \in 1..Len(proposals), Execute(p) PROVE Accounted'
    BY <1>1, <1>2, <2>1, <2>9, ExecuteAccounted
  <2> QED BY <1>2, <2>3, <2>4, <2>5, <2>6, <2>7, <2>8, <2>9 DEF Next
<1>3. ASSUME NeverBareUpgrade', UNCHANGED vars PROVE Accounted'
  BY <1>1, <1>3, AccountedStays DEF ExtensionIInv, NeverBareUpgrade, Base, Shape, vars
<1> QED BY <1>1, <1>2, <1>3 DEF ExtensionIInv

LEMMA AlwaysExtensionIInv == Spec => []ExtensionIInv
BY ExtensionInit, ExtensionInductive, PTL DEF Spec

-----------------------------------------------------------------------------
(***************************************************************************)
(* VersionedInitializable.sol: under proposals of every kind, and whoever  *)
(* calls initialize when, a proxy's initializers run once and in order.    *)
(***************************************************************************)
THEOREM RevisionsStayInOrder == Spec => []RevisionsInOrder
<1>1. ExtensionIInv => RevisionsInOrder
  BY DEF ExtensionIInv, Base, Initialized_, RevisionsInOrder
<1> QED BY <1>1, AlwaysExtensionIInv, PTL

(***************************************************************************)
(* StakedTokenV2Rev3.sol:1502 sets the last update to the old end: calls   *)
(* revert because of it before that second only, and only those of stkREX. *)
(***************************************************************************)
THEOREM NeverBlockedForLonger == Spec => []BlockedUntilOldEnd
<1>1. ExtensionIInv => BlockedUntilOldEnd
  <2> SUFFICES ASSUME ExtensionIInv, NEW t \in Tokens, proxies[t].lastUpdateTimestamp > now
               PROVE  t = "stkREX" /\ now < OldEnd
    BY DEF BlockedUntilOldEnd
  <2>1. now \in Nat /\ proxies[t].lastUpdateTimestamp \in Nat
    BY DEF ExtensionIInv, Base, Shape, Proxy
  <2>2. \/ proxies[t].lastUpdateTimestamp <= now
        \/ t = "stkREX" /\ proxies[t].lastUpdateTimestamp = OldEnd
    BY DEF ExtensionIInv, Base, OnTime
  <2> QED BY <2>1, <2>2
<1> QED BY <1>1, AlwaysExtensionIInv, PTL

(***************************************************************************)
(* Whatever is proposed, voted, executed or accrued in whatever order, but *)
(* for a bare upgrade: no second's rewards are granted twice.              *)
(***************************************************************************)
THEOREM SecondsArePaidOnce == Spec => []SecondsPaidOnce
<1>1. ExtensionIInv => SecondsPaidOnce
  <2> SUFFICES ASSUME ExtensionIInv, NeverBareUpgrade, NEW t \in Tokens, NEW s \in Seconds
               PROVE  paid[t][s] <= 1
    BY DEF SecondsPaidOnce
  <2>1. paid[t][s] = 0 \/ paid[t][s] = 1
    BY DEF ExtensionIInv, Accounted, Once
  <2> QED BY <2>1
<1> QED BY <1>1, AlwaysExtensionIInv, PTL

(***************************************************************************)
(* ... and once stkREX is extended every second was rewarded up to the last*)
(* accrual, from the old end on, or from the start if it was settled.      *)
(***************************************************************************)
THEOREM GapIsAlwaysPaid == Spec => []GapIsPaid
<1>1. ExtensionIInv => GapIsPaid
  <2> DEFINE last == proxies["stkREX"].lastUpdateTimestamp
             end == DISTRIBUTION_END("stkREX")
  <2> SUFFICES ASSUME ExtensionIInv, NeverBareUpgrade, NEW s \in Seconds,
                      s < Min({last, end}), s >= OldEnd \/ settled
               PROVE  paid["stkREX"][s] = 1
    BY DEF GapIsPaid
  <2>1. last \in Nat /\ end \in Nat /\ s \in Nat
    BY EndIsNat, ExtensionAssumption, SMTT(20) DEF ExtensionIInv, Base, Shape, Proxy, Tokens, Seconds
  <2>2. Min({last, end}) = IF last <= end THEN last ELSE end
    BY <2>1, MinOfTwo
  <2>3. s < last /\ s < end
    <3> HIDE DEF last, end
    <3> QED BY <2>1, <2>2
  <2> QED BY <2>3 DEF ExtensionIInv, Accounted, NoneMissing
<1> QED BY <1>1, AlwaysExtensionIInv, PTL

(***************************************************************************)
(* The proposal extends both tokens or none of them.                       *)
(***************************************************************************)
THEOREM AlwaysExtendedTogether == Spec => []ExtendedTogether
<1>1. ExtensionIInv => ExtendedTogether
  BY DEF ExtensionIInv, Accounted, ExtendedTogether
<1> QED BY <1>1, AlwaysExtensionIInv, PTL
=============================================================================
