------------------------- MODULE ExtensionProposal -------------------------
(***************************************************************************)
(* The proposal that extends the distribution of the two staked tokens:    *)
(* new implementations are deployed, tasks/proposals/propose-extension.ts  *)
(* proposes to upgrade both proxies, and the governance (external: vote,   *)
(* queue, execute) lets their admin, its executor, make the calls.         *)
(*                                                                         *)
(* Of a staked token the model keeps its proxy (implementation, admin), the*)
(* revision it was initialized to and the time its rewards were accrued    *)
(* to.  Seconds are single: paid counts how often the second after each    *)
(* time was rewarded.  There are stakers, and an emission, all the time.   *)
(***************************************************************************)
EXTENDS Naturals, Sequences, FiniteSetsExt

CONSTANTS
    OldEnd,         \* 1620594720: DISTRIBUTION_END of the implementations in force
    Duration,       \* distributionDuration of the new implementations
    MaxTime,        \* bound: block timestamps
    MaxImpls,       \* bound: implementations
    MaxProposals,   \* bound: proposals
    Payloads        \* functions of the proxies that proposals call

ASSUME ExtensionAssumption ==
    /\ OldEnd \in Nat /\ Duration \in Nat /\ MaxTime \in Nat /\ OldEnd <= MaxTime
    /\ MaxImpls \in Nat /\ MaxProposals \in Nat
    /\ Payloads \subseteq {"upgradeToAndCall", "upgradeTo", "changeAdmin"}

VARIABLES
    now,            \* block.timestamp
    impls,          \* the implementations: token, revision, DISTRIBUTION_END, on the chain
    proxies,        \* token -> its proxy's state
    proposals,      \* payload, implementations, state
    paid,           \* history: token -> time -> how often the second after it was rewarded
    inits,          \* history: token -> revisions whose initializer ran, in order
    settled         \* history: the rewards up to OldEnd were accrued when stkREX was upgraded

vars == <<now, impls, proxies, proposals, paid, inits, settled>>

Tokens == {"stkREX", "stkBPT"}
Seconds == 0..(MaxTime - 1)

\* Revisions in force, and those of StakedTokenV2Rev3.sol and StakedTokenBptV2Rev2.sol.
OldRevision == [t \in Tokens |-> IF t = "stkREX" THEN 2 ELSE 1]
REVISION == [t \in Tokens |-> IF t = "stkREX" THEN 3 ELSE 2]

Init ==
    /\ now = 0
    /\ impls = << [token |-> "stkREX", revision |-> OldRevision["stkREX"], end |-> OldEnd, code |-> TRUE],
                  [token |-> "stkBPT", revision |-> OldRevision["stkBPT"], end |-> OldEnd, code |-> TRUE] >>
    /\ proxies = [t \in Tokens |->
                    [implementation |-> IF t = "stkREX" THEN 1 ELSE 2, admin |-> "executor",
                     lastInitializedRevision |-> OldRevision[t], lastUpdateTimestamp |-> 0]]
    /\ proposals = <<>>
    /\ paid = [t \in Tokens |-> [s \in Seconds |-> 0]]
    /\ inits = [t \in Tokens |-> <<OldRevision[t]>>]
    /\ settled = FALSE

DISTRIBUTION_END(t) == impls[proxies[t].implementation].end

Tick ==
    /\ now < MaxTime
    /\ now' = now + 1
    /\ UNCHANGED <<impls, proxies, proposals, paid, inits, settled>>

(***************************************************************************)
(* _updateAssetStateInternal, in any call of a staker through the proxy.   *)
(* The subtraction reverts when the last update lies in the future.        *)
(***************************************************************************)
Accrue(t) ==
    LET last == proxies[t].lastUpdateTimestamp
        end == DISTRIBUTION_END(t)
        upTo == IF last >= end THEN last ELSE Min({now, end})
    IN  /\ last # now
        /\ last <= upTo
        /\ proxies' = [proxies EXCEPT ![t].lastUpdateTimestamp = now]
        /\ paid' = [paid EXCEPT ![t] = [s \in Seconds |->
                       IF last <= s /\ s < upTo THEN @[s] + 1 ELSE @[s]]]
        /\ UNCHANGED <<now, impls, proposals, inits, settled>>

\* A new implementation; its deployment may fail, which the deploying task does not notice.
DeployImpl(t) ==
    /\ Len(impls) < MaxImpls
    /\ \E code \in BOOLEAN :
         impls' = Append(impls, [token |-> t, revision |-> REVISION[t], end |-> now + Duration,
                                 code |-> code])
    /\ UNCHANGED <<now, proxies, proposals, paid, inits, settled>>

-----------------------------------------------------------------------------
(***************************************************************************)
(* The proxies' functions, as what they make of a proxy's state.           *)
(***************************************************************************)
\* Variant: any revision that is not older.
MayInitializeAgain(proxy, i) == impls[i].revision >= proxy.lastInitializedRevision

\* The initializer modifier lets a revision run that is greater than the last.
MayInitialize(proxy, i) == impls[i].revision > proxy.lastInitializedRevision

\* Variant: the time of the last accrual is kept.
InitializedKeepsTime(proxy, i) == [proxy EXCEPT !.lastInitializedRevision = impls[i].revision]

\* Variant: the last update is set to zero.
InitializedAtZero(proxy, i) ==
    [proxy EXCEPT !.lastInitializedRevision = impls[i].revision, !.lastUpdateTimestamp = 0]

\* Variant: both tokens start at the old end.
InitializedBoth(proxy, i) ==
    [proxy EXCEPT !.lastInitializedRevision = impls[i].revision, !.lastUpdateTimestamp = OldEnd]

\* initialize: revision 3 of stkREX accrues from the end of the old distribution on.
Initialized(proxy, i) ==
    [proxy EXCEPT !.lastInitializedRevision = impls[i].revision,
                  !.lastUpdateTimestamp = IF impls[i].token = "stkREX" THEN OldEnd ELSE @]

\* Conditions of upgradeToAndCall for the admin.
UpgradeSucceeds(proxy, i) == impls[i].code /\ MayInitialize(proxy, i)

upgradeTo(proxy, i) == [proxy EXCEPT !.implementation = i]

upgradeToAndCall(proxy, i) ==
    IF MayInitialize(proxy, i) THEN Initialized(upgradeTo(proxy, i), i) ELSE upgradeTo(proxy, i)

changeAdmin(proxy, i) == [proxy EXCEPT !.admin = "other"]

\* The call of a proposal by the executor: anyone else than the admin falls through and reverts.
Succeeds(payload, proxy, i) ==
    /\ proxy.admin = "executor"
    /\ payload = "upgradeToAndCall" => UpgradeSucceeds(proxy, i)
    /\ payload = "upgradeTo" => impls[i].code

After(payload, proxy, i) ==
    CASE payload = "upgradeToAndCall" -> upgradeToAndCall(proxy, i)
      [] payload = "upgradeTo" -> upgradeTo(proxy, i)
      [] payload = "changeAdmin" -> changeAdmin(proxy, i)

\* History: the initializer of the tokens in which ran, and left the proxies as new.
Remember(which, new) ==
    /\ inits' = [t \in Tokens |-> IF t \in which THEN Append(inits[t], new[t].lastInitializedRevision)
                                                   ELSE inits[t]]
    /\ settled' = IF "stkREX" \in which THEN proxies["stkREX"].lastUpdateTimestamp >= OldEnd ELSE settled

-----------------------------------------------------------------------------
\* propose-extension: upgradeToAndCall(address,bytes) for each proxy with its implementation.
proposeExtension(chosen) ==
    proposals' = Append(proposals, [payload |-> "upgradeToAndCall", impls |-> chosen, state |-> "created"])

ImplsOf(t) == {i \in 3..Len(impls) : impls[i].token = t}

\* Proposals of other kinds may be made as well.
Create(payload) ==
    /\ Len(proposals) < MaxProposals
    /\ \E i \in ImplsOf("stkREX"), j \in ImplsOf("stkBPT") :
         LET chosen == [t \in Tokens |-> IF t = "stkREX" THEN i ELSE j] IN
           IF payload = "upgradeToAndCall" THEN proposeExtension(chosen)
           ELSE proposals' = Append(proposals, [payload |-> payload, impls |-> chosen, state |-> "created"])
    /\ UNCHANGED <<now, impls, proxies, paid, inits, settled>>

\* The vote ends, and the proposal is queued or it is over.
Queue(p) ==
    /\ proposals[p].state = "created"
    /\ \E state \in {"queued", "over"} : proposals' = [proposals EXCEPT ![p].state = state]
    /\ UNCHANGED <<now, impls, proxies, paid, inits, settled>>

\* Variant: a call that fails does not revert the other.
ExecuteEach(p) ==
    LET payload == proposals[p].payload
        Goes(t) == Succeeds(payload, proxies[t], proposals[p].impls[t])
        new == [t \in Tokens |-> IF Goes(t) THEN After(payload, proxies[t], proposals[p].impls[t])
                                 ELSE proxies[t]]
    IN  /\ proposals[p].state = "queued"
        /\ proxies' = new
        /\ proposals' = [proposals EXCEPT ![p].state = "executed"]
        /\ Remember(IF payload = "upgradeToAndCall" THEN {t \in Tokens : Goes(t)} ELSE {}, new)
        /\ UNCHANGED <<now, impls, paid>>

(***************************************************************************)
(* execute: both calls, by the executor.  One that fails reverts all.      *)
(***************************************************************************)
Execute(p) ==
    LET payload == proposals[p].payload
        new == [t \in Tokens |-> After(payload, proxies[t], proposals[p].impls[t])]
    IN  /\ proposals[p].state = "queued"
        /\ \A t \in Tokens : Succeeds(payload, proxies[t], proposals[p].impls[t])
        /\ proxies' = new
        /\ proposals' = [proposals EXCEPT ![p].state = "executed"]
        /\ Remember(IF payload = "upgradeToAndCall" THEN Tokens ELSE {}, new)
        /\ UNCHANGED <<now, impls, paid>>

\* Anyone calls initialize through the proxy.
Initialize(t) ==
    LET i == proxies[t].implementation
        new == [proxies EXCEPT ![t] = Initialized(@, i)]
    IN  /\ MayInitialize(proxies[t], i)
        /\ proxies' = new
        /\ Remember({t}, new)
        /\ UNCHANGED <<now, impls, proposals, paid>>

Next ==
    \/ Tick
    \/ \E t \in Tokens : Accrue(t) \/ DeployImpl(t) \/ Initialize(t)
    \/ \E payload \in Payloads : Create(payload)
    \/ \E p \in 1..Len(proposals) : Queue(p) \/ Execute(p)

Spec == Init /\ [][Next]_vars

-----------------------------------------------------------------------------
(***************************************************************************)
(* No executed proposal has called upgradeTo: between such an upgrade and  *)
(* the first call of initialize the proxy would accrue with the new end    *)
(* from the old last update on.                                            *)
(***************************************************************************)
NeverBareUpgrade ==
    \A p \in 1..Len(proposals) :
        proposals[p].payload = "upgradeTo" => proposals[p].state # "executed"

(***************************************************************************)
(* The rewards of no second are granted twice: rewinding                   *)
(* lastUpdateTimestamp grants the gap between the distributions once,      *)
(* whatever was accrued in it, and however many extensions are proposed -  *)
(* provided that each upgrades and initializes in one call.                *)
(***************************************************************************)
SecondsPaidOnce == NeverBareUpgrade => \A t \in Tokens, s \in Seconds : paid[t][s] <= 1

(***************************************************************************)
(* No second is lost either: once stkREX has its revision 3 and accrues,   *)
(* every second up to then was rewarded, the gap included - but for those  *)
(* before the old end that nobody had accrued when it was upgraded.        *)
(***************************************************************************)
GapIsPaid ==
    LET last == proxies["stkREX"].lastUpdateTimestamp IN
        NeverBareUpgrade /\ proxies["stkREX"].lastInitializedRevision = 3 =>
            \A s \in Seconds :
                /\ s < Min({last, DISTRIBUTION_END("stkREX")})
                /\ s >= OldEnd \/ settled
                => paid["stkREX"][s] = 1

(***************************************************************************)
(* An extension executed before the old end sets the last update into the  *)
(* future, and stakers' calls revert: until the old end, and not longer.   *)
(***************************************************************************)
BlockedUntilOldEnd ==
    \A t \in Tokens : proxies[t].lastUpdateTimestamp > now => t = "stkREX" /\ now < OldEnd

(***************************************************************************)
(* The two tokens are extended together or not at all, also when one of    *)
(* the implementations is missing or one proxy has been upgraded before.   *)
(***************************************************************************)
AtRevisions(revision) ==
    \A t \in Tokens : /\ proxies[t].lastInitializedRevision = revision[t]
                      /\ impls[proxies[t].implementation].revision = revision[t]

ExtendedTogether == NeverBareUpgrade => AtRevisions(REVISION) \/ AtRevisions(OldRevision)

(***************************************************************************)
(* A revision's initializer runs at most once on a proxy, and never after  *)
(* that of a later revision, in whatever order upgrades and calls come.    *)
(***************************************************************************)
RevisionsInOrder ==
    \A t \in Tokens : \A i, j \in 1..Len(inits[t]) : i < j => inits[t][i] < inits[t][j]

=============================================================================
