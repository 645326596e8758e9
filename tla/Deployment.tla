----------------------------- MODULE Deployment -----------------------------
(***************************************************************************)
(* A hardhat process that runs one task of DeploymentTasks after the       *)
(* other's end, against a chain and with the file deployed-contracts.json. *)
(* Every await is a step of its own, so the process may stop between any   *)
(* two; the chain "main" and the file stay, the chain "hardhat" lives in   *)
(* the process and is empty in the next one.                               *)
(*                                                                         *)
(* A contract's address is its position in the chain's sequence: addresses *)
(* follow from the deployer's nonce, so the next process's first contract  *)
(* on "hardhat" has the address of this one's first.                       *)
(***************************************************************************)
EXTENDS DeploymentTasks, EtherscanVerification, FiniteSetsExt

CONSTANTS
    Tasks,          \* bound: for each process, tasks the operator starts it with
    MaxContracts    \* bound: contracts of one chain

ASSUME DeploymentAssumption ==
    /\ MaxContracts \in Nat \ {0}
    /\ Addresses = 1..MaxContracts
    /\ Tasks \in Seq(SUBSET TaskNames)

VARIABLES
    task, todo,     \* the process: its task and the steps it has still to take
    flags,          \* the parameters it was started with
    dre,            \* misc-utils' DRE is set
    secrets,        \* the Defender secrets are in the environment
    inst,           \* its contract instances: role -> address, 0 for none
    outcome,        \* none, running, finished, aborted or crashed
    cause,          \* why it aborted
    runs,           \* processes started
    chain,          \* network -> its contracts
    proposals,      \* "main": the governance proposals created
    db              \* deployed-contracts.json: network -> key -> address, 0 for none

process == <<task, flags, dre, secrets, runs>>
world == <<chain, proposals, db>>
call == <<vpc, address, times, relatedSources, result>>
vars == <<task, todo, flags, dre, secrets, inst, outcome, cause, runs, chain, proposals, db,
          verifyVars>>

\* hardhat.config.ts: the networks that can be chosen.
ConfiguredNetworks == {"main", "hardhat"}

Kinds == {"StakedREX", "StakedREXV3", "StakedTokenV3Rev3", "RollexIncentivesController",
          "InitializableAdminUpgradeabilityProxy", "MintableErc20", "MockTransferHook", "ATokenMock",
          "RollexStakingHelper", "StakeUIHelper", "StakedTokenDataProvider"}
Slugs == {"aDai", "aWeth"}
Keys == (Kinds \X {""}) \cup ({"ATokenMock"} \X Slugs)
        \cup {<<"StakedREXImpl", "">>, <<"Staked REX", "">>}
TestRoles == {"icProxy", "stakeProxy", "icImpl", "stakeImpl", "hook", "v3Impl", "aDai", "aWeth",
              "rexToken", "testEnv.StakedREX", "testEnv.StakedREXV3", "testEnv.rexToken",
              "testEnv.rollexIncentivesController", "testEnv.aDaiMock", "testEnv.aWethMock"}
Roles == {"impl", "proxy", "instance", "stkREXImpl", "stkBptImpl"} \cup TestRoles

Outside == MaxContracts + 1      \* the address of a contract deployed elsewhere

\* The contracts' initialize functions: number of parameters, getRevision().
Arity == [StakedREX |-> 4, StakedREXV3 |-> 0, RollexIncentivesController |-> 0,
          StakedTokenV3Rev3 |-> 0, StakedTokenBptRev2 |-> 3]
Revision == [StakedREX |-> 1, StakedREXV3 |-> 2, RollexIncentivesController |-> 1]

\* getParamPerNetwork: on "hardhat" the token of the configuration is the zero address.
getREXtokenPerNetwork(n) == IF n = "hardhat" THEN "zero" ELSE "token"

Init ==
    /\ task = "none" /\ todo = <<>> /\ flags = NoFlags
    /\ dre = FALSE /\ secrets = FALSE
    /\ inst = [r \in Roles |-> 0]
    /\ outcome = "none" /\ cause = "none"
    /\ runs = 0
    /\ chain = [n \in ConfiguredNetworks |-> <<>>]
    /\ proposals = {}
    /\ db = [n \in ConfiguredNetworks |-> [k \in Keys |-> 0]]
    /\ etherscanKey = FALSE /\ network = "hardhat"
    /\ address = 1
    /\ VerifyInit

-----------------------------------------------------------------------------
\* The parameters that a task looks at may be given.
FlagsOf(t) ==
    {p \in Flags :
        /\ p.defender => t \in {"deploy-staked-rex-rev3", "propose-extension",
                                "proposal-stk-extensions", "proposal-vault-approval"}
        /\ (p.stkREXimpl \/ p.stkbptimpl) => t \in {"propose-extension", "proposal-stk-extensions"}
        /\ ~p.valid => t = "deploy-StakedTokenDataProvider"
        /\ p.verify => t \in {"common-deployment", "deploy-StakedREXV3", "deploy-RollexStakingHelper",
                              "deploy-StakeUIHelper", "deploy-StakedTokenDataProvider"}}

(***************************************************************************)
(* The operator starts a process, which may crash at any moment.           *)
(***************************************************************************)
Start ==
    /\ outcome # "running"
    /\ runs < Len(Tasks)
    /\ runs' = runs + 1
    /\ \E t \in Tasks[runs + 1] : \E p \in FlagsOf(t) :
         task' = t /\ todo' = LoadedTasks(p)[t] /\ flags' = p
    /\ dre' = FALSE
    /\ secrets' \in IF flags'.defender THEN BOOLEAN ELSE {FALSE}
    /\ etherscanKey' \in BOOLEAN
    /\ network' \in IF task' = "test" THEN {"hardhat"} ELSE ConfiguredNetworks
    /\ inst' = [r \in Roles |-> 0]
    /\ outcome' = "running" /\ cause' = "none"
    /\ chain' = [chain EXCEPT !["hardhat"] = <<>>]
    /\ UNCHANGED <<proposals, db, call, tempFiles, explorer>>

Crash ==
    /\ outcome = "running"
    /\ outcome' = "crashed" /\ todo' = <<>>
    /\ vpc' = "returned" /\ result' = "none"
    /\ UNCHANGED <<process, inst, cause, world, environment, address, times, relatedSources,
                   tempFiles, explorer>>

Finish ==
    /\ outcome = "running" /\ todo = <<>> /\ vpc = "returned"
    /\ outcome' = "finished"
    /\ UNCHANGED <<process, todo, inst, cause, world, verifyVars>>

\* Variant: the task goes on after a step that threw.
AbortGoesOn(why) ==
    /\ outcome' = "aborted" /\ cause' = why
    /\ UNCHANGED <<process, todo, inst, world, verifyVars>>

\* An exception, or exit(), that nothing catches.
Abort(why) ==
    /\ outcome' = "aborted" /\ cause' = why /\ todo' = <<>>
    /\ UNCHANGED <<process, inst, world, verifyVars>>

\* The next step of the script, once the call it awaits has returned.
At(op) ==
    /\ outcome = "running" /\ vpc = "returned"
    /\ todo # <<>>
    /\ Head(todo).op = op

Done == todo' = Tail(todo) /\ UNCHANGED <<outcome, cause>>
Here(a) == chain[network][a]
HasCode(a) == a = Outside \/ (a \in 1..Len(chain[network]) /\ Here(a).status = "mined")

-----------------------------------------------------------------------------
(***************************************************************************)
(* Steps that touch neither chain nor file.                                *)
(***************************************************************************)
SetDRE ==
    /\ At("setDRE")
    /\ dre' = TRUE
    /\ Done
    /\ UNCHANGED <<task, flags, secrets, runs, inst, world, verifyVars>>

\* The result of set-dre is undefined when DRE is set already.
UseDRE ==
    /\ At("useDRE")
    /\ IF dre THEN Abort("undefined")
       ELSE /\ dre' = TRUE
            /\ Done
            /\ UNCHANGED <<task, flags, secrets, runs, inst, world, verifyVars>>

CheckVerification ==
    /\ At("checkVerification")
    /\ IF etherscanKey /\ network \in SUPPORTED_ETHERSCAN_NETWORKS
         THEN Done /\ UNCHANGED <<process, inst, world, verifyVars>>
         ELSE Abort("exit")

RequireParams ==
    /\ At("requireParams")
    /\ IF flags.valid THEN Done /\ UNCHANGED <<process, inst, world, verifyVars>>
       ELSE Abort("params")

RequireImpls ==
    /\ At("requireImpls")
    /\ IF \A r \in Head(todo).impls : inst[r] # 0
         THEN Done /\ UNCHANGED <<process, inst, world, verifyVars>>
         ELSE Abort("params")

Defender ==
    /\ At("defender")
    /\ IF secrets THEN Done /\ UNCHANGED <<process, inst, world, verifyVars>>
       ELSE Abort("secrets")

Given ==
    /\ At("given")
    /\ inst' = [inst EXCEPT ![Head(todo).role] = Outside]
    /\ Done
    /\ UNCHANGED <<process, world, verifyVars>>

\* DRE.run: the nested task's steps come first.
Run ==
    /\ At("run")
    /\ LET scripts == LoadedTasks(Head(todo).flags) IN
         IF Head(todo).task \in DOMAIN scripts
           THEN /\ todo' = scripts[Head(todo).task] \o Tail(todo)
                /\ UNCHANGED <<outcome, cause, process, inst, world, verifyVars>>
           ELSE Abort("unknownTask")

\* encodeFunctionData('initialize', [...]) counts the arguments.
Encode ==
    /\ At("encode")
    /\ IF Arity[Head(todo).kind] = Head(todo).nargs
         THEN Done /\ UNCHANGED <<process, inst, world, verifyVars>>
         ELSE Abort("encode")

Lookup ==
    /\ At("lookup")
    /\ LET a == db[network][Head(todo).key] IN
         IF a = 0 THEN Abort("notStored")
         ELSE /\ inst' = [inst EXCEPT ![Head(todo).role] = a]
              /\ Done
              /\ UNCHANGED <<process, world, verifyVars>>

-----------------------------------------------------------------------------
(***************************************************************************)
(* Transactions.  "hardhat" mines each at once and rejects a reverting     *)
(* one; on "main" they wait, in the order of their sender's nonces.        *)
(***************************************************************************)
\* The staking helper's constructor calls approve on the token.
ConstructorReverts(step) ==
    /\ step.kind = "RollexStakingHelper"
    /\ getREXtokenPerNetwork(network) = "zero"

Send ==
    /\ At("send")
    /\ Len(chain[network]) < MaxContracts
    /\ LET step == Head(todo)
           status == IF network = "hardhat" THEN "mined" ELSE "pending"
       IN IF network = "hardhat" /\ ConstructorReverts(step) THEN Abort("reverted")
          ELSE /\ chain' = [chain EXCEPT ![network] = Append(@,
                    [kind |-> step.kind, from |-> step.from,
                     status |-> status, logic |-> 0, revision |-> 0, approved |-> FALSE])]
               /\ inst' = [inst EXCEPT ![step.role] = Len(chain[network]) + 1]
               /\ Done
               /\ UNCHANGED <<process, proposals, db, verifyVars>>

Pending(who) == {a \in 1..Len(chain["main"]) :
                   chain["main"][a].status = "pending" /\ chain["main"][a].from = who}

\* The next transaction of a sender is mined; a deployment may run out of gas.
Mine(who) ==
    /\ Pending(who) # {}
    /\ \E status \in {"mined", "reverted"} :
         chain' = [chain EXCEPT !["main"][Min(Pending(who))].status = status]
    /\ UNCHANGED <<process, todo, inst, outcome, cause, proposals, db, verifyVars>>

MineNext == \E who \in {"owner", "relay"} : Mine(who)

Wait ==
    /\ At("wait")
    /\ LET a == inst[Head(todo).role] IN
         /\ Here(a).status # "pending"
         /\ IF Here(a).status = "mined" THEN Done /\ UNCHANGED <<process, inst, world, verifyVars>>
            ELSE Abort("reverted")

\* InitializableAdminUpgradeabilityProxy.initialize with an encoded call.
ProxyInit ==
    /\ At("proxyInit")
    /\ LET p == inst[Head(todo).role]
           l == inst[Head(todo).logic]
       IN IF Here(p).logic = 0 /\ HasCode(l)
            THEN /\ chain' = [chain EXCEPT ![network][p].logic = l,
                                           ![network][p].revision = Revision[Here(l).kind]]
                 /\ Done
                 /\ UNCHANGED <<process, inst, proposals, db, verifyVars>>
            ELSE Abort("reverted")

Upgrade ==
    /\ At("upgrade")
    /\ LET p == inst[Head(todo).role]
           l == inst[Head(todo).logic]
       IN IF HasCode(l) /\ Revision[Here(l).kind] > Here(p).revision
            THEN /\ chain' = [chain EXCEPT ![network][p].logic = l,
                                           ![network][p].revision = Revision[Here(l).kind]]
                 /\ Done
                 /\ UNCHANGED <<process, inst, proposals, db, verifyVars>>
            ELSE Abort("reverted")

\* The rewards vault approves a proxy.
Approve ==
    /\ At("approve")
    /\ chain' = [chain EXCEPT ![network][inst[Head(todo).role]].approved = TRUE]
    /\ Done
    /\ UNCHANGED <<process, inst, proposals, db, verifyVars>>

(***************************************************************************)
(* gov.create and the wait for it: mined after what its sender sent        *)
(* before.  The governance may reject it; there is none on "hardhat".      *)
(***************************************************************************)
Create ==
    /\ At("create")
    /\ \/ Abort("reverted")
       \/ /\ network # "hardhat"
          /\ Pending(Head(todo).from) = {}
          /\ proposals' = proposals \cup {{inst[r] : r \in Head(todo).impls}}
          /\ Done
          /\ UNCHANGED <<process, inst, chain, db, verifyVars>>

-----------------------------------------------------------------------------
\* registerContractInJsonDb and insertContractAddressInDb overwrite the entry.
Register ==
    /\ At("register")
    /\ db' = [db EXCEPT ![network][Head(todo).key] = inst[Head(todo).role]]
    /\ Done
    /\ UNCHANGED <<process, inst, chain, proposals, verifyVars>>

\* The key is read before the try block that swallows the other errors.
Verify ==
    /\ At("verify")
    /\ IF etherscanKey
         THEN /\ verifyContract(inst[Head(todo).role])
              /\ Done
              /\ UNCHANGED <<process, inst, world>>
         ELSE Abort("missingKey")

Verifying ==
    /\ VerifyStep(HasCode(address))
    /\ UNCHANGED <<process, todo, inst, outcome, cause, world>>

ProcessStep ==
    \/ Finish \/ SetDRE \/ UseDRE \/ CheckVerification \/ RequireParams \/ RequireImpls
    \/ Defender \/ Given \/ Run \/ Encode \/ Lookup \/ Send \/ Wait \/ ProxyInit \/ Upgrade
    \/ Approve \/ Create \/ Register \/ Verify \/ Verifying

Next ==
    \/ Start
    \/ Crash
    \/ MineNext
    \/ ProcessStep

(***************************************************************************)
(* A process that does not crash takes its next step: the promise it awaits*)
(* settles, an attempt to verify has a time limit.  Transactions are mined *)
(* in the end.  Nothing obliges anybody to start a task, or it to crash.   *)
(***************************************************************************)
Spec ==
    /\ Init
    /\ [][Next]_vars
    /\ WF_vars(ProcessStep)
    /\ WF_vars(MineNext)

-----------------------------------------------------------------------------
DeploymentTypeOK ==
    /\ VerificationTypeOK
    /\ task \in TaskNames \cup {"none"}
    /\ flags \in Flags /\ dre \in BOOLEAN /\ secrets \in BOOLEAN
    /\ inst \in [Roles -> 0..Outside]
    /\ outcome \in {"none", "running", "finished", "aborted", "crashed"}
    /\ outcome # "running" => todo = <<>> /\ vpc = "returned"
    /\ runs \in 0..Len(Tasks)
    /\ \A n \in ConfiguredNetworks : Len(chain[n]) <= MaxContracts
    /\ db \in [ConfiguredNetworks -> [Keys -> 0..MaxContracts]]

(***************************************************************************)
(* A task that is started comes to an end, whatever the explorer answers   *)
(* and however long its transactions take: no await of its script waits    *)
(* for something that never comes.                                         *)
(***************************************************************************)
ProcessEnds == (outcome = "running") ~> (outcome # "running")

(***************************************************************************)
(* When a deployment task ends well, the entries of the file its users     *)
(* look up name contracts that are on the chain and of the right kind:     *)
(* StakedREXV3 the proxy and not the implementation that deployContract    *)
(* stored under the same key.                                              *)
(***************************************************************************)
Deployed ==
    [t \in {"deploy-StakedREXV3", "deploy-RollexStakingHelper", "deploy-StakeUIHelper",
            "deploy-StakedTokenDataProvider"} |->
        CASE t = "deploy-StakedREXV3" ->
               {<<"StakedREXV3", "InitializableAdminUpgradeabilityProxy">>,
                <<"Staked REX", "StakedREXV3">>}
          [] t = "deploy-RollexStakingHelper" -> {<<"RollexStakingHelper", "RollexStakingHelper">>}
          [] t = "deploy-StakeUIHelper" -> {<<"StakeUIHelper", "StakeUIHelper">>}
          [] t = "deploy-StakedTokenDataProvider" ->
               {<<"StakedTokenDataProvider", "StakedTokenDataProvider">>}]

FinishedMeansLive ==
    (outcome = "finished" /\ task \in DOMAIN Deployed) =>
        \A e \in Deployed[task] :
            LET a == db[network][<<e[1], "">>] IN
                a # 0 /\ Here(a).status = "mined" /\ Here(a).kind = e[2]

(***************************************************************************)
(* No proposal names an implementation whose deployment is still pending:  *)
(* nobody waits for it, but the deployer and the proposer are one account. *)
(***************************************************************************)
ProposalOnlyAfterImplementation ==
    \A p \in proposals : \A a \in p \ {Outside} : chain["main"][a].status # "pending"

(***************************************************************************)
(* After the setup of the test suites the instances of testEnv are the     *)
(* proxies, initialized at the revision their suites expect, with the      *)
(* vault's approval: though V1 is deployed twice, in between V3 upgraded,  *)
(* and every deployment overwrites the keys of the one before.             *)
(***************************************************************************)
SetUp(role, revision) ==
    LET a == inst[role] IN
        /\ a # 0
        /\ Here(a).kind = "InitializableAdminUpgradeabilityProxy"
        /\ Here(a).revision = revision
        /\ Here(a).approved

SetupComplete ==
    (outcome = "finished" /\ task = "test") =>
        /\ SetUp("testEnv.StakedREX", 1)
        /\ SetUp("testEnv.StakedREXV3", 2)
        /\ SetUp("testEnv.rollexIncentivesController", 1)
        /\ inst["testEnv.StakedREX"] # inst["testEnv.StakedREXV3"]

-----------------------------------------------------------------------------
(***************************************************************************)
(* "Initialize the StakedREXV3 proxy contract" (initialize-StakedPSYS.ts:  *)
(* 18): started by common-deployment right after deploy-StakedREXV3, it    *)
(* finds in the file what that task stored there.                          *)
(***************************************************************************)
StoredDeploymentIsFound == ~(outcome = "aborted" /\ cause = "notStored" /\ task = "common-deployment")
=============================================================================
