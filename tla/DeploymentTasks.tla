-------------------------- MODULE DeploymentTasks --------------------------
(***************************************************************************)
(* The hardhat tasks under tasks/ and the functions of                     *)
(* helpers/contracts-accessors.ts they are made of, as scripts: a task is  *)
(* the sequence of the steps its action awaits one after the other.        *)
(* Deployment.tla says what a step does.                                   *)
(*                                                                         *)
(* role names a variable of the script (a contract instance), key an entry *)
(* of deployed-contracts.json.  The values passed to constructors are left *)
(* out.                                                                    *)
(***************************************************************************)
EXTENDS Sequences

\* The parameters of the command line a task looks at.
Flags == [verify : BOOLEAN, defender : BOOLEAN, valid : BOOLEAN,
          stkREXimpl : BOOLEAN, stkbptimpl : BOOLEAN]
NoFlags == [verify |-> FALSE, defender |-> FALSE, valid |-> TRUE,
            stkREXimpl |-> FALSE, stkbptimpl |-> FALSE]

Only(flag, steps) == IF flag THEN steps ELSE <<>>

setDRE == <<[op |-> "setDRE"]>>
useDRE == <<[op |-> "useDRE"]>>
checkVerification(flag) == Only(flag, <<[op |-> "checkVerification"]>>)
requireParams == <<[op |-> "requireParams"]>>
run(task, p) == <<[op |-> "run", task |-> task, flags |-> p]>>
wait(role) == <<[op |-> "wait", role |-> role]>>
verifyContract_(role) == <<[op |-> "verify", role |-> role]>>
lookup(key, role) == <<[op |-> "lookup", key |-> key, role |-> role]>>
encode(kind, nargs) == <<[op |-> "encode", kind |-> kind, nargs |-> nargs]>>

registerContractInJsonDb(key, role) == <<[op |-> "register", key |-> key, role |-> role]>>
insertContractAddressInDb(key, role) == registerContractInJsonDb(key, role)

(***************************************************************************)
(* deployContract sends the transaction and stores the address it will     *)
(* have; it does not wait for the transaction to be mined.                 *)
(***************************************************************************)
deployContract(kind, slug, signer, role) ==
    <<[op |-> "send", kind |-> kind, from |-> signer, role |-> role]>>
    \o registerContractInJsonDb(<<kind, slug>>, role)

-----------------------------------------------------------------------------
(***************************************************************************)
(* helpers/contracts-accessors.ts: deploy, then verify.  Only three of the *)
(* functions wait for the transaction in between.                          *)
(***************************************************************************)
deployStakedREX(verify, role) ==
    deployContract("StakedREX", "", "owner", role) \o Only(verify, verifyContract_(role))

deployStakedREXV3(verify, role) ==
    deployContract("StakedREXV3", "", "owner", role) \o Only(verify, verifyContract_(role))

deployStakedTokenV3Revision3(verify, signer, role) ==
    deployContract("StakedTokenV3Rev3", "", signer, role) \o Only(verify, verifyContract_(role))

deployRollexIncentivesController(verify, role) ==
    deployContract("RollexIncentivesController", "", "owner", role)
    \o wait(role) \o Only(verify, verifyContract_(role))

deployInitializableAdminUpgradeabilityProxy(verify, signer, role) ==
    deployContract("InitializableAdminUpgradeabilityProxy", "", signer, role)
    \o wait(role) \o Only(verify, verifyContract_(role))

deployMintableErc20(role) == deployContract("MintableErc20", "", "owner", role)
deployMockTransferHook(role) == deployContract("MockTransferHook", "", "owner", role)
deployATokenMock(slug, role) == deployContract("ATokenMock", slug, "owner", role)

deployRollexStakingHelper(verify, role) ==
    deployContract("RollexStakingHelper", "", "owner", role)
    \o Only(verify, verifyContract_(role))

deployStakeUIHelper(verify, role) ==
    deployContract("StakeUIHelper", "", "owner", role) \o Only(verify, verifyContract_(role))

deployStakedTokenDataProvider(verify, role) ==
    deployContract("StakedTokenDataProvider", "", "owner", role)
    \o Only(verify, verifyContract_(role))

getStakedREXImpl(role) == lookup(<<"StakedREXImpl", "">>, role)
getStakedREXProxy(role) == lookup(<<"StakedREXV3", "">>, role)
getContractFactory(kind, slug, role) == lookup(<<kind, slug>>, role)

-----------------------------------------------------------------------------
(***************************************************************************)
(* tasks/deployments and tasks/migrations.                                 *)
(***************************************************************************)
\* Variant: the proxy is stored before the implementation's own entries.
ProxyRegisteredFirst(p) ==
    setDRE \o checkVerification(p.verify)
    \o deployInitializableAdminUpgradeabilityProxy(p.verify, "owner", "proxy")
    \o registerContractInJsonDb(<<"StakedREXV3", "">>, "proxy")
    \o deployStakedREXV3(TRUE, "impl")
    \o wait("impl")
    \o registerContractInJsonDb(<<"Staked REX", "">>, "impl")

(***************************************************************************)
(* deploy-StakedREXV3.  The implementation is always verified.  Its entry  *)
(* is overwritten by the proxy's; its own becomes the token's name.        *)
(***************************************************************************)
DeployStakedREXV3Task(p) ==
    setDRE \o checkVerification(p.verify)
    \o deployStakedREXV3(TRUE, "impl")
    \o wait("impl")
    \o registerContractInJsonDb(<<"Staked REX", "">>, "impl")
    \o deployInitializableAdminUpgradeabilityProxy(p.verify, "owner", "proxy")
    \o registerContractInJsonDb(<<"StakedREXV3", "">>, "proxy")

InitializeStakedREXV3Task(p) ==
    setDRE \o requireParams
    \o getStakedREXImpl("impl") \o getStakedREXProxy("proxy")
    \o encode("StakedREXV3", 4)
    \o <<[op |-> "proxyInit", role |-> "proxy", logic |-> "impl"]>>

CommonDeploymentTask(p) ==
    useDRE \o checkVerification(p.verify)
    \o run("deploy-StakedREXV3", p)
    \o run("initialize-StakedREXV3", p)

DevDeploymentTask == useDRE \o run("deploy-StakedREX", NoFlags)

VerifyScTask == run("set-DRE", NoFlags)

DeployRollexStakingHelperTask(p) ==
    setDRE \o checkVerification(p.verify)
    \o deployRollexStakingHelper(p.verify, "instance")
    \o wait("instance")
    \o registerContractInJsonDb(<<"RollexStakingHelper", "">>, "instance")

DeployStakeUIHelperTask(p) ==
    setDRE \o checkVerification(p.verify)
    \o deployStakeUIHelper(p.verify, "instance")
    \o wait("instance")
    \o registerContractInJsonDb(<<"StakeUIHelper", "">>, "instance")

DeployStakedTokenDataProviderTask(p) ==
    setDRE \o checkVerification(p.verify) \o requireParams
    \o deployStakedTokenDataProvider(p.verify, "instance")
    \o wait("instance")
    \o registerContractInJsonDb(<<"StakedTokenDataProvider", "">>, "instance")

-----------------------------------------------------------------------------
(***************************************************************************)
(* tasks/proposals.  getDefenderRelaySigner replaces the first signer.     *)
(***************************************************************************)
getDefenderRelaySigner(p) == Only(p.defender, <<[op |-> "defender"]>>)
Signer(p) == IF p.defender THEN "relay" ELSE "owner"

DeployStakedRexRev3Task(p) ==
    setDRE \o getDefenderRelaySigner(p)
    \o deployStakedTokenV3Revision3(TRUE, Signer(p), "stkREXImpl")

given(role) == <<[op |-> "given", role |-> role]>>

ProposeExtensionTask(p) ==
    Only(p.stkREXimpl, given("stkREXImpl")) \o Only(p.stkbptimpl, given("stkBptImpl"))
    \o setDRE \o getDefenderRelaySigner(p)
    \o <<[op |-> "requireImpls", impls |-> {"stkREXImpl", "stkBptImpl"}]>>
    \o encode("StakedTokenV3Rev3", 0) \o encode("StakedTokenBptRev2", 3)
    \o <<[op |-> "create", from |-> Signer(p), impls |-> {"stkREXImpl", "stkBptImpl"}]>>

\* Variant: the deployment is not told about the defender flag.
ExtensionsByTwoSigners(p) ==
    setDRE \o getDefenderRelaySigner(p)
    \o Only(~p.stkREXimpl, run("deploy-staked-rex-rev3", NoFlags))
    \o Only(~p.stkbptimpl, run("deploy-staked-bpt-rev2", NoFlags))
    \o run("propose-extension", p)

ProposalStkExtensionsTask(p) ==
    setDRE \o getDefenderRelaySigner(p)
    \o Only(~p.stkREXimpl, run("deploy-staked-rex-rev3", [NoFlags EXCEPT !.defender = p.defender]))
    \o Only(~p.stkbptimpl, run("deploy-staked-bpt-rev2", [NoFlags EXCEPT !.defender = p.defender]))
    \o run("propose-extension", p)

ProposeVaultApprovalTask(p) ==
    setDRE \o getDefenderRelaySigner(p)
    \o <<[op |-> "create", from |-> Signer(p), impls |-> {}]>>

ProposalVaultApprovalTask(p) ==
    setDRE \o getDefenderRelaySigner(p)
    \o run("propose-vault-approval", p)

-----------------------------------------------------------------------------
(***************************************************************************)
(* The environment of the test suites (test/__setup.spec.ts).              *)
(***************************************************************************)
approve(role) == <<[op |-> "approve", role |-> role]>>
proxyInit(role, logic) == <<[op |-> "proxyInit", role |-> role, logic |-> logic]>>

testDeployrexStakeV1 ==
    deployInitializableAdminUpgradeabilityProxy(FALSE, "owner", "icProxy")
    \o deployInitializableAdminUpgradeabilityProxy(FALSE, "owner", "stakeProxy")
    \o deployRollexIncentivesController(FALSE, "icImpl")
    \o deployStakedREX(FALSE, "stakeImpl")
    \o deployMockTransferHook("hook")
    \o encode("StakedREX", 4) \o proxyInit("stakeProxy", "stakeImpl") \o approve("stakeProxy")
    \o insertContractAddressInDb(<<"StakedREX", "">>, "stakeProxy")
    \o encode("RollexIncentivesController", 0) \o proxyInit("icProxy", "icImpl") \o approve("icProxy")
    \o insertContractAddressInDb(<<"RollexIncentivesController", "">>, "icProxy")

\* Variant: the upgraded proxy is not stored.
UpgradeNotStored ==
    testDeployrexStakeV1
    \o deployStakedREXV3(FALSE, "v3Impl")
    \o encode("StakedREXV3", 0) \o <<[op |-> "upgrade", role |-> "stakeProxy", logic |-> "v3Impl"]>>

testDeployrexStakeV2 ==
    testDeployrexStakeV1
    \o deployStakedREXV3(FALSE, "v3Impl")
    \o encode("StakedREXV3", 0) \o <<[op |-> "upgrade", role |-> "stakeProxy", logic |-> "v3Impl"]>>
    \o insertContractAddressInDb(<<"StakedREXV3", "">>, "stakeProxy")

initializeMakeSuite ==
    getContractFactory("StakedREX", "", "testEnv.StakedREX")
    \o getContractFactory("StakedREXV3", "", "testEnv.StakedREXV3")
    \o getContractFactory("RollexIncentivesController", "", "testEnv.rollexIncentivesController")
    \o getContractFactory("MintableErc20", "", "testEnv.rexToken")
    \o getContractFactory("ATokenMock", "aDai", "testEnv.aDaiMock")
    \o getContractFactory("ATokenMock", "aWeth", "testEnv.aWethMock")

TestSetup ==
    setDRE
    \o deployMintableErc20("rexToken")
    \o testDeployrexStakeV2
    \o testDeployrexStakeV1
    \o deployATokenMock("aDai", "aDai")
    \o deployATokenMock("aWeth", "aWeth")
    \o initializeMakeSuite

(***************************************************************************)
(* hardhat.config.ts loads every file of the task folders;                 *)
(* deploy-bpt.ts and deploy-staked-bpt-rev2.ts are comments throughout and *)
(* register nothing.  "test" stands for hardhat test.                      *)
(***************************************************************************)
TaskNames ==
    {"set-dre", "verify-sc", "common-deployment", "dev-deployment", "deploy-StakedREXV3",
     "initialize-StakedREXV3", "deploy-RollexStakingHelper", "deploy-StakeUIHelper",
     "deploy-StakedTokenDataProvider", "deploy-staked-rex-rev3", "propose-extension",
     "proposal-stk-extensions", "propose-vault-approval", "proposal-vault-approval",
     "test"}

LoadedTasks(p) ==
    [t \in TaskNames |->
        CASE t = "set-dre" -> setDRE
          [] t = "verify-sc" -> VerifyScTask
          [] t = "common-deployment" -> CommonDeploymentTask(p)
          [] t = "dev-deployment" -> DevDeploymentTask
          [] t = "deploy-StakedREXV3" -> DeployStakedREXV3Task(p)
          [] t = "initialize-StakedREXV3" -> InitializeStakedREXV3Task(p)
          [] t = "deploy-RollexStakingHelper" -> DeployRollexStakingHelperTask(p)
          [] t = "deploy-StakeUIHelper" -> DeployStakeUIHelperTask(p)
          [] t = "deploy-StakedTokenDataProvider" -> DeployStakedTokenDataProviderTask(p)
          [] t = "deploy-staked-rex-rev3" -> DeployStakedRexRev3Task(p)
          [] t = "propose-extension" -> ProposeExtensionTask(p)
          [] t = "proposal-stk-extensions" -> ProposalStkExtensionsTask(p)
          [] t = "propose-vault-approval" -> ProposeVaultApprovalTask(p)
          [] t = "proposal-vault-approval" -> ProposalVaultApprovalTask(p)
          [] t = "test" -> TestSetup]
=============================================================================
