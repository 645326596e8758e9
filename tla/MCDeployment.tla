---------------------------- MODULE MCDeployment ----------------------------
(* Deployment for TLC: contracts are numbered; any task is started first,  *)
(* and after its end - a crash, an abort - deploy-StakedREXV3.             *)
EXTENDS Deployment

FourteenContracts == 1..14
AnyThenDeploy == << TaskNames, {"deploy-StakedREXV3"} >>
AnyTask == << TaskNames >>
=============================================================================
