\* Any task, from its start to its end, a crash or an abort at any step, and
\* then the deployment of the staked token on what is left behind.
CONSTANTS
    Tasks <- AnyThenDeploy
    Addresses <- FourteenContracts
    MaxContracts = 14
SPECIFICATION Spec
INVARIANTS
    DeploymentTypeOK
    ExhaustedOnlyUnnoticed
    FinishedMeansLive
    SetupComplete
    ProposalOnlyAfterImplementation
PROPERTY
    ProcessEnds
CHECK_DEADLOCK FALSE
