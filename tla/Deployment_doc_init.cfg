\* What the tasks' descriptions say of one that follows another.
CONSTANTS
    Tasks <- AnyTask
    Addresses <- FourteenContracts
    MaxContracts = 14
SPECIFICATION Spec
INVARIANT StoredDeploymentIsFound
CHECK_DEADLOCK FALSE
