\* A stkREX and a stkBPT proxy, two proposals of any kind, deployments that
\* fail, and every time from before the old end to after the new one.
CONSTANTS
    OldEnd = 2
    Duration = 2
    MaxTime = 5
    MaxImpls = 4
    MaxProposals = 2
    Payloads = {"upgradeToAndCall", "upgradeTo", "changeAdmin"}
SPECIFICATION Spec
INVARIANTS
    SecondsPaidOnce
    GapIsPaid
    BlockedUntilOldEnd
    ExtendedTogether
    RevisionsInOrder
CHECK_DEADLOCK FALSE
