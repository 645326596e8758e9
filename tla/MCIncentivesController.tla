----------------------- MODULE MCIncentivesController -----------------------
(* IncentivesController on a small instance: two aTokens, and lists that   *)
(* leave one out or name one twice.                                        *)
EXTENDS IncentivesController

CONSTANTS a1, a2,        \* the aTokens
          u1,            \* a user who has REX to stake
          VaultFunds     \* the REX in the rewards vault

MCInitialREX == [x \in RexAccount |-> IF x = RewardsVault THEN VaultFunds
                                      ELSE IF x = u1 THEN 1 ELSE 0]
MCMaxSupply == [a \in ATokens |-> IF a = a1 THEN 2 ELSE 1]
OneOmittedOrTwice == {<<a1>>, <<a1, a2, a1>>}
=============================================================================
