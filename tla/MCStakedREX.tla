----------------------------- MODULE MCStakedREX -----------------------------
(* StakedREXHistory on small instances; the cfg files choose the numbers. *)
EXTENDS StakedREXHistory, TLC

CONSTANTS Funded,         \* the users who have REX at the start; they may stake for others
          PocketMoney,    \* what each of them has
          VaultFunds      \* the REX in the rewards vault

MCInitialREX ==
  [a \in RexAccount |-> IF a \in Funded THEN PocketMoney
                        ELSE IF a = RewardsVault THEN VaultFunds ELSE 0]

\* Users are interchangeable when all or none are funded.
UserSymmetry == Permutations(User)
==============================================================================
