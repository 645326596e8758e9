----------------------------- MODULE StakeLedger -----------------------------
(***************************************************************************)
(* stkREX as its holders see it: an amount appears at one account when REX *)
(* is staked, disappears from one when it is redeemed, or moves from one   *)
(* to another.  No cooldowns, no rewards, no snapshots.  StakedREX and     *)
(* GovernancePower are both about this token, and both implement it.       *)
(***************************************************************************)
EXTENDS Naturals

CONSTANT User

VARIABLE balances

Init == balances = [u \in User |-> 0]

Appear(u, amount) == balances' = [balances EXCEPT ![u] = @ + amount]

Disappear(u, amount) ==
  /\ amount <= balances[u]
  /\ balances' = [balances EXCEPT ![u] = @ - amount]

Pass(from, to, amount) ==
  /\ amount <= balances[from]
  /\ LET less == [balances EXCEPT ![from] = @ - amount]
     IN  balances' = [less EXCEPT ![to] = @ + amount]

Next ==
  \E u \in User, amount \in Nat \ {0} :
    \/ Appear(u, amount)
    \/ Disappear(u, amount)
    \/ \E w \in User : Pass(u, w, amount)

Spec == Init /\ [][Next]_balances
==============================================================================
