----------------------------- MODULE PowerHistory -----------------------------
(***************************************************************************)
(* What governance counts on: a table of the power of every account at the *)
(* end of every block.  Only the column of the present block changes, and  *)
(* in one step power appears at one account, disappears from one, or moves *)
(* from one to another.  No snapshots, no delegations.                     *)
(***************************************************************************)
EXTENDS Integers

CONSTANTS User, StartBlock, MaxSupply

VARIABLES block,
          power         \* power[b][u]

Init ==
  /\ block = StartBlock
  /\ power = [b \in {StartBlock} |-> [u \in User |-> 0]]

Gain(u) ==
  /\ \E amount \in 1 .. MaxSupply : power' = [power EXCEPT ![block][u] = @ + amount]
  /\ UNCHANGED block

Lose(u) ==
  /\ \E amount \in 1 .. power[block][u] : power' = [power EXCEPT ![block][u] = @ - amount]
  /\ UNCHANGED block

Pass(u, w) ==
  /\ \E amount \in 1 .. power[block][u] :
        LET less == [power EXCEPT ![block][u] = @ - amount]
        IN  power' = [less EXCEPT ![block][w] = @ + amount]
  /\ UNCHANGED block

NextBlock ==
  /\ block' = block + 1
  /\ power' = [b \in StartBlock .. block + 1 |-> IF b <= block THEN power[b] ELSE power[block]]

Next ==
  \/ \E u \in User : Gain(u) \/ Lose(u)
  \/ \E u, w \in User : Pass(u, w)
  \/ NextBlock

Spec == Init /\ [][Next]_<<block, power>>
==============================================================================
