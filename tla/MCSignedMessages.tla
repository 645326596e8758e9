-------------------------- MODULE MCSignedMessages --------------------------
(* SignedMessages for TLC: a few messages of each kind, with nonces that
   collide, come out of order and are ahead, and one that expires. *)
EXTENDS SignedMessages

CONSTANTS u1, o1, c1, c2

MCTimes == 0..1

MCSignable ==
    {buildPermitParams(c1, u1, o1, 0, 1, 1),
     buildDelegateByTypeParams(c1, o1, "VOTING_POWER", 0, 0),
     buildDelegateByTypeParams(c1, o1, "PROPOSITION_POWER", 2, 1),
     buildDelegateParams(c1, o1, 1, 1), buildDelegateParams(c2, o1, 0, 1)}
=============================================================================
