---------------------------- MODULE SignedOrders ----------------------------
(***************************************************************************)
(* What signed messages promise, without nonces kept, signatures recovered *)
(* or calls delivered.  A user has rights at each contract: what he allows *)
(* spenders, and whom he delegates to.  They change by calls of his own and*)
(* by his orders: at each contract these are executed in the order of their*)
(* numbers, none is left out and none comes twice, each was signed by the  *)
(* user for that contract and has not expired, and does what it says.      *)
(***************************************************************************)
EXTENDS Naturals, Sequences

CONSTANTS
    Users, Contracts, Times, Others, Values, DelegationTypes, None,
    Orders      \* what is ordered, for which domain, with which nonce, until when

VARIABLES now, signed, log, rights

vars == <<now, signed, log, rights>>

Rights == [allowance : [Others -> Values], delegates : [DelegationTypes -> Others \cup {None}]]

NoRights == [allowance |-> [o \in Others |-> 0], delegates |-> [t \in DelegationTypes |-> None]]

\* The rights r after order o.
Ordered(r, o) ==
    [allowance |-> IF o.primaryType = "Permit" THEN [r.allowance EXCEPT ![o.to] = o.value]
                                               ELSE r.allowance,
     delegates |-> [t \in DelegationTypes |-> IF t \in o.types THEN o.to ELSE r.delegates[t]]]

Init ==
    /\ now = 0
    /\ signed = {}
    /\ log = [c \in Contracts |-> [u \in Users |-> <<>>]]
    /\ rights = [c \in Contracts |-> [u \in Users |-> NoRights]]

Sign(u) ==
    /\ \E o \in Orders : signed' = signed \cup {[signer |-> u, data |-> o]}
    /\ UNCHANGED <<now, log, rights>>

Tick ==
    /\ now' \in {t \in Times : t > now}
    /\ UNCHANGED <<signed, log, rights>>

Execute(c, u) ==
    /\ \E o \in Orders :
         /\ [signer |-> u, data |-> o] \in signed
         /\ o.domain = c
         /\ o.nonce = Len(log[c][u])
         /\ now <= o.expiry
         /\ log' = [log EXCEPT ![c][u] = Append(@, o)]
         /\ rights' = [rights EXCEPT ![c][u] = Ordered(@, o)]
    /\ UNCHANGED <<now, signed>>

OwnCall(c, u) ==
    /\ \E r \in Rights : rights' = [rights EXCEPT ![c][u] = r]
    /\ UNCHANGED <<now, signed, log>>

Next ==
    \/ \E u \in Users : Sign(u)
    \/ Tick
    \/ \E c \in Contracts, u \in Users : Execute(c, u) \/ OwnCall(c, u)

Spec == Init /\ [][Next]_vars
=============================================================================
