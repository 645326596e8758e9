--------------------------- MODULE SignedMessages ---------------------------
(***************************************************************************)
(* Signed permits and delegations of StakedREXV3: typed data built and     *)
(* signed off the chain (helpers/contracts-helpers.ts), and delivered to a *)
(* contract by anyone, any number of times, late, in any order, with       *)
(* arguments that are not the signed ones, or to the wrong contract.       *)
(* The three kinds share one nonce for each account.                       *)
(*                                                                         *)
(* ecrecover is external: it returns the signer for the data he signed     *)
(* and, for any other data, an address that belongs to no user.            *)
(***************************************************************************)
EXTENDS Naturals, Sequences

CONSTANTS
    Users,          \* accounts that sign messages
    Others,         \* spenders and delegatees
    Signable,       \* bound: the messages users may sign
    Stranger,       \* the address ecrecover returns for other data than was signed
    Contracts,      \* StakedREXV3 proxies; each is a domain of its own
    Values,         \* allowances a permit may set
    Times           \* block timestamps

VARIABLES
    now,            \* block.timestamp
    signed,         \* signatures given out so far
    _nonces,        \* contract -> account -> the next valid nonce
    allowance,      \* contract -> owner -> spender -> allowance
    delegates,      \* contract -> delegation type -> account -> delegatee, None at first
    log             \* history: contract -> user -> the messages of his that were executed

vars == <<now, signed, _nonces, allowance, delegates, log>>

DelegationTypes == {"VOTING_POWER", "PROPOSITION_POWER"}
Accounts == Users \cup {Stranger}
None == "none"

-----------------------------------------------------------------------------
(***************************************************************************)
(* contracts-helpers.ts: the typed data, of a kind and for a domain.  The  *)
(* owner of a permit is part of its data, a delegation's is not.           *)
(***************************************************************************)
buildPermitParams(contract, owner, spender, nonce, deadline, value) ==
    [primaryType |-> "Permit", domain |-> contract, owner |-> owner, to |-> spender,
     value |-> value, types |-> {}, nonce |-> nonce, expiry |-> deadline]

buildDelegateByTypeParams(contract, delegatee, type, nonce, expiry) ==
    [primaryType |-> "DelegateByType", domain |-> contract, owner |-> None, to |-> delegatee,
     value |-> 0, types |-> {type}, nonce |-> nonce, expiry |-> expiry]

buildDelegateParams(contract, delegatee, nonce, expiry) ==
    [primaryType |-> "Delegate", domain |-> contract, owner |-> None, to |-> delegatee,
     value |-> 0, types |-> DelegationTypes, nonce |-> nonce, expiry |-> expiry]

ASSUME SignedAssumption ==
    /\ Stranger \notin Users
    /\ Values \subseteq Nat /\ 0 \in Values
    /\ Times \subseteq Nat /\ 0 \in Times
    /\ Signable \subseteq [primaryType : {"Permit", "DelegateByType", "Delegate"},
                           domain : Contracts, owner : Users \cup {None}, to : Others,
                           value : Values, types : SUBSET DelegationTypes,
                           nonce : Nat, expiry : Nat]
    /\ \A m \in Signable : m.primaryType = "Permit" => m.types = {}

getSignatureFromTypedData(user, m) == [signer |-> user, data |-> m]

ecrecover(digest, s) == IF digest = s.data THEN s.signer ELSE Stranger

-----------------------------------------------------------------------------
Init ==
    /\ now = 0
    /\ signed = {}
    /\ _nonces = [c \in Contracts |-> [a \in Accounts |-> 0]]
    /\ allowance = [c \in Contracts |-> [o \in Users |-> [s \in Others |-> 0]]]
    /\ delegates = [c \in Contracts |-> [t \in DelegationTypes |-> [a \in Accounts |-> None]]]
    /\ log = [c \in Contracts |-> [u \in Users |-> <<>>]]

\* A user signs a message about himself.
Sign(user, m) ==
    /\ m.owner \in {user, None}
    /\ signed' = signed \cup {getSignatureFromTypedData(user, m)}
    /\ UNCHANGED <<now, _nonces, allowance, delegates, log>>

Tick ==
    /\ now' \in {t \in Times : t > now}
    /\ UNCHANGED <<signed, _nonces, allowance, delegates, log>>

UseNonce(c, a) == _nonces' = [_nonces EXCEPT ![c][a] = @ + 1]

Record(c, a, m) ==
    log' = IF a \in Users THEN [log EXCEPT ![c][a] = Append(@, m)] ELSE log

\* Variant: the delegator is stored as his delegatee.
DelegatedToSelf(c, a, types, delegatee) ==
    delegates' = [delegates EXCEPT ![c] =
                    [t \in DelegationTypes |->
                       IF t \in types THEN [@[t] EXCEPT ![a] = a] ELSE @[t]]]

\* _delegateByType for every type of a set.
Delegated(c, a, types, delegatee) ==
    delegates' = [delegates EXCEPT ![c] =
                    [t \in DelegationTypes |->
                       IF t \in types THEN [@[t] EXCEPT ![a] = delegatee] ELSE @[t]]]

\* Variant: the domain separator does not hold the contract.
SameDomain(m, c) == m

\* The data the contract itself hashes.
Digest(m, c) == [m EXCEPT !.domain = c]

(***************************************************************************)
(* permit.  The digest holds the owner's current nonce, whatever nonce was *)
(* in the message.                                                         *)
(***************************************************************************)
permit(c, m, s) ==
    LET digest == [Digest(m, c) EXCEPT !.nonce = _nonces[c][m.owner]] IN
        /\ m.primaryType = "Permit"
        /\ now <= m.expiry
        /\ m.owner = ecrecover(digest, s)
        /\ UseNonce(c, m.owner)
        /\ allowance' = [allowance EXCEPT ![c][m.owner][m.to] = m.value]
        /\ Record(c, m.owner, digest)
        /\ UNCHANGED <<now, signed, delegates>>

\* Variant: a nonce that was used already is good enough.
OldNonceToo(c, m, a) ==
    /\ m.nonce <= _nonces[c][a]
    /\ now <= m.expiry

\* Variant: the expiry is not looked at.
NeverExpires(c, m, a) == m.nonce = _nonces[c][a]

\* What delegateByTypeBySig and delegateBySig require of the signatory.
ValidDelegation(c, m, a) ==
    /\ m.nonce = _nonces[c][a]
    /\ now <= m.expiry

delegateByTypeBySig(c, m, s) ==
    LET digest == Digest(m, c)
        signatory == ecrecover(digest, s)
    IN  /\ m.primaryType = "DelegateByType"
        /\ ValidDelegation(c, m, signatory)
        /\ UseNonce(c, signatory)
        /\ Delegated(c, signatory, m.types, m.to)
        /\ Record(c, signatory, digest)
        /\ UNCHANGED <<now, signed, allowance>>

delegateBySig(c, m, s) ==
    LET digest == Digest(m, c)
        signatory == ecrecover(digest, s)
    IN  /\ m.primaryType = "Delegate"
        /\ ValidDelegation(c, m, signatory)
        /\ UseNonce(c, signatory)
        /\ Delegated(c, signatory, m.types, m.to)
        /\ Record(c, signatory, digest)
        /\ UNCHANGED <<now, signed, allowance>>

-----------------------------------------------------------------------------
(***************************************************************************)
(* The calls a user makes himself: ERC20.approve, delegateByType and       *)
(* delegate.  They use no nonce.                                           *)
(***************************************************************************)
approve(c, owner, spender, value) ==
    /\ allowance' = [allowance EXCEPT ![c][owner][spender] = value]
    /\ UNCHANGED <<now, signed, _nonces, delegates, log>>

delegateByType(c, user, type, delegatee) ==
    /\ Delegated(c, user, {type}, delegatee)
    /\ UNCHANGED <<now, signed, _nonces, allowance, log>>

delegate(c, user, delegatee) ==
    /\ Delegated(c, user, DelegationTypes, delegatee)
    /\ UNCHANGED <<now, signed, _nonces, allowance, log>>

Deliver ==
    \E s \in signed : \E c \in Contracts : \E m \in Signable :
        permit(c, m, s) \/ delegateByTypeBySig(c, m, s) \/ delegateBySig(c, m, s)

Direct ==
    \E c \in Contracts, u \in Users, other \in Others :
        \/ \E v \in Values : approve(c, u, other, v)
        \/ \E t \in DelegationTypes : delegateByType(c, u, t, other)
        \/ delegate(c, u, other)

Next ==
    \/ \E u \in Users : \E m \in Signable : Sign(u, m)
    \/ Tick
    \/ Deliver
    \/ Direct

Spec == Init /\ [][Next]_vars

-----------------------------------------------------------------------------
SignedTypeOK ==
    /\ now \in Times
    /\ signed \subseteq [signer : Users, data : Signable]
    /\ _nonces \in [Contracts -> [Accounts -> Nat]]
    /\ allowance \in [Contracts -> [Users -> [Others -> Values]]]
    /\ delegates \in [Contracts -> [DelegationTypes -> [Accounts -> Others \cup {None}]]]
    /\ log \in [Contracts -> [Users -> Seq(Signable)]]

(***************************************************************************)
(* However messages are delivered, the messages of a user that a contract  *)
(* executed are, in order, his for that contract with nonces 0, 1, 2, ...: *)
(* none runs twice or out of order, at most one of those he signed with    *)
(* the same nonce runs, and the contract's nonce counts them.              *)
(***************************************************************************)
ExecutedInOrder ==
    \A c \in Contracts, u \in Users :
        /\ _nonces[c][u] = Len(log[c][u])
        /\ \A i \in 1..Len(log[c][u]) :
              /\ log[c][u][i].nonce = i - 1
              /\ log[c][u][i].domain = c
              /\ getSignatureFromTypedData(u, log[c][u][i]) \in signed

(***************************************************************************)
(* Unless the user calls himself, his nonce, allowances and delegations at *)
(* a contract change only by a message he signed for it, with its current  *)
(* nonce, before the message expires, and then by what the message says    *)
(* and nothing else.  A delegation delivered with other data than was      *)
(* signed goes through for an address that is nobody's, and changes no     *)
(* user.                                                                   *)
(***************************************************************************)
Of(c, u) == <<_nonces[c][u], allowance[c][u], [t \in DelegationTypes |-> delegates[c][t][u]]>>

After(c, u, m) ==
    << _nonces[c][u] + 1,
       IF m.primaryType = "Permit" THEN [allowance[c][u] EXCEPT ![m.to] = m.value]
                                   ELSE allowance[c][u],
       [t \in DelegationTypes |-> IF t \in m.types THEN m.to ELSE delegates[c][t][u]] >>

OnlyAuthorised ==
    [][\A c \in Contracts, u \in Users :
          \/ Of(c, u)' = Of(c, u)
          \/ _nonces[c][u]' = _nonces[c][u] /\ Direct
          \/ \E s \in signed :
                /\ s.signer = u /\ s.data.domain = c
                /\ s.data.nonce = _nonces[c][u] /\ now <= s.data.expiry
                /\ Of(c, u)' = After(c, u, s.data)]_vars

\* What the contracts' tables say of each user.
rightsHeld ==
    [c \in Contracts |-> [u \in Users |->
        [allowance |-> allowance[c][u], delegates |-> [t \in DelegationTypes |-> delegates[c][t][u]]]]]

SO == INSTANCE SignedOrders WITH Orders <- Signable, rights <- rightsHeld

(***************************************************************************)
(* The contracts, with their nonces and their ecrecover, do what the       *)
(* specification of signed orders promises: a user's rights change by his  *)
(* own calls and by his orders, each in its turn, before it expires and as *)
(* it says, whatever is delivered.                                         *)
(***************************************************************************)
ImplementsSignedOrders == SO!Spec
=============================================================================
