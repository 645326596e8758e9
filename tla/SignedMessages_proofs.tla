----------------------- MODULE SignedMessages_proofs -----------------------
(***************************************************************************)
(* Proofs about SignedMessages: type correctness, the order in which a     *)
(* contract executes a user's messages, that nothing else changes him, the *)
(* refinement of SignedOrders, and that no message is executed twice.      *)
(***************************************************************************)
EXTENDS SignedMessages, TLAPS

(***************************************************************************)
(* A delivery that goes through uses the nonce of one account; when it is  *)
(* a user, the message logged is the one he signed.                        *)
(***************************************************************************)
Executes(c, a, d, s) ==
    /\ UseNonce(c, a)
    /\ Record(c, a, d)
    /\ d.nonce = _nonces[c][a]
    /\ d.domain = c
    /\ now <= d.expiry
    /\ a \in Users => s = [signer |-> a, data |-> d]
    /\ UNCHANGED <<now, signed>>

Effects(c, a, d) ==
    \/ /\ d.primaryType = "Permit"
       /\ d.owner = a
       /\ allowance' = [allowance EXCEPT ![c][a][d.to] = d.value]
       /\ UNCHANGED delegates
    \/ /\ d.primaryType # "Permit"
       /\ Delegated(c, a, d.types, d.to)
       /\ UNCHANGED allowance

LEMMA DigestFields ==
    ASSUME NEW m \in Signable, NEW c \in Contracts, NEW n \in Nat
    PROVE  /\ Digest(m, c) \in [primaryType : {"Permit", "DelegateByType", "Delegate"},
                           domain : Contracts, owner : Users \cup {None}, to : Others,
                           value : Values, types : SUBSET DelegationTypes,
                           nonce : Nat, expiry : Nat]
           /\ \A f \in {Digest(m, c), [Digest(m, c) EXCEPT !.nonce = n]} :
                /\ f.domain = c /\ f.expiry = m.expiry /\ f.primaryType = m.primaryType
                /\ f.to = m.to /\ f.owner = m.owner /\ f.types = m.types /\ f.value = m.value
           /\ Digest(m, c).nonce = m.nonce
           /\ [Digest(m, c) EXCEPT !.nonce = n].nonce = n
BY SignedAssumption DEF Digest

LEMMA Delivery ==
    ASSUME SignedTypeOK, NEW s \in signed, NEW c \in Contracts, NEW m \in Signable,
           permit(c, m, s) \/ delegateByTypeBySig(c, m, s) \/ delegateBySig(c, m, s)
    PROVE  \E a \in Accounts : \E d : Executes(c, a, d, s) /\ Effects(c, a, d)
<1>1. s.signer \in Users /\ s = [signer |-> s.signer, data |-> s.data]
  BY DEF SignedTypeOK
<1>2. \A d : ecrecover(d, s) \in Accounts /\ (ecrecover(d, s) \in Users => d = s.data /\ ecrecover(d, s) = s.signer)
  BY <1>1, SignedAssumption DEF ecrecover, Accounts
<1>3. CASE permit(c, m, s)
  <2> DEFINE a == m.owner
             d == [Digest(m, c) EXCEPT !.nonce = _nonces[c][m.owner]]
  <2>1. a = ecrecover(d, s)  BY <1>3 DEF permit
  <2>2. a \in Accounts /\ (a \in Users => s = [signer |-> a, data |-> d])
    <3>1. ecrecover(d, s) \in Accounts  BY <1>2
    <3>2. ecrecover(d, s) \in Users => d = s.data /\ ecrecover(d, s) = s.signer  BY <1>2
    <3> HIDE DEF a, d
    <3> QED  BY <2>1, <3>1, <3>2, <1>1
  <2>3. _nonces[c][a] \in Nat  BY <2>2 DEF SignedTypeOK
  <2>4. /\ d.nonce = _nonces[c][a] /\ d.domain = c /\ d.expiry = m.expiry
        /\ d.primaryType = m.primaryType /\ d.owner = a /\ d.to = m.to /\ d.value = m.value
    BY <2>3, DigestFields
  <2>5. /\ UseNonce(c, a) /\ Record(c, a, d) /\ now <= m.expiry /\ UNCHANGED <<now, signed>>
        /\ m.primaryType = "Permit" /\ UNCHANGED delegates
        /\ allowance' = [allowance EXCEPT ![c][a][m.to] = m.value]
    BY <1>3 DEF permit
  <2> HIDE DEF a, d
  <2> QED  BY <2>2, <2>4, <2>5 DEF Executes, Effects
<1>4. ASSUME delegateByTypeBySig(c, m, s) \/ delegateBySig(c, m, s)
      PROVE  \E a \in Accounts : \E d : Executes(c, a, d, s) /\ Effects(c, a, d)
  <2> DEFINE d == Digest(m, c)
             a == ecrecover(d, s)
  <2>2. a \in Accounts /\ (a \in Users => s = [signer |-> a, data |-> d])
    <3>1. ecrecover(d, s) \in Accounts  BY <1>2
    <3>2. ecrecover(d, s) \in Users => d = s.data /\ ecrecover(d, s) = s.signer  BY <1>2
    <3> HIDE DEF d
    <3> QED  BY <3>1, <3>2, <1>1
  <2>4. /\ d.nonce = m.nonce /\ d.domain = c /\ d.expiry = m.expiry
        /\ d.primaryType = m.primaryType /\ d.to = m.to /\ d.types = m.types
    BY DigestFields
  <2>5. /\ UseNonce(c, a) /\ Record(c, a, d) /\ now <= m.expiry /\ UNCHANGED <<now, signed>>
        /\ m.nonce = _nonces[c][a]
        /\ m.primaryType # "Permit" /\ UNCHANGED allowance
        /\ Delegated(c, a, m.types, m.to)
    BY <1>4 DEF delegateByTypeBySig, delegateBySig, ValidDelegation
  <2> HIDE DEF a, d
  <2> QED  BY <2>2, <2>4, <2>5 DEF Executes, Effects
<1> QED  BY <1>3, <1>4

-----------------------------------------------------------------------------
(***************************************************************************)
(* Type correctness.                                                       *)
(***************************************************************************)
LEMMA ExceptTwo ==
    ASSUME NEW S, NEW T, NEW V, NEW f \in [S -> [T -> V]], NEW c \in S, NEW x, NEW v,
           x \in T => v \in V
    PROVE  [f EXCEPT ![c] = [f[c] EXCEPT ![x] = v]] \in [S -> [T -> V]]
<1>1. [f[c] EXCEPT ![x] = v] \in [T -> V]  OBVIOUS
<1> QED  BY <1>1

LEMMA DelegatedType ==
    ASSUME SignedTypeOK, NEW c \in Contracts, NEW a \in Accounts, NEW types, NEW to \in Others,
           Delegated(c, a, types, to)
    PROVE  delegates' \in [Contracts -> [DelegationTypes -> [Accounts -> Others \cup {None}]]]
BY DEF SignedTypeOK, Delegated

LEMMA ExecutesType ==
    ASSUME SignedTypeOK, NEW s \in signed, NEW c \in Contracts, NEW a \in Accounts, NEW d,
           Executes(c, a, d, s)
    PROVE  /\ _nonces' = [_nonces EXCEPT ![c][a] = @ + 1]
           /\ _nonces' \in [Contracts -> [Accounts -> Nat]]
           /\ a \in Users => d \in Signable /\ log' = [log EXCEPT ![c][a] = Append(@, d)]
           /\ a \notin Users => log' = log
           /\ log' \in [Contracts -> [Users -> Seq(Signable)]]
<1>1. _nonces' = [_nonces EXCEPT ![c][a] = @ + 1]  BY DEF Executes, UseNonce
<1>2. _nonces' \in [Contracts -> [Accounts -> Nat]]  BY <1>1 DEF SignedTypeOK
<1>3. a \in Users => d \in Signable
  <2> SUFFICES ASSUME a \in Users PROVE d \in Signable  OBVIOUS
  <2>1. s = [signer |-> a, data |-> d]  BY DEF Executes
  <2>2. s \in [signer : Users, data : Signable]  BY DEF SignedTypeOK
  <2> QED  BY <2>1, <2>2
<1>4. a \in Users => log' = [log EXCEPT ![c][a] = Append(@, d)]  BY DEF Executes, Record
<1>5. a \notin Users => log' = log  BY DEF Executes, Record
<1>6. log' \in [Contracts -> [Users -> Seq(Signable)]]
  <2>1. CASE a \in Users
    <3>1. log[c][a] \in Seq(Signable)  BY <2>1 DEF SignedTypeOK
    <3>2. Append(log[c][a], d) \in Seq(Signable)  BY <3>1, <2>1, <1>3
    <3>3. log' = [log EXCEPT ![c] = [log[c] EXCEPT ![a] = Append(log[c][a], d)]]
      BY <2>1, <1>4 DEF SignedTypeOK
    <3> QED  BY <3>2, <3>3, ExceptTwo DEF SignedTypeOK
  <2>2. CASE a \notin Users  BY <2>2, <1>5 DEF SignedTypeOK
  <2> QED  BY <2>1, <2>2
<1> QED  BY <1>1, <1>2, <1>3, <1>4, <1>5, <1>6

LEMMA TypeInit ==
    ASSUME Init
    PROVE  SignedTypeOK
BY SignedAssumption DEF Init, SignedTypeOK

LEMMA TypeDirect ==
    ASSUME SignedTypeOK, Direct
    PROVE  SignedTypeOK' /\ UNCHANGED <<now, signed, _nonces, log>>
<1> PICK c \in Contracts, u \in Users, other \in Others :
      \/ \E v \in Values : approve(c, u, other, v)
      \/ \E t \in DelegationTypes : delegateByType(c, u, t, other)
      \/ delegate(c, u, other)
  BY DEF Direct
<1> u \in Accounts  BY DEF Accounts
<1>1. CASE \E v \in Values : approve(c, u, other, v)
  <2>1. PICK v \in Values : approve(c, u, other, v)  BY <1>1
  <2>2. allowance' \in [Contracts -> [Users -> [Others -> Values]]]
    BY <2>1 DEF approve, SignedTypeOK
  <2> QED  BY <2>1, <2>2 DEF approve, SignedTypeOK
<1>2. CASE \E t \in DelegationTypes : delegateByType(c, u, t, other)
  <2>1. PICK t \in DelegationTypes : delegateByType(c, u, t, other)  BY <1>2
  <2>2. Delegated(c, u, {t}, other) /\ UNCHANGED <<now, signed, _nonces, allowance, log>>
    BY <2>1 DEF delegateByType
  <2>3. delegates' \in [Contracts -> [DelegationTypes -> [Accounts -> Others \cup {None}]]]
    BY <2>2, DelegatedType
  <2> QED  BY <2>2, <2>3 DEF SignedTypeOK
<1>3. CASE delegate(c, u, other)
  <2>2. Delegated(c, u, DelegationTypes, other) /\ UNCHANGED <<now, signed, _nonces, allowance, log>>
    BY <1>3 DEF delegate
  <2>3. delegates' \in [Contracts -> [DelegationTypes -> [Accounts -> Others \cup {None}]]]
    BY <2>2, DelegatedType
  <2> QED  BY <2>2, <2>3 DEF SignedTypeOK
<1> QED  BY <1>1, <1>2, <1>3

LEMMA TypeDelivery ==
    ASSUME SignedTypeOK, NEW s \in signed, NEW c \in Contracts, NEW m \in Signable,
           permit(c, m, s) \/ delegateByTypeBySig(c, m, s) \/ delegateBySig(c, m, s)
    PROVE  SignedTypeOK'
<1>1. PICK a \in Accounts : \E d : Executes(c, a, d, s)  BY Delivery
<1>2. PICK d : Executes(c, a, d, s)  BY <1>1
<1>3. /\ _nonces' \in [Contracts -> [Accounts -> Nat]]
      /\ log' \in [Contracts -> [Users -> Seq(Signable)]]
  BY <1>2, ExecutesType
<1>4. UNCHANGED <<now, signed>>  BY <1>2 DEF Executes
<1>5. m.to \in Others /\ m.value \in Values  BY SignedAssumption
<1>6. allowance' \in [Contracts -> [Users -> [Others -> Values]]]
  <2>1. allowance' = allowance \/ allowance' = [allowance EXCEPT ![c][m.owner][m.to] = m.value]
    BY DEF permit, delegateByTypeBySig, delegateBySig
  <2> DEFINE rows == [Others -> Values]
             owner == m.owner
             row == [allowance[c][owner] EXCEPT ![m.to] = m.value]
  <2>2. owner \in Users => row \in rows
    BY <1>5 DEF SignedTypeOK
  <2>3. allowance \in [Contracts -> [Users -> rows]]
    BY DEF SignedTypeOK
  <2>4. allowance' = allowance
          \/ allowance' = [allowance EXCEPT ![c] = [allowance[c] EXCEPT ![owner] = row]]
    BY <2>1
  <2>5. allowance' \in [Contracts -> [Users -> rows]]
    <3> HIDE DEF rows, row, owner
    <3>1. [allowance EXCEPT ![c] = [allowance[c] EXCEPT ![owner] = row]] \in [Contracts -> [Users -> rows]]
      BY <2>2, <2>3, ExceptTwo
    <3> QED  BY <3>1, <2>3, <2>4
  <2> QED  BY <2>5
<1>7. delegates' \in [Contracts -> [DelegationTypes -> [Accounts -> Others \cup {None}]]]
  <2>1. delegates' = delegates \/ Delegated(c, ecrecover(Digest(m, c), s), m.types, m.to)
    BY DEF permit, delegateByTypeBySig, delegateBySig
  <2>2. ecrecover(Digest(m, c), s) \in Accounts  BY DEF ecrecover, Accounts, SignedTypeOK
  <2> QED  BY <2>1, <2>2, <1>5, DelegatedType DEF SignedTypeOK
<1> QED  BY <1>3, <1>4, <1>6, <1>7 DEF SignedTypeOK

LEMMA TypeStep ==
    ASSUME SignedTypeOK, [Next]_vars
    PROVE  SignedTypeOK'
<1>1. CASE \E u \in Users : \E m \in Signable : Sign(u, m)
  BY <1>1 DEF Sign, getSignatureFromTypedData, SignedTypeOK
<1>2. CASE Tick  BY <1>2 DEF Tick, SignedTypeOK
<1>3. CASE Deliver
  <2>1. PICK s \in signed, c \in Contracts, m \in Signable :
          permit(c, m, s) \/ delegateByTypeBySig(c, m, s) \/ delegateBySig(c, m, s)
    BY <1>3 DEF Deliver
  <2> QED  BY <2>1, TypeDelivery
<1>4. CASE Direct  BY <1>4, TypeDirect
<1>5. CASE UNCHANGED vars  BY <1>5 DEF vars, SignedTypeOK
<1> QED  BY <1>1, <1>2, <1>3, <1>4, <1>5 DEF Next

(***************************************************************************)
(* Type correctness, for any users, contracts and messages.                *)
(***************************************************************************)
THEOREM TypeCorrect == Spec => []SignedTypeOK
<1>1. Init => SignedTypeOK  BY TypeInit
<1>2. SignedTypeOK /\ [Next]_vars => SignedTypeOK'  BY TypeStep
<1> QED  BY <1>1, <1>2, PTL DEF Spec

-----------------------------------------------------------------------------
LEMMA OrderDelivery ==
    ASSUME SignedTypeOK, ExecutedInOrder, NEW s \in signed, NEW c \in Contracts, NEW m \in Signable,
           permit(c, m, s) \/ delegateByTypeBySig(c, m, s) \/ delegateBySig(c, m, s)
    PROVE  ExecutedInOrder'
<1>1. PICK a \in Accounts : \E d : Executes(c, a, d, s)  BY Delivery
<1>2. PICK d : Executes(c, a, d, s)  BY <1>1
<1>3. /\ _nonces' = [_nonces EXCEPT ![c][a] = @ + 1]
      /\ a \in Users => d \in Signable /\ log' = [log EXCEPT ![c][a] = Append(@, d)]
      /\ a \notin Users => log' = log
  BY <1>2, ExecutesType
<1>4. /\ signed' = signed /\ d.nonce = _nonces[c][a] /\ d.domain = c
      /\ a \in Users => getSignatureFromTypedData(a, d) \in signed
  BY <1>2 DEF Executes, getSignatureFromTypedData
<1> SUFFICES ASSUME NEW e \in Contracts, NEW u \in Users
             PROVE  /\ _nonces'[e][u] = Len(log'[e][u])
                    /\ \A i \in 1..Len(log'[e][u]) :
                         /\ log'[e][u][i].nonce = i - 1
                         /\ log'[e][u][i].domain = e
                         /\ getSignatureFromTypedData(u, log'[e][u][i]) \in signed
  BY <1>4 DEF ExecutedInOrder
<1>5. /\ _nonces[e][u] = Len(log[e][u])
      /\ \A i \in 1..Len(log[e][u]) :
            /\ log[e][u][i].nonce = i - 1
            /\ log[e][u][i].domain = e
            /\ getSignatureFromTypedData(u, log[e][u][i]) \in signed
  BY DEF ExecutedInOrder
<1>6. CASE e = c /\ u = a
  <2>1. log'[e][u] = Append(log[e][u], d) /\ _nonces'[e][u] = _nonces[e][u] + 1
    BY <1>3, <1>6 DEF SignedTypeOK
  <2>2. log[e][u] \in Seq(Signable) /\ d \in Signable  BY <1>3, <1>6 DEF SignedTypeOK
  <2>3. Len(log'[e][u]) = Len(log[e][u]) + 1
    BY <2>1, <2>2
  <2>4. \A i \in 1..Len(log[e][u]) : log'[e][u][i] = log[e][u][i]
    BY <2>1, <2>2
  <2>5. log'[e][u][Len(log[e][u]) + 1] = d
    BY <2>1, <2>2
  <2>6. d.nonce = Len(log[e][u]) /\ d.domain = e /\ getSignatureFromTypedData(u, d) \in signed
    BY <1>4, <1>5, <1>6
  <2>7. Len(log[e][u]) \in Nat  BY <2>2
  <2>8. ASSUME NEW i \in 1..Len(log'[e][u])
        PROVE  /\ log'[e][u][i].nonce = i - 1
               /\ log'[e][u][i].domain = e
               /\ getSignatureFromTypedData(u, log'[e][u][i]) \in signed
    <3>1. i \in 1..Len(log[e][u]) \/ i = Len(log[e][u]) + 1  BY <2>3, <2>7
    <3>2. CASE i \in 1..Len(log[e][u])  BY <3>2, <2>4, <1>5
    <3>3. CASE i = Len(log[e][u]) + 1
      <4>1. log'[e][u][i] = d /\ Len(log[e][u]) = i - 1  BY <3>3, <2>5, <2>7
      <4> QED  BY <4>1, <2>6
    <3> QED  BY <3>1, <3>2, <3>3
  <2> QED  BY <2>1, <2>3, <2>8, <1>5
<1>7. CASE ~(e = c /\ u = a)
  <2>1. log'[e][u] = log[e][u] /\ _nonces'[e][u] = _nonces[e][u]
    BY <1>3, <1>7, SMTT(20) DEF SignedTypeOK, Accounts
  <2> QED  BY <2>1, <1>5
<1> QED  BY <1>6, <1>7

LEMMA OrderStep ==
    ASSUME SignedTypeOK, ExecutedInOrder, [Next]_vars
    PROVE  ExecutedInOrder'
<1>1. CASE UNCHANGED <<_nonces, log>> /\ signed \subseteq signed'
  BY <1>1 DEF ExecutedInOrder
<1>2. ASSUME NEW u \in Users, NEW m \in Signable, Sign(u, m) PROVE ExecutedInOrder'
  BY <1>1, <1>2 DEF Sign
<1>3. CASE Tick  BY <1>1, <1>3 DEF Tick
<1>4. CASE Deliver
  <2>1. PICK s \in signed, c \in Contracts, m \in Signable :
          permit(c, m, s) \/ delegateByTypeBySig(c, m, s) \/ delegateBySig(c, m, s)
    BY <1>4 DEF Deliver
  <2> QED  BY <2>1, OrderDelivery
<1>5. CASE Direct  BY <1>1, <1>5, TypeDirect
<1>6. CASE UNCHANGED vars  BY <1>1, <1>6 DEF vars
<1> QED  BY <1>2, <1>3, <1>4, <1>5, <1>6 DEF Next

(***************************************************************************)
(* However messages are delivered, a contract executes a user's messages   *)
(* at most once each and in the order of their nonces.                     *)
(***************************************************************************)
THEOREM InOrder == Spec => []ExecutedInOrder
<1>1. Init => ExecutedInOrder
  BY DEF Init, ExecutedInOrder, Accounts
<1>2. SignedTypeOK /\ ExecutedInOrder /\ [Next]_vars => ExecutedInOrder'  BY OrderStep
<1> QED  BY <1>1, <1>2, TypeCorrect, PTL DEF Spec

-----------------------------------------------------------------------------
\* What happens to user u at contract e in one step.
Authorised(e, u) ==
    \/ Of(e, u)' = Of(e, u)
    \/ _nonces[e][u]' = _nonces[e][u] /\ Direct
    \/ \E s \in signed :
          /\ s.signer = u /\ s.data.domain = e
          /\ s.data.nonce = _nonces[e][u] /\ now <= s.data.expiry
          /\ Of(e, u)' = After(e, u, s.data)

(***************************************************************************)
(* A delivery changes the account it is executed for as the message says,  *)
(* and no other.                                                           *)
(***************************************************************************)
LEMMA DeliveryEffect ==
    ASSUME SignedTypeOK, NEW s \in signed, NEW c \in Contracts, NEW a \in Accounts, NEW d,
           Executes(c, a, d, s), Effects(c, a, d),
           NEW e \in Contracts, NEW u \in Users
    PROVE  /\ ~(e = c /\ u = a) => Of(e, u)' = Of(e, u)
           /\ e = c /\ u = a => Of(e, u)' = After(e, u, d)
<1>1. _nonces' = [_nonces EXCEPT ![c][a] = @ + 1]  BY ExecutesType
<1>2. u \in Accounts  BY DEF Accounts
<1>3. CASE ~(e = c /\ u = a)
  <2>1. _nonces'[e][u] = _nonces[e][u]  BY <1>1, <1>2, <1>3 DEF SignedTypeOK
  <2>2. allowance'[e][u] = allowance[e][u]
    BY <1>3 DEF Effects, SignedTypeOK
  <2>3. \A t \in DelegationTypes : delegates'[e][t][u] = delegates[e][t][u]
    BY <1>2, <1>3, SMTT(20) DEF Effects, Delegated, SignedTypeOK
  <2> QED  BY <1>3, <2>1, <2>2, <2>3 DEF Of
<1>4. CASE e = c /\ u = a
  <2>1. d \in Signable  BY <1>4, ExecutesType
  <2>2. _nonces'[e][u] = _nonces[e][u] + 1  BY <1>1, <1>2, <1>4 DEF SignedTypeOK
  <2>3. CASE d.primaryType = "Permit"
    <3>1. d.types = {}  BY <2>1, <2>3, SignedAssumption
    <3>2. allowance' = [allowance EXCEPT ![c][a][d.to] = d.value] /\ delegates' = delegates
      BY <2>3 DEF Effects
    <3>3. allowance'[e][u] = [allowance[e][u] EXCEPT ![d.to] = d.value]
      BY <3>2, <1>4 DEF SignedTypeOK
    <3>4. Of(e, u)' = After(e, u, d)
      BY <3>1, <3>2, <3>3, <2>2, <2>3 DEF Of, After
    <3> QED  BY <3>4, <1>4
  <2>4. CASE d.primaryType # "Permit"
    <3>1. Delegated(c, a, d.types, d.to) /\ allowance' = allowance
      BY <2>4 DEF Effects
    <3>2. \A t \in DelegationTypes :
            delegates'[e][t][u] = IF t \in d.types THEN d.to ELSE delegates[e][t][u]
      BY <3>1, <1>2, <1>4 DEF Delegated, SignedTypeOK
    <3>3. Of(e, u)' = After(e, u, d)
      BY <3>1, <3>2, <2>2, <2>4 DEF Of, After
    <3> QED  BY <3>3, <1>4
  <2> QED  BY <2>3, <2>4
<1> QED  BY <1>3, <1>4

LEMMA AuthorisedDelivery ==
    ASSUME SignedTypeOK, NEW s \in signed, NEW c \in Contracts, NEW m \in Signable,
           permit(c, m, s) \/ delegateByTypeBySig(c, m, s) \/ delegateBySig(c, m, s),
           NEW e \in Contracts, NEW u \in Users
    PROVE  Authorised(e, u)
<1>1. PICK a \in Accounts : \E d : Executes(c, a, d, s) /\ Effects(c, a, d)  BY Delivery
<1>2. PICK d : Executes(c, a, d, s) /\ Effects(c, a, d)  BY <1>1
<1>3. CASE ~(e = c /\ u = a)
  BY <1>2, <1>3, DeliveryEffect DEF Authorised
<1>4. CASE e = c /\ u = a
  <2>1. s = [signer |-> a, data |-> d] /\ d.domain = e /\ d.nonce = _nonces[e][u] /\ now <= d.expiry
    BY <1>2, <1>4 DEF Executes
  <2>2. Of(e, u)' = After(e, u, d)  BY <1>2, <1>4, DeliveryEffect
  <2> QED  BY <2>1, <2>2, <1>4 DEF Authorised
<1> QED  BY <1>3, <1>4

LEMMA AuthorisedStep ==
    ASSUME SignedTypeOK, Next, NEW e \in Contracts, NEW u \in Users
    PROVE  Authorised(e, u)
<1>1. CASE UNCHANGED <<_nonces, allowance, delegates>>  BY <1>1 DEF Authorised, Of
<1>2. ASSUME NEW v \in Users, NEW m \in Signable, Sign(v, m) PROVE Authorised(e, u)
  BY <1>1, <1>2 DEF Sign
<1>3. CASE Tick  BY <1>1, <1>3 DEF Tick
<1>4. CASE Deliver
  <2>1. PICK s \in signed, c \in Contracts, m \in Signable :
          permit(c, m, s) \/ delegateByTypeBySig(c, m, s) \/ delegateBySig(c, m, s)
    BY <1>4 DEF Deliver
  <2> QED  BY <2>1, AuthorisedDelivery
<1>5. CASE Direct  BY <1>5, TypeDirect DEF Authorised
<1> QED  BY <1>2, <1>3, <1>4, <1>5 DEF Next

(***************************************************************************)
(* A user's nonce, allowances and delegations change by his own calls and  *)
(* by what he signed for that contract, and by nothing else.               *)
(***************************************************************************)
THEOREM Authority == Spec => OnlyAuthorised
<1>1. SignedTypeOK /\ Next => \A c \in Contracts, u \in Users : Authorised(c, u)
  BY AuthorisedStep
<1>2. SignedTypeOK /\ [Next]_vars => [\A c \in Contracts, u \in Users : Authorised(c, u)]_vars
  BY <1>1
<1>3. Spec => [][\A c \in Contracts, u \in Users : Authorised(c, u)]_vars
  BY <1>2, TypeCorrect, PTL DEF Spec
<1> QED  BY <1>3 DEF OnlyAuthorised, Authorised

-----------------------------------------------------------------------------
\* The tables of u at e, as the refinement mapping shows them.
LEMMA HeldIs ==
    ASSUME NEW e \in Contracts, NEW u \in Users
    PROVE  /\ rightsHeld[e][u] = [allowance |-> Of(e, u)[2], delegates |-> Of(e, u)[3]]
           /\ rightsHeld'[e][u] = [allowance |-> Of(e, u)'[2], delegates |-> Of(e, u)'[3]]
           /\ Of(e, u)' = Of(e, u) => rightsHeld'[e][u] = rightsHeld[e][u]
BY DEF rightsHeld, Of

\* A table of tables changed in one place.
LEMMA OnePlace ==
    ASSUME NEW f, NEW g, NEW c \in Contracts, NEW a \in Users, NEW r,
           f = [e \in Contracts |-> [u \in Users |-> f[e][u]]],
           g = [e \in Contracts |-> [u \in Users |-> g[e][u]]],
           \A e \in Contracts, u \in Users : g[e][u] = IF e = c /\ u = a THEN r ELSE f[e][u]
    PROVE  g = [f EXCEPT ![c][a] = r]
<1>1. [f EXCEPT ![c][a] = r]
        = [e \in Contracts |-> [u \in Users |-> IF e = c /\ u = a THEN r ELSE f[e][u]]]
  <2> DEFINE row == [f[c] EXCEPT ![a] = r]
  <2>1. f[c] = [u \in Users |-> f[c][u]]
    OBVIOUS
  <2>2. row = [u \in Users |-> IF u = a THEN r ELSE f[c][u]]
    BY <2>1
  <2>3. [f EXCEPT ![c] = row] = [e \in Contracts |-> IF e = c THEN row ELSE f[e]]
    OBVIOUS
  <2>4. \A e \in Contracts : f[e] = [u \in Users |-> f[e][u]]
    OBVIOUS
  <2> HIDE DEF row
  <2>5. ASSUME NEW e \in Contracts
        PROVE  (IF e = c THEN row ELSE f[e]) = [u \in Users |-> IF e = c /\ u = a THEN r ELSE f[e][u]]
    BY <2>2, <2>4
  <2>6. [f EXCEPT ![c] = row]
          = [e \in Contracts |-> [u \in Users |-> IF e = c /\ u = a THEN r ELSE f[e][u]]]
    BY <2>3, <2>5
  <2> QED BY <2>6 DEF row
<1>2. g = [e \in Contracts |-> [u \in Users |-> IF e = c /\ u = a THEN r ELSE f[e][u]]]
  OBVIOUS
<1> QED BY <1>1, <1>2

LEMMA HeldIsTable ==
    /\ rightsHeld = [e \in Contracts |-> [u \in Users |-> rightsHeld[e][u]]]
    /\ rightsHeld' = [e \in Contracts |-> [u \in Users |-> rightsHeld'[e][u]]]
BY DEF rightsHeld

LEMMA OrdersInit ==
    ASSUME Init
    PROVE  SO!Init
<1>1. rightsHeld = [c \in Contracts |-> [u \in Users |-> SO!NoRights]]
  BY DEF Init, rightsHeld, SO!NoRights, Accounts
<1> QED  BY <1>1 DEF Init, SO!Init

\* A call of his own changes the caller at one contract.
LEMMA OrdersDirect ==
    ASSUME SignedTypeOK, SignedTypeOK', Direct
    PROVE  \E c \in Contracts, u \in Users : SO!OwnCall(c, u)
<1>1. PICK c \in Contracts, u \in Users, other \in Others :
      \/ \E v \in Values : approve(c, u, other, v)
      \/ \E t \in DelegationTypes : delegateByType(c, u, t, other)
      \/ delegate(c, u, other)
  BY DEF Direct
<1>2. UNCHANGED <<now, signed, _nonces, log>>  BY TypeDirect
<1>3. ASSUME NEW e \in Contracts, NEW v \in Users, ~(e = c /\ v = u)
      PROVE  rightsHeld'[e][v] = rightsHeld[e][v]
  <2>1. v \in Accounts  BY DEF Accounts
  <2>2. CASE \E x \in Values : approve(c, u, other, x)
    <3>1. delegates' = delegates /\ allowance'[e][v] = allowance[e][v]
      BY <2>2, <1>3 DEF approve, SignedTypeOK
    <3> QED  BY <3>1 DEF rightsHeld
  <2>3. ASSUME NEW types, Delegated(c, u, types, other), allowance' = allowance
        PROVE  rightsHeld'[e][v] = rightsHeld[e][v]
    <3>1. \A t \in DelegationTypes : delegates'[e][t][v] = delegates[e][t][v]
      BY <2>1, <2>3, <1>3, SMTT(20) DEF Delegated, SignedTypeOK
    <3> QED  BY <2>3, <3>1 DEF rightsHeld
  <2> QED  BY <1>1, <2>2, <2>3 DEF delegateByType, delegate
<1>4. rightsHeld' = [rightsHeld EXCEPT ![c][u] = rightsHeld'[c][u]]
  BY <1>3, HeldIsTable, OnePlace
<1>5. rightsHeld'[c][u] \in SO!Rights
  <2>1. u \in Accounts  BY DEF Accounts
  <2>2. allowance'[c][u] \in [Others -> Values]  BY DEF SignedTypeOK
  <2>3. [t \in DelegationTypes |-> delegates'[c][t][u]] \in [DelegationTypes -> Others \cup {None}]
    BY <2>1 DEF SignedTypeOK
  <2> QED  BY <2>2, <2>3 DEF rightsHeld, SO!Rights
<1> QED  BY <1>2, <1>4, <1>5 DEF SO!OwnCall

\* A delivery executes the order it carries, or is nobody's.
LEMMA OrdersDelivery ==
    ASSUME SignedTypeOK, ExecutedInOrder, NEW s \in signed, NEW c \in Contracts, NEW m \in Signable,
           permit(c, m, s) \/ delegateByTypeBySig(c, m, s) \/ delegateBySig(c, m, s)
    PROVE  \/ \E u \in Users : SO!Execute(c, u)
           \/ UNCHANGED <<now, signed, log, rightsHeld>>
<1>1. PICK a \in Accounts : \E d : Executes(c, a, d, s) /\ Effects(c, a, d)  BY Delivery
<1>2. PICK d : Executes(c, a, d, s) /\ Effects(c, a, d)  BY <1>1
<1>3. UNCHANGED <<now, signed>> /\ d.nonce = _nonces[c][a] /\ d.domain = c /\ now <= d.expiry
  BY <1>2 DEF Executes
<1>4. \A e \in Contracts, u \in Users : ~(e = c /\ u = a) => rightsHeld'[e][u] = rightsHeld[e][u]
  <2> SUFFICES ASSUME NEW e \in Contracts, NEW u \in Users, ~(e = c /\ u = a)
               PROVE  rightsHeld'[e][u] = rightsHeld[e][u]
    OBVIOUS
  <2>1. Of(e, u)' = Of(e, u)  BY <1>2, DeliveryEffect
  <2> QED  BY <2>1, HeldIs
<1>5. CASE a \in Users
  <2>1. d \in Signable /\ log' = [log EXCEPT ![c][a] = Append(@, d)]
    BY <1>2, <1>5, ExecutesType
  <2>2. [signer |-> a, data |-> d] \in signed  BY <1>2, <1>5 DEF Executes
  <2>3. d.nonce = Len(log[c][a])  BY <1>3, <1>5 DEF ExecutedInOrder
  <2>4. rightsHeld'[c][a] = SO!Ordered(rightsHeld[c][a], d)
    <3>1. Of(c, a)' = After(c, a, d)  BY <1>2, <1>5, DeliveryEffect
    <3>2. rightsHeld'[c][a] = [allowance |-> After(c, a, d)[2], delegates |-> After(c, a, d)[3]]
      BY <3>1, <1>5, HeldIs
    <3>3. After(c, a, d)[2] = IF d.primaryType = "Permit" THEN [allowance[c][a] EXCEPT ![d.to] = d.value]
                                                          ELSE allowance[c][a]
      BY DEF After
    <3>4. After(c, a, d)[3] = [t \in DelegationTypes |-> IF t \in d.types THEN d.to ELSE delegates[c][t][a]]
      BY DEF After
    <3>5. /\ rightsHeld[c][a].allowance = allowance[c][a]
          /\ \A t \in DelegationTypes : rightsHeld[c][a].delegates[t] = delegates[c][t][a]
      BY <1>5 DEF rightsHeld
    <3> QED  BY <3>2, <3>3, <3>4, <3>5 DEF SO!Ordered
  <2>5. rightsHeld' = [rightsHeld EXCEPT ![c][a] = SO!Ordered(rightsHeld[c][a], d)]
    BY <1>4, <1>5, <2>4, HeldIsTable, OnePlace
  <2> QED  BY <1>3, <1>5, <2>1, <2>2, <2>3, <2>5 DEF SO!Execute
<1>6. CASE a \notin Users
  <2>1. log' = log  BY <1>2, <1>6, ExecutesType
  <2>2. \A e \in Contracts, u \in Users : rightsHeld'[e][u] = rightsHeld[e][u]  BY <1>4, <1>6
  <2>3. rightsHeld' = rightsHeld  BY <2>2, HeldIsTable
  <2> QED  BY <1>3, <2>1, <2>3
<1> QED  BY <1>5, <1>6

LEMMA OrdersStep ==
    ASSUME SignedTypeOK, SignedTypeOK', ExecutedInOrder, [Next]_vars
    PROVE  [SO!Next]_<<now, signed, log, rightsHeld>>
<1>1. ASSUME UNCHANGED <<allowance, delegates>> PROVE rightsHeld' = rightsHeld
  BY <1>1 DEF rightsHeld
<1>2. ASSUME NEW u \in Users, NEW m \in Signable, Sign(u, m)
      PROVE  SO!Next
  <2>1. rightsHeld' = rightsHeld  BY <1>1, <1>2 DEF Sign
  <2> QED  BY <1>2, <2>1 DEF Sign, getSignatureFromTypedData, SO!Next, SO!Sign
<1>3. CASE Tick
  <2>1. rightsHeld' = rightsHeld  BY <1>1, <1>3 DEF Tick
  <2> QED  BY <1>3, <2>1 DEF Tick, SO!Next, SO!Tick
<1>4. CASE Deliver
  <2>1. PICK s \in signed, c \in Contracts, m \in Signable :
          permit(c, m, s) \/ delegateByTypeBySig(c, m, s) \/ delegateBySig(c, m, s)
    BY <1>4 DEF Deliver
  <2> QED  BY <2>1, OrdersDelivery DEF SO!Next
<1>5. CASE Direct  BY <1>5, OrdersDirect DEF SO!Next
<1>6. CASE UNCHANGED vars
  <2>1. rightsHeld' = rightsHeld  BY <1>1, <1>6 DEF vars
  <2> QED  BY <1>6, <2>1 DEF vars
<1> QED  BY <1>2, <1>3, <1>4, <1>5, <1>6 DEF Next

(***************************************************************************)
(* The contracts implement the specification of signed orders: whatever is *)
(* delivered, a user's allowances and delegations are what his own calls   *)
(* and his executed orders made them, each order executed in its turn,     *)
(* before it expires and with exactly the effect it was signed for.        *)
(***************************************************************************)
THEOREM Refinement == Spec => ImplementsSignedOrders
<1>1. Init => SO!Init  BY OrdersInit
<1>2. SignedTypeOK /\ SignedTypeOK' /\ ExecutedInOrder /\ [Next]_vars
        => [SO!Next]_<<now, signed, log, rightsHeld>>
  BY OrdersStep
<1>3. [SO!Next]_<<now, signed, log, rightsHeld>> => [SO!Next]_(SO!vars)
  BY DEF SO!vars
<1> QED  BY <1>1, <1>2, <1>3, TypeCorrect, InOrder, PTL DEF Spec, ImplementsSignedOrders, SO!Spec

-----------------------------------------------------------------------------
(***************************************************************************)
(* No message of a user is executed twice, neither by the contract it was  *)
(* signed for nor, as its domain names one contract, by another; and what  *)
(* was executed has no valid nonce any more.                               *)
(***************************************************************************)
NoReplay ==
    \A u \in Users : \A c, e \in Contracts :
        \A i \in 1..Len(log[c][u]) :
            /\ log[c][u][i].nonce < _nonces[c][u]
            /\ \A j \in 1..Len(log[e][u]) : log[c][u][i] = log[e][u][j] => c = e /\ i = j

\* The domain tells the contract, the nonce the place in its log.
LEMMA OrderForbidsReplay == SignedTypeOK /\ ExecutedInOrder => NoReplay
<1> SUFFICES ASSUME SignedTypeOK, ExecutedInOrder, NEW u \in Users,
                    NEW c \in Contracts, NEW e \in Contracts, NEW i \in 1..Len(log[c][u])
             PROVE  /\ log[c][u][i].nonce < _nonces[c][u]
                    /\ \A j \in 1..Len(log[e][u]) : log[c][u][i] = log[e][u][j] => c = e /\ i = j
  BY DEF NoReplay
<1>1. \A f \in Contracts : \A j \in 1..Len(log[f][u]) :
          log[f][u][j].nonce = j - 1 /\ log[f][u][j].domain = f
  BY DEF ExecutedInOrder
<1>2. _nonces[c][u] = Len(log[c][u]) /\ Len(log[c][u]) \in Nat
  BY DEF ExecutedInOrder, SignedTypeOK, Accounts
<1>3. log[c][u][i].nonce < _nonces[c][u]
  BY <1>1, <1>2
<1>4. ASSUME NEW j \in 1..Len(log[e][u]), log[c][u][i] = log[e][u][j] PROVE c = e /\ i = j
  <2>1. log[c][u][i].nonce = i - 1 /\ log[c][u][i].domain = c  BY <1>1
  <2>2. log[e][u][j].nonce = j - 1 /\ log[e][u][j].domain = e  BY <1>1
  <2>3. i - 1 = j - 1 /\ c = e  BY <1>4, <2>1, <2>2, Zenon
  <2> QED  BY <2>3
<1> QED  BY <1>3, <1>4

(***************************************************************************)
(* However often and wherever a signed message is delivered, it is         *)
(* executed at most once: permits and delegations cannot be replayed, not  *)
(* after other messages and not at another contract.                       *)
(***************************************************************************)
THEOREM MessagesRunOnce == Spec => []NoReplay
BY TypeCorrect, InOrder, OrderForbidsReplay, PTL

=============================================================================
