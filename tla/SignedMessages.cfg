\* One user whose messages are delivered to two contracts.
CONSTANTS
    u1 = u1  o1 = o1  c1 = c1  c2 = c2
    Users = {u1}
    Others = {o1}
    Contracts = {c1, c2}
    Stranger = stranger
    Values = {0, 1}
    Times <- MCTimes
    Signable <- MCSignable
SPECIFICATION Spec
INVARIANTS
    SignedTypeOK
    ExecutedInOrder
PROPERTIES
    OnlyAuthorised
    ImplementsSignedOrders
