SPECIFICATION Spec
CONSTANTS
    alice = alice
    bob = bob
    a1 = a1
    b1 = b1
    b2 = b2
    Users = {alice, bob}
    Conns = {a1, b1, b2}
    Owner <- MCOwner
    Friends <- MCFriends
    NoUser = NoUser
    NoConn = NoConn
    DBMayFail = TRUE
    MaxCalls = 2
CHECK_DEADLOCK FALSE
SYMMETRY DeviceSymmetry
INVARIANTS TypeOK PendingRowsOpen 
PROPERTY OutcomeIsFinal
