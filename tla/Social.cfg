SPECIFICATION MCSpec
CONSTANTS
    alice = alice
    bob = bob
    c1 = c1
    c2 = c2
    c3 = c3
    Users = {alice, bob}
    Conns = {c1, c2, c3}
    Owner <- MCOwner
    NoUser = NoUser
    MayName <- MCMayName
    MayPart <- MCMayPart
    Names = {"n1", "n2"}
    FirstName = "n1"
    MaxChanges = 3
    Writer = bob
    Reader = alice
    MaxDmChanges = 3
SYMMETRY BobsDevices
INVARIANTS
    FriendsSafe  
PROPERTIES FriendshipKept
