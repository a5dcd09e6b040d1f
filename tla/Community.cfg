SPECIFICATION MCSpec
CONSTANTS
    alice = alice
    bob = bob
    c1 = c1
    c2 = c2
    c3 = c3
    Users = {alice, bob}
    Conns = {c1, c2, c3}
    Owner <- MCOwner
    NoUser = NoUser
    Founder = alice
    Author = bob
    Channels = {k1, k2}
    MaxUpdates = 3
    Admins = {bob}
    Cap = 1
    MaxOps = 5
    Reqs = {p1, p2}
    TTL = 6
    RefreshBefore = 3
    RetryAfter = 1
    Timeout = 2
    MaxTime = 12
    Accounts = {"root", "ann", "ben"}
    EnvAdmins = {"root"}
    NoAccount = "nobody"
    Wanted = {2, 3, 4, 9}
    MaxBoots = 1
SYMMETRY Alike
INVARIANTS
       CfTurnSafe StaffSafe
PROPERTY PeersKeepTheirRole
