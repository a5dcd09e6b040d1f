SPECIFICATION Spec
CONSTANTS
    addr = addr
    Users = {alice}
    Conns = {c1, c2, c3}
    Addrs = {addr}
    ConnAddr <- MCConnAddr
    MaxConnsPerAddr = 2
    NoUser = NoUser
    Statuses = {"Online", "Away"}
    Reauth = FALSE
    FriendReconnects = TRUE
SYMMETRY ConnSymmetry
INVARIANTS TypeOK RegistryComplete RegistryLive CountsOpenHandlers StatusMirrored
