SPECIFICATION Spec
CONSTANTS
    addr = addr
    Users = {alice}
    Conns = {c1, c2}
    Addrs = {addr}
    ConnAddr <- MCConnAddr
    MaxConnsPerAddr = 2
    NoUser = NoUser
    Statuses = {"Online", "Away"}
    Reauth = TRUE
    FriendReconnects = FALSE
INVARIANT RegistryLive
