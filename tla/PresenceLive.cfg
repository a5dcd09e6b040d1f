SPECIFICATION FairSpec
CONSTANTS
    addr = addr
    Users = {alice}
    Conns = {c1, c2}
    Addrs = {addr}
    ConnAddr <- MCConnAddr
    MaxConnsPerAddr = 2
    NoUser = NoUser
    Statuses = {"Online", "Invisible"}
    Reauth = FALSE
    FriendReconnects = FALSE
PROPERTY GoneIsTold
