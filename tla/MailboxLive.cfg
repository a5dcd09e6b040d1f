SPECIFICATION FairSpec
CONSTANTS
    m1 = m1
    m2 = m2
    c1 = c1
    c2 = c2
    Msgs = {m1, m2}
    GroupMsgs = {m1, m2}
    Conns = {c1, c2}
    MaxSends <- MCMaxSends
    MaxRows = 2
    MaxCopies = 1
PROPERTY ReplayedOnAuth
CHECK_DEADLOCK FALSE
