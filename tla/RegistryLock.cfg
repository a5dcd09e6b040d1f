SPECIFICATION FairSpec
CONSTANTS
    Lookups = {l1, l2}
    Updates = {w1, w2}
    Convos = {g1, g2}
    Members = 2
    Nobody = Nobody
CHECK_DEADLOCK FALSE
INVARIANT LockSafe
 
