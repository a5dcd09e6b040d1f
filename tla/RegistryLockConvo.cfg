SPECIFICATION FairSpec
CONSTANTS
    Lookups = {l1}
    Updates = {w1}
    Convos = {g1}
    Members = 2
    Nobody = Nobody
CHECK_DEADLOCK FALSE
PROPERTY HandlersFinish
