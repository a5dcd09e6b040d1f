SPECIFICATION MCSpec
CONSTANTS
    Reqs = {p1, p2}
    Tokens = {t1, t2}
    Devices = {d1}
    Resets = {r1}
    MaxAttempts = 1
    MaxEpoch = 2
    NoToken = NoToken
    NoReset = NoReset
    Max <- MCMax
    Window <- MCWindow
    BlockAt = 2
    MaxCodes = 2
    Guard = 3
    Validity = 5
    MaxSecrets = 2
    MaxSets = 2
    MaxNow = 5
    QRTokens = {q1}
    Approvers = {"u1", "u2"}
    Nobody = "nobody"
    Donors = {"ann", "ben"}
    MailHolder = "ben"
    NoName = ""
    Leavers = {"ben"}
    MaxForms = 2
    MaxDeliveries = 2
    MaxAsides = 2
SYMMETRY Alike
INVARIANTS
       QRLoginSafe 
PROPERTIES SessionsGoForward LockHolds
