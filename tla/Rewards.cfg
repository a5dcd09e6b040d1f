SPECIFICATION Spec
CONSTANTS
    cheers = cheers
    diamond = diamond
    comet = comet
    crown = crown
    home = home
    NoIP = NoIP
    NoItem = NoItem
    NoCrate = NoCrate
    Referrals = {r1, r2, r3}
    IPs = {home, NoIP}
    SignupIP <- MCSignupIP
    Items = {cheers, comet, crown, diamond}
    Rank <- MCRank
    ShardsFor <- MCShardsFor
    CraftCost <- MCCraftCost
    PityRareAfter = 1
    PityEpicAfter = 2
    MaxCratesPerSignupIP = 1
    MaxCratesPerDay = 1
    Procs = {p1, p2}
    MaxErasures = 1
SYMMETRY RewardsSymmetry
INVARIANTS TypeOK ToldIsKept PityKept DuplicatesPaid CapsNearlyKept DebtBounded
