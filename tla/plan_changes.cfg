CONSTANTS
    u1 = u1
    u2 = u2
    w1 = w1
    w2 = w2
    p1 = p1
    p2 = p2
    p3 = p3
    p4 = p4
    None = None
    Deleted = Deleted
    Users = {u1}
    Workers = {w1, w2}
    Plans = {p1, p2, p3, p4}
    Codes = {"FREE", "PREMIUM", "TEAM"}
    FREE = "FREE"
    PREMIUM = "PREMIUM"
    Limits = {5}
    SeedLimit <- FlatSeeds
    MaxLog = 3
SPECIFICATION Spec
SYMMETRY Symmetry
INVARIANT TypeOK
INVARIANT ChangesChain
INVARIANT LastChangeIsCurrentPlan
PROPERTY NoSilentChange
PROPERTY ImplementsHistory
