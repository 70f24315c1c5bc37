CONSTANTS
    u1 = u1
    u2 = u2
    w1 = w1
    w2 = w2
    p1 = p1
    p2 = p2
    p3 = p3
    p4 = p4
    None = None
    Deleted = Deleted
    Users = {u1, u2}
    Workers = {w1, w2}
    Plans = {p1, p2}
    Codes = {"FREE", "PREMIUM"}
    FREE = "FREE"
    PREMIUM = "PREMIUM"
    Limits = {5, 20}
    SeedLimit <- Seeds
    MaxLog = 2
SPECIFICATION Spec
INVARIANT NewUsersAreLogged
