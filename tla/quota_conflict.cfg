CONSTANTS
    u1 = u1
    u2 = u2
    a1 = a1
    a2 = a2
    act1 = act1
    act2 = act2
    r1 = r1
    r2 = r2
    w1 = w1
    w2 = w2
    None = None
    Users = {u1, u2}
    Apps = {a1, a2}
    Actions = {act1, act2}
    Requests = {r1}
    Workers = {w1, w2}
    Limits = {1}
    AppSettings <- SwitchedApp
    ErrorCodes = {"before_processing", "provider_error"}
    Refundable = {"before_processing"}
    MaxDay = 0
    Observed = {"authorized"}
SPECIFICATION Spec
SYMMETRY Symmetry
INVARIANT AnswersAreHonest
