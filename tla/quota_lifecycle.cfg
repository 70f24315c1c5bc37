CONSTANTS
    u1 = u1
    u2 = u2
    a1 = a1
    act1 = act1
    r1 = r1
    w1 = w1
    w2 = w2
    None = None
    Users = {u1}
    Apps = {a1}
    Actions = {act1}
    Requests = {r1}
    Workers = {w1, w2}
    Limits = {1}
    AppSettings <- ConsumingApp
    ErrorCodes = {"before_processing"}
    Refundable = {"before_processing"}
    MaxDay = 0
    Observed = {"validation_unavailable"}
SPECIFICATION Spec
SYMMETRY Symmetry
INVARIANT RefusedWorkIsRejected
