CONSTANTS
    u1 = u1
    u2 = u2
    e1 = e1
    e2 = e2
    w1 = w1
    w2 = w2
    None = None
    Users = {u1}
    Emails = {e1, e2}
    Workers = {w1, w2}
    MaxCodes = 1
    MaxAttempts = 1
    Ttl = 1
    MaxTime = 0
    MaxEdits = 1
SPECIFICATION Spec
SYMMETRY Symmetry
INVARIANT BlockLasts
