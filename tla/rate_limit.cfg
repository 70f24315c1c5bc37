CONSTANTS
    w1 = w1
    w2 = w2
    client = client
    mail = mail
    None = None
    Workers = {w1, w2}
    Peers = {client}
    TrustedProxies = {client}
    Emails = {mail}
    Users = {}
    Scopes = {"login"}
    Limit <- Limits
    Window <- Windows
    Default = 2
    MaxTime = 5
    MaxCalls = 3
    Evicted = {"login"}
SPECIFICATION Spec
SYMMETRY Symmetry
INVARIANT TypeOK
INVARIANT LoneCallersAreLimited
PROPERTY RefusalNeedsABurst
