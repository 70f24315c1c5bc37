CONSTANTS
    w1 = w1
    client = client
    mail = mail
    None = None
    Workers = {w1}
    Peers = {client}
    TrustedProxies = {client}
    Emails = {mail}
    Users = {}
    Scopes = {"resend-ip", "resend-email", "resend-cooldown"}
    Limit <- Limits
    Window <- Windows
    Default = 3
    MaxTime = 5
    MaxCalls = 3
    Evicted = {}
SPECIFICATION Spec
PROPERTY WindowForgets
