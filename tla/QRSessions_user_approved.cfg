\* Two users scan the same code, and one of them approves.
SPECIFICATION Spec
CONSTANTS
    u1 = u1
    u2 = u2
    d1 = d1
    d2 = d2
    d3 = d3
    c1 = c1
    callback = callback
    other = other
    SessionIds = {s1}
    Codes = {k1, k2}
    Requests = {r1, r2}
    None = None
    SESSION_TTL = 0
    CODE_TTL = 0
    MAX_AGE = 1
    MaxTime = 1
    Users <- MCUsers
    Devices <- MCDevices
    Owner <- MCOwner
    Clients = {}
    Uris = {}
    WebUris = {}
    RedirectUris <- NoRedirectUris
SYMMETRY Symmetry
INVARIANTS
    TokenUserApproved
CHECK_DEADLOCK FALSE
