\* Requests on one session never overlap; two sessions do.
SPECIFICATION SerialSpec
CONSTANTS
    u1 = u1
    u2 = u2
    d1 = d1
    d2 = d2
    d3 = d3
    c1 = c1
    callback = callback
    other = other
    SessionIds = {s1, s2}
    Codes = {k1, k2}
    Requests = {r1, r2}
    None = None
    SESSION_TTL = 0
    CODE_TTL = 0
    MAX_AGE = 1
    MaxTime = 1
    Users <- MCUsers
    Devices <- MCDevices
    Owner <- MCOwner
    Clients <- MCClients
    Uris <- MCUris
    WebUris <- MCWebUris
    RedirectUris <- MCRedirectUris
SYMMETRY Symmetry
INVARIANTS
    SingleUse
    CodeSentOnce
    TokenUserApproved
    DeniedIsFinal
PROPERTIES
    AttemptSpec
CHECK_DEADLOCK FALSE
