\* Any interleaving: one session, two requests in progress, two approvals.
SPECIFICATION Spec
CONSTANTS
    u1 = u1
    u2 = u2
    d1 = d1
    d2 = d2
    d3 = d3
    c1 = c1
    callback = callback
    other = other
    SessionIds = {s1}
    Codes = {k1, k2}
    Requests = {r1, r2}
    None = None
    SESSION_TTL = 1
    CODE_TTL = 1
    MAX_AGE = 1
    MaxTime = 2
    Users <- MCUsers
    Devices <- MCThreeDevices
    Owner <- MCTwoOfOne
    Clients <- MCClients
    Uris <- MCUris
    WebUris <- MCWebUris
    RedirectUris <- MCRedirectUris
SYMMETRY DeviceSymmetry
INVARIANTS
    TypeOK
    CodeColumnsAgree
    GrantNeedsApproval
    ClientGrantsBound
PROPERTIES
    NoStageSkipped
    RevokedDeviceInert
CHECK_DEADLOCK FALSE
