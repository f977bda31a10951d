CONSTANTS
    Second = 2
    QR_TTL = 30
    max_age = 35
    SESSION_EXPIRE = 90
    SESSION_TTL = 300
    RoundTrip = 2
    Lateness = 2
    ScanDelay = 3
    None = None
SPECIFICATION Spec
INVARIANTS
    TypeOK
    ReadIsAccepted
    GoneIsRefused
CHECK_DEADLOCK FALSE
