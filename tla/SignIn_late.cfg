CONSTANTS
    None = None
    Sessions = {s1, s2}
    Calls = {c1, c2}
    QR_ROTATE_SECS = 1
    SESSION_EXPIRE = 3
    MaxFailures = 1
SPECIFICATION Spec
INVARIANT HomeIsApproved
SYMMETRY Symmetry
CHECK_DEADLOCK FALSE
