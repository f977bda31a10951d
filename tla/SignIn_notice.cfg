CONSTANTS
    None = None
    Sessions = {s1, s2}
    Calls = {c1}
    QR_ROTATE_SECS = 2
    SESSION_EXPIRE = 5
    MaxFailures = 0
SPECIFICATION PromptSpec
PROPERTY ApprovalNoticed
CHECK_DEADLOCK FALSE
