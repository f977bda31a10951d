CONSTANTS
    None = None
    Sessions = {s1, s2}
    Calls = {c1}
    QR_ROTATE_SECS = 2
    SESSION_EXPIRE = 5
    MaxFailures = 1
SPECIFICATION PromptSpec
INVARIANTS
    TypeOK
    ShownCodeIsFollowed
    ClosedIsQuiet
    ExchangeAfterApproval
    CodeIsTheClients
    WarnedIsOver
PROPERTY NoDeadEnd
CHECK_DEADLOCK FALSE
