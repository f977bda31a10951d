CONSTANTS
    None = None
    b1 = b1
    b2 = b2
    t1 = t1
    t2 = t2
    e1 = e1
    e2 = e2
    Browsers <- MCBrowsers
    Tabs <- MCTabs
    Emails <- MCEmails
    BrowserOf <- MCBrowserOf
    ReusesIds = FALSE
    MaxDevices = 2
SPECIFICATION Spec
SYMMETRY Symmetry
INVARIANTS
    TypeOK
    UniqueEmails
    EchoIsAccepted
PROPERTIES
    OnlyOwnerRevokes
    EnrolledByTrusted
    BookSpec
CHECK_DEADLOCK FALSE
