CONSTANTS
    None = None
    b1 = b1
    b2 = b2
    t1 = t1
    t2 = t2
    e1 = e1
    e2 = e2
    Browsers <- MCTwoBrowsers
    Tabs <- MCTabs
    Emails <- MCEmails
    BrowserOf <- MCOwnBrowser
    ReusesIds = FALSE
    MaxDevices = 2
SPECIFICATION Spec
SYMMETRY EmailSymmetry
INVARIANT PagesEcho
CHECK_DEADLOCK FALSE
