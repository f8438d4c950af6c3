SPECIFICATION WebSpec
CONSTANTS
    c1 = c1
    c2 = c2
    c3 = c3
    v1 = v1
    t1 = t1
    t2 = t2
    Null = Null
    Emails = {"e1", "e2"}
    Passwords = {"p1"}
    Calls = {c1, c2, c3}
    Tabs = {t1, t2}
    Veterans = {v1}
    VeteranEmail <- MCVeteranEmail
    VeteranPassword <- MCVeteranPassword
    IDLE_TIMEOUT = 2
    ABSOLUTE_TIMEOUT = 3
    CLEANUP_BATCH_SIZE = 1
    MaxTime = 3
SYMMETRY Symmetry
INVARIANTS
    TabActsAsItself
    NoWorkAfterLogout
    LogoutIsExact
