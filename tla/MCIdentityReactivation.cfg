SPECIFICATION Spec
CONSTANTS
    c1 = c1
    c2 = c2
    c3 = c3
    v1 = v1
    Null = Null
    Emails = {"e1", "e2"}
    Passwords = {"p1", "p2"}
    Calls = {c1, c2, c3}
    Veterans = {v1}
    VeteranEmail <- MCVeteranEmail
    VeteranPassword <- MCVeteranPassword
    IDLE_TIMEOUT = 2
    ABSOLUTE_TIMEOUT = 3
    CLEANUP_BATCH_SIZE = 1
    MaxTime = 3
INVARIANT NoReactivation
