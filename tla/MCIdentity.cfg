SPECIFICATION Spec
CONSTANTS
    c1 = c1
    c2 = c2
    c3 = c3
    v1 = v1
    Null = Null
    Emails = {"e1", "e2"}
    Passwords = {"p1", "p2"}
    Calls = {c1, c2, c3}
    Veterans = {v1}
    VeteranEmail <- MCVeteranEmail
    VeteranPassword <- MCVeteranPassword
    IDLE_TIMEOUT = 4
    ABSOLUTE_TIMEOUT = 5
    CLEANUP_BATCH_SIZE = 1
    MaxTime = 6
SYMMETRY Symmetry
INVARIANTS
    IdentityTypeOK
    SessionConstraintsHold
    PredicatesAgree
    RevokedStaysOut
    RegistrationIsAtomic
PROPERTIES
    SeenNeverRegresses
    CleanupSparesActive
    RehashedOnce
