SPECIFICATION Spec
CONSTANTS
    b1 = b1
    b2 = b2
    b3 = b3
    Tabs = {b1, b2}
    MaxTokens = 3
    MaxFaults = 2
SYMMETRY MCSymmetry
INVARIANTS
    TypeOK
    RevocationEndsFamily
    CookieIsCurrent
PROPERTIES
    ImplementsTokenFamilies
    LogoutEndsLogin
