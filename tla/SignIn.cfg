SPECIFICATION Spec
CONSTANTS
    p1 = p1
    p2 = p2
    c1 = c1
    c2 = c2
    Instances = {i1, i2}
    Browsers = {b1, b2}
    Handles = {h1, h2}
    Issuers = {p1, p2}
    Clients = {c1, c2}
    Settings <- Pairs
    First <- Installed
    MaxSaves = 2
    None = None
SYMMETRY Symmetry
INVARIANTS
    TypeOK
    AssertedOnce
    AssertsWhatBegan
    AssertedAsConfigured
    CodeStaysWithItsProvider
    UsedCookieIsOnItsWayOut
