SPECIFICATION FairSpec
CONSTANTS
    c1 = c1
    c2 = c2
    n1 = n1
    r1 = r1
    Clients <- TwoClients
    Names <- OneName
    Roles <- OneRole
    BadRoles = BadRoles
    NoRoles = NoRoles
    MaxRequests = 2
    MaxFaults = 1
    MaxBreaks = 1
INVARIANTS
    TypeOK
    QuietListCurrent
CHECK_DEADLOCK FALSE
PROPERTIES
    ListCatchesUp
