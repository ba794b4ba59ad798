CONSTANTS
    c1 = c1
    c2 = c2
    k1 = k1
    k2 = k2
    a = a
    Clients = {c1}
    Keys <- TwoKeys
    Values <- OneValue
    NoValue = NoValue
    MaxRequests = 2
    MaxFaults = 1
SPECIFICATION FairSpec
PROPERTIES PutCompletesGroup
