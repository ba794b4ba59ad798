CONSTANTS
    c1 = c1
    c2 = c2
    k1 = k1
    k2 = k2
    a = a
    Clients <- TwoClients
    Keys <- TwoKeys
    Values <- OneValue
    NoValue = NoValue
    MaxRequests = 4
    MaxFaults = 1
SPECIFICATION FairSpec
INVARIANTS TypeOK OneCreator
PROPERTIES OtherKeysKept GroupGetsComplete
