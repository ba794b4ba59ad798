CONSTANTS
    c1 = c1
    c2 = c2
    n1 = n1
    n2 = n2
    NoWorkspace = NoWorkspace
    Clients <- TwoClients
    UserOf <- TwoUsers
    Names <- TwoNames
    Settings <- ThreeSettings
    MaxRequests = 3
    MaxChanges = 1
    MaxFaults = 1
SPECIFICATION Spec
INVARIANTS TypeOK OneVolumePerUid
PROPERTIES AnsweredIsStored WritesByAdmins ReadsByMembers
CHECK_DEADLOCK FALSE
